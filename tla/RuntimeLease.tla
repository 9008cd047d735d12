---------------------------- MODULE RuntimeLease ----------------------------
(***************************************************************************)
(* The supervisor of the helper process of one SSH target and of the       *)
(* leases on it (src/internal/remotessh/runtime_supervisor.go), composed   *)
(* with the target's connection (SshConnection).                           *)
(*                                                                         *)
(* A Call is one acquisition: it finds or starts the helper, then takes a  *)
(* lease.  The helper it starts, its lifetime context, its watch goroutine *)
(* and its lease are named after it.  A Teardown is one run of revoke, for *)
(* Disconnect, Close or an idle expiry.  Critical sections on              *)
(* supervisor.mu are single steps; teardowns are as many steps as the code *)
(* has between two of them, because two of them may overlap.               *)
(***************************************************************************)
EXTENDS Naturals, FiniteSets

CONSTANTS
  Connects,   \* invocations of Connect by the owner of the target
  Calls,      \* acquisitions (a bound: each happens once)
  Teardowns,  \* invocations of revoke (a bound: each happens once)
  Owners,     \* lease owners
  MaxLeases,  \* maxRuntimeTaskLeases
  Barrier,    \* no Connect begins while a teardown is under way
  Nobody

ASSUME BarrierIsBoolean == Barrier \in BOOLEAN
ASSUME ConnectsAreFinite == IsFiniteSet(Connects)
ASSUME MaxLeasesIsPositive == MaxLeases \in Nat \ {0}
ASSUME ActorsAreDistinct ==
  Nobody \notin Connects \cup Calls /\ Calls \cap Teardowns = {}

VARIABLES
  (* the connection *)
  connection, nextGeneration, liveGeneration, attempt, attemptCancel, at,
  attemptOf, answer, boundTo, contexts, held, done, idle, cancelled, taken, waits,
  (* the runtime supervisor *)
  state,      \* supervisor.state
  epoch,      \* supervisor.epoch
  runtime,    \* supervisor.runtime, with its runtimeContext and runtimeRelease
  startDone,  \* supervisor.startDone and startCancel, of the Call that starts
  leases,     \* supervisor.leases
  timer,      \* supervisor.idleTimer: the epoch it was armed in, 0 for nil
  firing,     \* epochs whose expireIdle is about to run
  (* the actors *)
  call,       \* where each Call is
  owner,      \* request.OwnerID
  generation, \* request.Root.generation
  myEpoch,    \* the epoch of the start each Call made
  waitsFor,   \* the start whose channel each Call waits on
  finished,   \* starts whose channel is closed
  helper,     \* the helper process each Call started
  killed,     \* helpers that were killed or asked to shut down
  leasedOn,   \* the helper each Call has its lease on
  revoked,    \* leases whose context was cancelled
  watch,      \* the watchRuntime goroutine of each helper
  tear,       \* the locals of each revoke
  cancels     \* leases each teardown took and has still to cancel

Connection == INSTANCE SshConnection WITH
  state <- connection, Operations <- Calls,
  Revokes <- Teardowns \cup Calls, Waits <- Teardowns

connectionVars == <<connection, nextGeneration, liveGeneration, attempt,
                    attemptCancel, at, attemptOf, answer, boundTo, contexts,
                    held, done, idle, cancelled, taken, waits>>
tableVars == <<state, epoch, runtime, startDone, leases, timer>>
callVars == <<call, owner, generation, myEpoch, waitsFor, finished, leasedOn>>
helperVars == <<helper, killed>>
teardownVars == <<revoked, watch, tear, cancels>>
vars == <<connectionVars, tableVars, firing, callVars, helperVars, teardownVars>>

Init ==
  /\ Connection!Init
  /\ state = "stopped" /\ epoch = 0 /\ runtime = Nobody /\ startDone = Nobody
  /\ leases = {} /\ timer = 0 /\ firing = {}
  /\ call = [c \in Calls |-> "idle"]
  /\ owner \in [Calls -> Owners]
  /\ generation = [c \in Calls |-> 0] /\ myEpoch = [c \in Calls |-> 0]
  /\ waitsFor = [c \in Calls |-> Nobody] /\ finished = {}
  /\ helper = [c \in Calls |-> "none"] /\ killed = {}
  /\ leasedOn = [c \in Calls |-> Nobody] /\ revoked = {}
  /\ watch = [c \in Calls |-> "none"]
  /\ tear = [t \in Teardowns |-> [at |-> "idle", generation |-> 0, closing |-> FALSE,
               runtime |-> Nobody]]
  /\ cancels = [r \in Teardowns \cup Calls |-> {}]

Goto(c, l) == call' = [call EXCEPT ![c] = l]

TearAt(t, l) == tear' = [tear EXCEPT ![t].at = l]

TornDown(t) == tear[t].at \in {"idle", "done"}

Watched(c) == watch[c] \in {"none", "watching", "done"}

Quiet == (\A t \in Teardowns : TornDown(t)) /\ (\A c \in Calls : Watched(c))

-----------------------------------------------------------------------------
(* The owner of the target connects it.                                    *)

BeginConnect(k) ==
  /\ Barrier => Quiet
  /\ Connection!BeginConnect(k)
  /\ UNCHANGED <<tableVars, firing, callVars, helperVars, teardownVars>>

FinishConnect(k) ==
  /\ Connection!FinishConnect(k)
  /\ UNCHANGED <<tableVars, firing, callVars, helperVars, teardownVars>>

-----------------------------------------------------------------------------
(* acquire: ensureRuntime, then the lease                                  *)

(* The capability of the request was minted for a generation that was live.*)
Acquire(c) ==
  /\ call[c] = "idle" /\ Connection!Live(liveGeneration)
  /\ generation' = [generation EXCEPT ![c] = liveGeneration]
  /\ Goto(c, "ensure")
  /\ UNCHANGED <<connectionVars, tableVars, firing, owner, myEpoch, waitsFor,
                 finished, leasedOn, helperVars, teardownVars>>

Begin(c) ==
  /\ epoch' = epoch + 1
  /\ myEpoch' = [myEpoch EXCEPT ![c] = epoch']
  /\ state' = "starting"
  /\ startDone' = c
  /\ Goto(c, "bind")

Ensure(c) ==
  /\ call[c] = "ensure"
  /\ CASE state = "ready" /\ generation[runtime] = generation[c] ->
            Goto(c, "grant")
            /\ UNCHANGED <<state, epoch, startDone, myEpoch, waitsFor>>
       [] state = "starting" ->
            Goto(c, "await") /\ waitsFor' = [waitsFor EXCEPT ![c] = startDone]
            /\ UNCHANGED <<state, epoch, startDone, myEpoch>>
       [] state = "stopped" /\ Connection!Live(generation[c]) ->
            Begin(c) /\ UNCHANGED waitsFor
       [] OTHER ->
            Goto(c, "failed")
            /\ UNCHANGED <<state, epoch, startDone, myEpoch, waitsFor>>
  /\ UNCHANGED <<connectionVars, runtime, leases, timer, firing, owner,
                 generation, finished, leasedOn, helperVars, teardownVars>>

Await(c) ==
  /\ call[c] = "await" /\ waitsFor[c] \in finished
  /\ Goto(c, "ensure")
  /\ UNCHANGED <<connectionVars, tableVars, firing, owner, generation, myEpoch,
                 waitsFor, finished, leasedOn, helperVars, teardownVars>>

(* The context of the acquisition ends while it waits, or before its lease. *)
GiveUp(c) ==
  /\ call[c] \in {"await", "grant"}
  /\ Goto(c, "failed")
  /\ UNCHANGED <<connectionVars, tableVars, firing, owner, generation, myEpoch,
                 waitsFor, finished, leasedOn, helperVars, teardownVars>>

BindLifetime(c) ==
  /\ call[c] = "bind"
  /\ IF Connection!Live(generation[c])
       THEN Connection!Bind(c, generation[c]) /\ Goto(c, "launch")
       ELSE Goto(c, "launch failed") /\ UNCHANGED connectionVars
  /\ UNCHANGED <<tableVars, firing, owner, generation, myEpoch, waitsFor,
                 finished, leasedOn, helperVars, teardownVars>>

(* factory.Start fails, or succeeds even after its context was cancelled.  *)
LaunchHelper(c) ==
  /\ call[c] = "launch"
  /\ \/ helper' = [helper EXCEPT ![c] = "running"] /\ Goto(c, "launched")
     \/ Goto(c, "launch failed") /\ UNCHANGED helper
  /\ UNCHANGED <<connectionVars, tableVars, firing, owner, generation, myEpoch,
                 waitsFor, finished, leasedOn, killed, teardownVars>>

(* Mutant: a start is accepted in a later epoch.                           *)
MyStartByState(c) == state = "starting"

MyStart(c) == state = "starting" /\ epoch = myEpoch[c]

FinishStart(c) ==
  /\ call[c] \in {"launched", "launch failed"}
  /\ IF call[c] = "launched" /\ MyStart(c)
       THEN /\ runtime' = c /\ state' = "ready"
            /\ startDone' = Nobody
            /\ timer' = epoch
            /\ watch' = [watch EXCEPT ![c] = "watching"]
            /\ Goto(c, "started")
       ELSE /\ state' = IF MyStart(c) THEN "stopped" ELSE state
            /\ startDone' = IF MyStart(c) THEN Nobody ELSE startDone
            /\ Goto(c, IF call[c] = "launched" THEN "discard" ELSE "discard failed")
            /\ UNCHANGED <<runtime, timer, watch>>
  /\ UNCHANGED <<connectionVars, epoch, leases, firing, owner, generation, myEpoch,
                 waitsFor, finished, leasedOn, helperVars, revoked, tear, cancels>>

(* Mutants: a refused start leaves its helper and lifetime alone; it kills *)
(* the helper and keeps the lifetime.                                      *)
DiscardNothing(c) ==
  /\ call[c] \in {"discard", "discard failed"}
  /\ Goto(c, IF call[c] = "discard" THEN "started" ELSE "start failed")
  /\ UNCHANGED <<connectionVars, tableVars, firing, owner, generation, myEpoch,
                 waitsFor, finished, leasedOn, helperVars, teardownVars>>

DiscardHelper(c) ==
  /\ call[c] \in {"discard", "discard failed"}
  /\ killed' = IF helper[c] = "none" THEN killed ELSE killed \cup {c}
  /\ Goto(c, IF call[c] = "discard" THEN "started" ELSE "start failed")
  /\ UNCHANGED <<connectionVars, tableVars, firing, owner, generation, myEpoch,
                 waitsFor, finished, leasedOn, helper, teardownVars>>

(* releaseOnce.                                                            *)
ReleaseLifetime(c) ==
  IF c \in contexts THEN Connection!Release(c) ELSE UNCHANGED connectionVars

(* A start that was not accepted kills its helper and releases its         *)
(* lifetime.                                                               *)
Discard(c) ==
  /\ call[c] \in {"discard", "discard failed"}
  /\ killed' = IF helper[c] = "none" THEN killed ELSE killed \cup {c}
  /\ ReleaseLifetime(c)
  /\ Goto(c, IF call[c] = "discard" THEN "started" ELSE "start failed")
  /\ UNCHANGED <<tableVars, firing, owner, generation, myEpoch, waitsFor,
                 finished, leasedOn, helper, teardownVars>>

(* Mutant: a failed start does not close its channel.                      *)
StartReturnsToSome(c) ==
  /\ call[c] \in {"started", "start failed"}
  /\ finished' = IF call[c] = "started" THEN finished \cup {c} ELSE finished
  /\ Goto(c, IF call[c] = "started" THEN "ensure" ELSE "error")
  /\ UNCHANGED <<connectionVars, tableVars, firing, owner, generation, myEpoch,
                 waitsFor, leasedOn, helperVars, teardownVars>>

(* close(done): after it the Call looks at the state again, or reports the *)
(* error of its start, which disconnects unless it was revoked.            *)
StartReturns(c) ==
  /\ call[c] \in {"started", "start failed"}
  /\ finished' = finished \cup {c}
  /\ Goto(c, IF call[c] = "started" THEN "ensure" ELSE "error")
  /\ UNCHANGED <<connectionVars, tableVars, firing, owner, generation, myEpoch,
                 waitsFor, leasedOn, helperVars, teardownVars>>

StartError(c) ==
  /\ call[c] = "error"
  /\ Goto(c, IF epoch # myEpoch[c] \/ state \in {"closed", "stopping"}
               THEN "failed" ELSE "disconnect")
  /\ UNCHANGED <<connectionVars, tableVars, firing, owner, generation, myEpoch,
                 waitsFor, finished, leasedOn, helperVars, teardownVars>>

StartErrorDisconnects(c) ==
  /\ call[c] = "disconnect"
  /\ Connection!Disconnect(c)
  /\ Goto(c, "failed")
  /\ UNCHANGED <<tableVars, firing, owner, generation, myEpoch, waitsFor,
                 finished, leasedOn, helperVars, teardownVars>>

(* Mutant: a second lease of the same owner is granted.                    *)
AdmittedTwice(c) ==
  /\ state = "ready" /\ runtime # Nobody /\ generation[runtime] = generation[c]
  /\ Connection!Live(generation[c])
  /\ Cardinality(leases) < MaxLeases

Admitted(c) ==
  /\ state = "ready" /\ runtime # Nobody /\ generation[runtime] = generation[c]
  /\ Connection!Live(generation[c])
  /\ \A d \in leases : owner[d] # owner[c]
  /\ Cardinality(leases) < MaxLeases

Grant(c) ==
  /\ call[c] = "grant"
  /\ IF Admitted(c)
       THEN /\ leases' = leases \cup {c}
            /\ leasedOn' = [leasedOn EXCEPT ![c] = runtime]
            /\ timer' = 0
            /\ Goto(c, "leased")
       ELSE Goto(c, "failed") /\ UNCHANGED <<leases, leasedOn, timer>>
  /\ UNCHANGED <<connectionVars, state, epoch, runtime, startDone, firing, owner,
                 generation, myEpoch, waitsFor, finished, helperVars, teardownVars>>

(* Mutant: the context of a released lease is not cancelled.               *)
ReleaseLeaseOnly(c) ==
  /\ call[c] = "leased"
  /\ Goto(c, "released")
  /\ leases' = leases \ {c}
  /\ revoked' = revoked
  /\ timer' = IF c \in leases /\ leases' = {} /\ state = "ready" /\ timer = 0
                THEN epoch ELSE timer
  /\ UNCHANGED <<connectionVars, state, epoch, runtime, startDone, firing, owner,
                 generation, myEpoch, waitsFor, finished, leasedOn, helperVars,
                 watch, tear, cancels>>

ReleaseLease(c) ==
  /\ call[c] = "leased"
  /\ Goto(c, "released")
  /\ leases' = leases \ {c}
  /\ revoked' = revoked \cup (leases \cap {c})
  /\ timer' = IF c \in leases /\ leases' = {} /\ state = "ready" /\ timer = 0
                THEN epoch ELSE timer
  /\ UNCHANGED <<connectionVars, state, epoch, runtime, startDone, firing, owner,
                 generation, myEpoch, waitsFor, finished, leasedOn, helperVars,
                 watch, tear, cancels>>

-----------------------------------------------------------------------------
(* detachRuntimeLocked, and watchRuntime                                   *)

(* Mutant: the leases are cleared before they are taken.                   *)
DetachEmptiesFirst(r, next) ==
  /\ epoch' = epoch + 1
  /\ cancels' = [cancels EXCEPT ![r] = {}]
  /\ timer' = 0
  /\ leases' = {}
  /\ runtime' = Nobody
  /\ state' = next

Detach(r, next) ==
  /\ epoch' = epoch + 1
  /\ cancels' = [cancels EXCEPT ![r] = leases]
  /\ timer' = 0
  /\ leases' = {}
  /\ runtime' = Nobody
  /\ state' = next

HelperExits(c) ==
  /\ helper[c] = "running"
  /\ helper' = [helper EXCEPT ![c] = "exited"]
  /\ UNCHANGED <<connectionVars, tableVars, firing, callVars, killed, teardownVars>>

(* Mutant: the epoch compared is the one after the start.                  *)
WatchExitLater(c) ==
  /\ watch[c] = "watching" /\ helper[c] = "exited"
  /\ IF runtime = c /\ epoch > myEpoch[c] /\ state = "ready"
       THEN Detach(c, "stopping") /\ watch' = [watch EXCEPT ![c] = "detached"]
       ELSE watch' = [watch EXCEPT ![c] = "done"]
            /\ UNCHANGED <<epoch, timer, leases, runtime, state, cancels>>
  /\ UNCHANGED <<connectionVars, startDone, firing, callVars, helperVars, revoked, tear>>

WatchExit(c) ==
  /\ watch[c] = "watching" /\ helper[c] = "exited"
  /\ IF runtime = c /\ epoch = myEpoch[c] /\ state = "ready"
       THEN Detach(c, "stopping") /\ watch' = [watch EXCEPT ![c] = "detached"]
       ELSE watch' = [watch EXCEPT ![c] = "done"]
            /\ UNCHANGED <<epoch, timer, leases, runtime, state, cancels>>
  /\ UNCHANGED <<connectionVars, startDone, firing, callVars, helperVars, revoked, tear>>

WatchReleases(c) ==
  /\ watch[c] = "detached"
  /\ revoked' = revoked \cup cancels[c]
  /\ ReleaseLifetime(c)
  /\ watch' = [watch EXCEPT ![c] = "disconnect"]
  /\ UNCHANGED <<tableVars, firing, callVars, helperVars, tear, cancels>>

WatchDisconnects(c) ==
  /\ watch[c] = "disconnect"
  /\ Connection!Disconnect(c)
  /\ watch' = [watch EXCEPT ![c] = "stop"]
  /\ UNCHANGED <<tableVars, firing, callVars, helperVars, revoked, tear, cancels>>

(* A revoke of the connection returns when it has cancelled what it took.  *)
CancelContext(r) ==
  /\ \E x \in taken[r] : Connection!Cancel(r, x)
  /\ UNCHANGED <<tableVars, firing, callVars, helperVars, teardownVars>>

(* Mutants: a teardown reopens a closed supervisor; it forgets to set the  *)
(* state.                                                                  *)
NeverStopped == state' = state

StoppedAlways == state' = "stopped"

Stopped == state' = IF state = "closed" THEN state ELSE "stopped"

WatchStops(c) ==
  /\ watch[c] = "stop" /\ taken[c] = {}
  /\ Stopped
  /\ watch' = [watch EXCEPT ![c] = "done"]
  /\ UNCHANGED <<connectionVars, epoch, runtime, startDone, leases, timer, firing,
                 callVars, helperVars, revoked, tear, cancels>>

-----------------------------------------------------------------------------
(* revoke, for Disconnect, Close and expireIdle                            *)

Enter(t, closing) ==
  tear' = [tear EXCEPT ![t].at = "entered", ![t].closing = closing]

Revoke(t) ==
  /\ tear[t].at = "idle"
  /\ \E closing \in BOOLEAN : Enter(t, closing)
  /\ UNCHANGED <<connectionVars, tableVars, firing, callVars, helperVars,
                 revoked, watch, cancels>>

(* Mutant: a timer that was stopped fires.                                 *)
TimerFiresStopped ==
  /\ firing' = firing \cup {timer}
  /\ UNCHANGED <<connectionVars, tableVars, callVars, helperVars, teardownVars>>

TimerFires ==
  /\ timer # 0
  /\ firing' = firing \cup {timer}
  /\ UNCHANGED <<connectionVars, tableVars, callVars, helperVars, teardownVars>>

ExpireIdle(t) ==
  \E e \in firing :
    /\ firing' = firing \ {e}
    /\ IF state = "ready" /\ epoch = e /\ leases = {}
         THEN /\ tear[t].at = "idle" /\ Enter(t, FALSE)
              /\ timer' = 0
         ELSE UNCHANGED <<timer, tear>>
    /\ UNCHANGED <<connectionVars, state, epoch, runtime, startDone, leases,
                   callVars, helperVars, revoked, watch, cancels>>

SnapshotGeneration(t) ==
  /\ tear[t].at = "entered"
  /\ tear' = [tear EXCEPT ![t].at = "snapshot", ![t].generation = liveGeneration]
  /\ UNCHANGED <<connectionVars, tableVars, firing, callVars, helperVars,
                 revoked, watch, cancels>>

TearDetach(t) ==
  /\ tear[t].at = "snapshot"
  /\ IF state = "closed"
       THEN TearAt(t, "done")
            /\ UNCHANGED <<epoch, timer, leases, runtime, state, cancels>>
       ELSE /\ Detach(t, IF tear[t].closing THEN "closed" ELSE "stopping")
            /\ tear' = [tear EXCEPT ![t].at = "detached", ![t].runtime = runtime]
  /\ UNCHANGED <<connectionVars, startDone, firing, callVars, helperVars, revoked, watch>>

TearCancelsLeases(t) ==
  /\ tear[t].at = "detached"
  /\ revoked' = revoked \cup cancels[t]
  /\ TearAt(t, IF tear[t].runtime = Nobody THEN "disconnect" ELSE "shutdown")
  /\ UNCHANGED <<connectionVars, tableVars, firing, callVars, helperVars, watch, cancels>>

(* Shutdown, or Kill when it fails; both are bounded in time.              *)
TearAsksShutdown(t) ==
  /\ tear[t].at = "shutdown"
  /\ killed' = killed \cup {tear[t].runtime}
  /\ TearAt(t, "stopping")
  /\ UNCHANGED <<connectionVars, tableVars, firing, callVars, helper,
                 revoked, watch, cancels>>

TearReleases(t) ==
  /\ tear[t].at = "stopping"
  /\ ReleaseLifetime(tear[t].runtime)
  /\ TearAt(t, "disconnect")
  /\ UNCHANGED <<tableVars, firing, callVars, helperVars, revoked, watch, cancels>>

TearDisconnects(t) ==
  /\ tear[t].at = "disconnect"
  /\ IF tear[t].closing THEN Connection!Close(t) ELSE Connection!Disconnect(t)
  /\ TearAt(t, "barrier")
  /\ UNCHANGED <<tableVars, firing, callVars, helperVars, revoked, watch, cancels>>

TearWaits(t) ==
  /\ tear[t].at = "barrier" /\ taken[t] = {}
  /\ Connection!Wait(t, tear[t].generation)
  /\ TearAt(t, "waiting")
  /\ UNCHANGED <<tableVars, firing, callVars, helperVars, revoked, watch, cancels>>

WaitEnds(t) ==
  /\ Connection!WaitEnds(t) \/ Connection!WaitTimesOut(t)
  /\ UNCHANGED <<tableVars, firing, callVars, helperVars, teardownVars>>

(* The wait for the start in progress is bounded by cleanupTimeout, too.   *)
TearStops(t) ==
  /\ tear[t].at = "waiting" /\ waits[t].at \in {"passed", "timed out"}
  /\ Stopped
  /\ TearAt(t, "done")
  /\ UNCHANGED <<connectionVars, epoch, runtime, startDone, leases, timer, firing,
                 callVars, helperVars, revoked, watch, cancels>>

-----------------------------------------------------------------------------
Starting(c) ==
  \/ Ensure(c) \/ Await(c) \/ BindLifetime(c) \/ LaunchHelper(c) \/ FinishStart(c)
  \/ Discard(c) \/ StartReturns(c) \/ StartError(c) \/ StartErrorDisconnects(c)
  \/ Grant(c)

Watching(c) == WatchExit(c) \/ WatchReleases(c) \/ WatchDisconnects(c) \/ WatchStops(c)

Tearing(t) ==
  \/ SnapshotGeneration(t) \/ TearDetach(t) \/ TearCancelsLeases(t)
  \/ TearAsksShutdown(t) \/ TearReleases(t) \/ TearDisconnects(t) \/ TearWaits(t)
  \/ WaitEnds(t) \/ TearStops(t)

Next ==
  \/ \E k \in Connects : BeginConnect(k) \/ FinishConnect(k)
  \/ \E c \in Calls :
       \/ Acquire(c) \/ GiveUp(c) \/ Starting(c) \/ ReleaseLease(c)
       \/ HelperExits(c) \/ Watching(c)
  \/ TimerFires
  \/ \E t \in Teardowns : Revoke(t) \/ ExpireIdle(t) \/ Tearing(t)
  \/ \E r \in Teardowns \cup Calls : CancelContext(r)

Spec == Init /\ [][Next]_vars

(* Goroutines run; a helper that was killed, or whose lifetime is          *)
(* cancelled, exits; factory.Start ends one way or the other.  Nothing     *)
(* makes a user connect, acquire, release, give up or disconnect.          *)
Fairness ==
  /\ \A c \in Calls :
       /\ WF_vars(Starting(c)) /\ WF_vars(Watching(c)) /\ WF_vars(CancelContext(c))
       /\ WF_vars(c \in killed \cup cancelled /\ HelperExits(c))
  /\ \A t \in Teardowns : WF_vars(Tearing(t)) /\ WF_vars(CancelContext(t))

FairSpec == Spec /\ Fairness

-----------------------------------------------------------------------------
(* Properties *)

(* Every variable keeps its type.                                          *)
TypeOK ==
  /\ Connection!TypeOK
  /\ state \in {"stopped", "starting", "ready", "stopping", "closed"}
  /\ epoch \in Nat /\ timer \in 0 .. epoch /\ firing \subseteq 1 .. epoch
  /\ runtime \in Calls \cup {Nobody} /\ startDone \in Calls \cup {Nobody}
  /\ leases \subseteq Calls /\ finished \subseteq Calls
  /\ killed \subseteq Calls /\ revoked \subseteq Calls
  /\ helper \in [Calls -> {"none", "running", "exited"}]

(* The supervisor holds a helper exactly while it is ready, one started in *)
(* the current epoch, which is how watchRuntime and expireIdle know that   *)
(* nothing came between.                                                   *)
EpochIdentifiesRuntime ==
  /\ state = "ready" <=> runtime # Nobody
  /\ runtime # Nobody => myEpoch[runtime] = epoch

(* No start is forgotten: what runs under a live generation and nobody has *)
(* asked to end is the helper of the supervisor, or about to be.           *)
NoStrayHelper ==
  \A c \in Calls :
    helper[c] = "running" /\ c \notin killed \cup cancelled =>
      runtime = c \/ call[c] \in {"launched", "discard"}
        \/ \E t \in Teardowns : tear[t].runtime = c /\ ~TornDown(t)

(* Every lifetime still bound to the connection has somebody who will      *)
(* release it, so the teardown barrier can open.                           *)
LifetimesHaveOwners ==
  \A c \in contexts :
    \/ runtime = c
    \/ call[c] \in {"launch", "launch failed", "launched", "discard", "discard failed"}
    \/ watch[c] = "detached"
    \/ \E t \in Teardowns : tear[t].runtime = c /\ ~TornDown(t)

(* The context of a lease is cancelled before its helper is asked to shut  *)
(* down.                                                                   *)
LeaseEnded(c) == c \in revoked \/ leasedOn[c] \in cancelled

LeasesEndFirst ==
  \A c \in Calls : leasedOn[c] \in killed => LeaseEnded(c)

(* No lease survives: when no teardown is under way, a lease whose context *)
(* still lives is in the table of a ready supervisor on that helper.       *)
LiveLeasesAreKnown ==
  Quiet =>
    \A c \in Calls :
      leasedOn[c] # Nobody /\ ~LeaseEnded(c) => c \in leases /\ runtime = leasedOn[c]

(* The exit of a helper ends the leases on it (runtime_supervisor.go:      *)
(* 136-138), once its watch goroutine and the teardowns have run.          *)
ExitEndsLeases ==
  Quiet => \A c, d \in Calls : watch[c] = "done" /\ leasedOn[d] = c => LeaseEnded(d)

(* Only a ready supervisor has leases, one for an owner, and no more than  *)
(* the limit.                                                              *)
LeasesAreBounded ==
  /\ leases # {} => state = "ready"
  /\ Cardinality(leases) <= MaxLeases
  /\ \A c, d \in leases : owner[c] = owner[d] => c = d

(* At any time at most one helper is the supervisor's, known by its epoch, *)
(* and every other one, with its lifetime on the connection, has somebody  *)
(* who is about to end it.                                                 *)
OneHelperIsOwned ==
  /\ TypeOK
  /\ EpochIdentifiesRuntime
  /\ NoStrayHelper
  /\ LifetimesHaveOwners

(* A lease is counted while it lives and is cancelled before what it was   *)
(* taken for goes away.                                                    *)
LeasesAreAccountedFor ==
  /\ LeasesEndFirst
  /\ LiveLeasesAreKnown
  /\ LeasesAreBounded

(* A late start cannot restore readiness while a disconnect is under way   *)
(* (runtime_supervisor.go:608-610), and no teardown that was under way, no *)
(* start and no exit takes the supervisor out of `closed` (:666-670).      *)
TeardownIsFinal ==
  [][/\ (\E t \in Teardowns : tear[t].at \notin {"idle", "entered", "snapshot", "done"})
          => ~(state # "ready" /\ state' = "ready")
     /\ state = "closed" => state' = "closed"]_vars

(* Nobody waits for ever for a start another Call makes.                   *)
StartersAreReleased == \A c \in Calls : call[c] = "await" ~> call[c] # "await"

(* A helper that exits is dropped, and the supervisor can start another    *)
(* one or is closed.                                                       *)
ExitedHelperIsDropped ==
  \A c \in Calls : runtime = c /\ helper[c] = "exited" ~> runtime # c

(* A teardown that has detached the helper leads back to `stopped`, where  *)
(* a new generation can start, or to `closed`.                             *)
StoppingEnds == state = "stopping" ~> state # "stopping"

=============================================================================
