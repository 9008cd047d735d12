----------------------------- MODULE RemoteTask -----------------------------
(***************************************************************************)
(* The remote task of one thread: StartSession of a remote workspace and   *)
(* what ends it, StopSession, maintenance, quitting and the exit of Pi     *)
(* (src/internal/appservice/agent.go).                                     *)
(*                                                                         *)
(* A launch is a call of StartSession.  It makes at most one lease, one    *)
(* broker and one Pi process, so all of these, and the generation of the   *)
(* session, are named by their launch.  The broker itself is RemoteBroker; *)
(* of the Pi supervisor, which PiSupervisor details, the slot of the thread*)
(* is kept, and of the life cycle of the target (TargetLifecycle) the task *)
(* of the thread and its lease.  Left out: other threads, the history lock *)
(* (AgentHistory), and the admission of prompts, which reads only.         *)
(***************************************************************************)
EXTENDS Naturals, FiniteSets

CONSTANTS
  Launches,     \* calls of StartSession
  Stoppers,     \* calls of StopSession, of maintenance, of the shutdown
  NoBroker

ASSUME CallsAreDistinct == NoBroker \notin Launches /\ Launches \cap Stoppers = {}

VARIABLES
  act,         \* where each call is: what it closes, whether it then stops Pi
  session,     \* remoteSessions[thread]: its broker, and its generation once known
  threadTask,  \* lifecycle.tasks[thread]: its lease
  taskLeases,  \* the task leases made
  broker,      \* the remoteTaskBrokers, up to the end of Close and StopTask
  pi,          \* the slot of the thread in the Pi supervisor
  exits        \* its watch of each Pi, up to the end of the runtime_exit

remoteTaskVars == <<act, session, threadTask, taskLeases, broker, pi, exits>>

Idle == [at |-> "idle", kind |-> "none", takes |-> NoBroker, halts |-> FALSE]
NoBrokerYet == [stage |-> "none", lease |-> NoBroker, frees |-> NoBroker, hello |-> FALSE]
NoSession == [broker |-> NoBroker, generation |-> NoBroker]
NoPi == [at |-> "free", of |-> NoBroker]

RemoteTaskInit ==
  /\ act = [a \in Launches \cup Stoppers |-> Idle]
  /\ session = NoSession
  /\ threadTask = NoBroker
  /\ taskLeases = [l \in Launches |-> "none"]
  /\ broker = [b \in Launches |-> NoBrokerYet]
  /\ pi = NoPi
  /\ exits = [p \in Launches |-> [at |-> "none", takes |-> NoBroker]]

-----------------------------------------------------------------------------
(* Building blocks.                                                        *)
Stands(a, l) == act[a].at = l
Goes(a, l) == act' = [act EXCEPT ![a].at = l]
Closes(a, halts) == act' = [act EXCEPT ![a].at = "close", ![a].halts = halts]
Finishes(a, l) == act' = [act EXCEPT ![a] = [Idle EXCEPT !.at = l]]

(* The context of a broker: cancelled by Close, or with its lease.         *)
BrokerLives(b) == broker[b].stage = "open" /\ taskLeases[broker[b].lease] = "live"
Ending(l) == IF l = NoBroker THEN taskLeases ELSE [taskLeases EXCEPT ![l] = "ended"]

(* maintenanceMu: a launch holds it shared, maintenance and the shutdown   *)
(* alone; after the shutdown there is no runtime.                          *)
Launching(s) == act[s].at \notin {"idle", "started", "failed"}
Excludes(a) == act[a].kind \in {"maintain", "quit"} /\ act[a].at \notin {"idle", "over"}
HasQuit == \E a \in Stoppers : act[a].kind = "quit"

-----------------------------------------------------------------------------
(* StartSession.                                                           *)
StartSession(s) ==
  /\ Stands(s, "idle") /\ ~HasQuit /\ \A a \in Stoppers : ~Excludes(a)
  /\ act' = [act EXCEPT ![s].at = "acquire", ![s].kind = "start"]
  /\ UNCHANGED <<session, threadTask, taskLeases, broker, pi, exits>>

(* The lifecycle refuses a second task of the thread; it may also find the *)
(* root stale, or the connection down.                                     *)
AcquireTask(s) ==
  /\ Stands(s, "acquire")
  /\ \/ /\ threadTask = NoBroker /\ threadTask' = s
        /\ taskLeases' = [taskLeases EXCEPT ![s] = "live"]
        /\ Goes(s, "backend")
     \/ Finishes(s, "failed") /\ UNCHANGED <<threadTask, taskLeases>>
  /\ UNCHANGED <<session, broker, pi, exits>>

(* taskBackend and newRemoteTaskBroker: the lease the thread has now, which*)
(* may end before the broker is made; a broker that fails leaves nothing   *)
(* behind.  The limit of sessions, a stale lease and an anchor that cannot *)
(* be made give the task up, too.                                          *)
NewBroker(s) ==
  /\ Stands(s, "backend")
  /\ \/ /\ threadTask # NoBroker /\ taskLeases[threadTask] = "live"
        /\ broker' = [broker EXCEPT ![s].stage = "open", ![s].lease = threadTask]
        /\ Goes(s, "register")
     \/ Goes(s, "give up") /\ UNCHANGED broker
  /\ UNCHANGED <<session, threadTask, taskLeases, pi, exits>>

(* StopTask of a launch that failed: whatever lease the thread has now.    *)
GiveTaskUp(s) ==
  /\ Stands(s, "give up")
  /\ act' = [act EXCEPT ![s].at = "release", ![s].takes = threadTask]
  /\ threadTask' = NoBroker
  /\ UNCHANGED <<session, taskLeases, broker, pi, exits>>

ReleaseGivenUp(s) ==
  /\ Stands(s, "release")
  /\ taskLeases' = Ending(act[s].takes)
  /\ Finishes(s, "failed")
  /\ UNCHANGED <<session, threadTask, broker, pi, exits>>

(* Mutant: a second broker is refused and not closed.                      *)
RegisterSessionOnly(s) ==
  /\ Stands(s, "register")
  /\ IF session.broker = NoBroker
     THEN session' = [session EXCEPT !.broker = s] /\ Goes(s, "launch")
     ELSE Finishes(s, "failed") /\ UNCHANGED session
  /\ UNCHANGED <<threadTask, taskLeases, broker, pi, exits>>

RegisterSession(s) ==
  /\ Stands(s, "register")
  /\ IF session.broker = NoBroker
     THEN session' = [session EXCEPT !.broker = s] /\ Goes(s, "launch") /\ UNCHANGED broker
     ELSE /\ broker' = [broker EXCEPT ![s].stage = "taken"]
          /\ act' = [act EXCEPT ![s].at = "closing", ![s].takes = s]
          /\ UNCHANGED session
  /\ UNCHANGED <<threadTask, taskLeases, pi, exits>>

(* Start of the Pi supervisor, as a caller sees it; a Pi that is starting  *)
(* is one that runs.                                                       *)
LaunchPi(s) ==
  /\ Stands(s, "launch")
  /\ \/ /\ pi.at = "free" /\ pi' = [at |-> "running", of |-> s]
        /\ Goes(s, "ready")
     \/ Closes(s, FALSE) /\ UNCHANGED pi
  /\ UNCHANGED <<session, threadTask, taskLeases, broker, exits>>

PiIsReady(s) ==
  /\ Stands(s, "ready")
  /\ \/ pi = [at |-> "running", of |-> s] /\ Goes(s, "handshake") /\ UNCHANGED pi
     \/ /\ pi' = IF pi = [at |-> "running", of |-> s] THEN NoPi ELSE pi
        /\ Closes(s, FALSE)
  /\ UNCHANGED <<session, threadTask, taskLeases, broker, exits>>

(* The handshake of the adapter, and waitHandshake: RemoteBroker details   *)
(* both.  A Pi that was stopped lives on for a while.                      *)
AdapterHello(b) ==
  /\ act[b].at \in {"ready", "handshake"} /\ BrokerLives(b)
  /\ broker' = [broker EXCEPT ![b].hello = TRUE]
  /\ UNCHANGED <<act, session, threadTask, taskLeases, pi, exits>>

(* Mutant: the outcome of waitHandshake is not looked at.                  *)
TrustHandshake(s) ==
  /\ Stands(s, "handshake")
  /\ Goes(s, "settle") \/ Closes(s, TRUE)
  /\ UNCHANGED <<session, threadTask, taskLeases, broker, pi, exits>>

AwaitHandshake(s) ==
  /\ Stands(s, "handshake")
  /\ (broker[s].hello /\ Goes(s, "settle")) \/ Closes(s, TRUE)
  /\ UNCHANGED <<session, threadTask, taskLeases, broker, pi, exits>>

(* Mutant: the session is not compared with the broker.                    *)
SettleAnySession(s) ==
  /\ Stands(s, "settle")
  /\ IF session.broker = NoBroker THEN Closes(s, TRUE) /\ UNCHANGED session
     ELSE session' = [session EXCEPT !.generation = s] /\ Finishes(s, "started")
  /\ UNCHANGED <<threadTask, taskLeases, broker, pi, exits>>

(* A session that another launch registered meanwhile is left as it is,    *)
(* and the launch succeeds all the same.                                   *)
SettleSession(s) ==
  /\ Stands(s, "settle")
  /\ IF session.broker = NoBroker THEN Closes(s, TRUE) /\ UNCHANGED session
     ELSE /\ session' = IF session.broker = s THEN [session EXCEPT !.generation = s] ELSE session
          /\ Finishes(s, "started")
  /\ UNCHANGED <<threadTask, taskLeases, broker, pi, exits>>

-----------------------------------------------------------------------------
(* StopSession, preparePiMaintenance and ServiceShutdown.                  *)
Stop(a, k) ==
  /\ Stands(a, "idle") /\ k \in {"stop", "maintain", "quit"}
  /\ k # "stop" => \A s \in Launches : ~Launching(s)
  /\ k # "stop" => \A o \in Stoppers : ~Excludes(o)
  /\ ~HasQuit
  /\ act' = [act EXCEPT ![a] = [Idle EXCEPT !.at = "close", !.kind = k, !.halts = TRUE]]
  /\ UNCHANGED <<session, threadTask, taskLeases, broker, pi, exits>>

(* closeRemoteSession, and closeAllRemoteSessions, which knows no          *)
(* generation either: the session is taken out under the lock.             *)
Closable(g) == session.broker # NoBroker
                 /\ (g = NoBroker \/ session.generation \in {NoBroker, g})
SessionTaken ==
  session' = NoSession /\ broker' = [broker EXCEPT ![session.broker].stage = "taken"]

AfterClosing(a) == IF act[a].halts
                   THEN act' = [act EXCEPT ![a].at = "stop pi", ![a].takes = NoBroker]
                   ELSE Finishes(a, "failed")

CloseSession(a) ==
  /\ Stands(a, "close")
  /\ IF Closable(NoBroker)
     THEN SessionTaken /\ act' = [act EXCEPT ![a].at = "closing", ![a].takes = session.broker]
     ELSE AfterClosing(a) /\ UNCHANGED <<session, broker>>
  /\ UNCHANGED <<threadTask, taskLeases, pi, exits>>

SessionClosed(a) ==
  /\ Stands(a, "closing") /\ broker[act[a].takes].stage = "stopped"
  /\ AfterClosing(a)
  /\ UNCHANGED <<session, threadTask, taskLeases, broker, pi, exits>>

(* Stop of the Pi supervisor, StopAll and Shutdown: a Pi that is exiting   *)
(* is left alone.                                                          *)
StopPi(a) ==
  /\ Stands(a, "stop pi")
  /\ pi' = IF pi.at = "running" THEN NoPi ELSE pi
  /\ act' = [act EXCEPT ![a].at = IF a \in Launches THEN "failed" ELSE "over",
                        ![a].takes = NoBroker, ![a].halts = FALSE]
  /\ UNCHANGED <<session, threadTask, taskLeases, broker, exits>>

-----------------------------------------------------------------------------
(* A Pi process exits by itself: watch moves the thread to exiting, and the*)
(* runtime_exit closes the session before the thread is free again.        *)
PiEnds(p) ==
  /\ pi = [at |-> "running", of |-> p]
  /\ pi' = [pi EXCEPT !.at = "exiting"]
  /\ exits' = [exits EXCEPT ![p].at = "emitted"]
  /\ UNCHANGED <<act, session, threadTask, taskLeases, broker>>

CloseOfExit(p) ==
  /\ exits[p].at = "emitted"
  /\ IF Closable(p)
     THEN /\ SessionTaken
          /\ exits' = [exits EXCEPT ![p] = [at |-> "closing", takes |-> session.broker]]
          /\ UNCHANGED pi
     ELSE /\ exits' = [exits EXCEPT ![p].at = "handled"] /\ pi' = NoPi
          /\ UNCHANGED <<session, broker>>
  /\ UNCHANGED <<act, threadTask, taskLeases>>

ExitHandled(p) ==
  /\ exits[p].at = "closing" /\ broker[exits[p].takes].stage = "stopped"
  /\ exits' = [exits EXCEPT ![p] = [at |-> "handled", takes |-> NoBroker]]
  /\ pi' = NoPi
  /\ UNCHANGED <<act, session, threadTask, taskLeases, broker>>

-----------------------------------------------------------------------------
(* Close of a broker, which may return before its goroutines have ended,   *)
(* then StopTask, by whoever took the session.                             *)
CloseBroker(b) ==
  /\ broker[b].stage = "taken"
  /\ broker' = [broker EXCEPT ![b].stage = "closed"]
  /\ UNCHANGED <<act, session, threadTask, taskLeases, pi, exits>>

StopTask(b) ==
  /\ broker[b].stage = "closed"
  /\ broker' = [broker EXCEPT ![b].stage = "unlisted", ![b].frees = threadTask]
  /\ threadTask' = NoBroker
  /\ UNCHANGED <<act, session, taskLeases, pi, exits>>

ReleaseTask(b) ==
  /\ broker[b].stage = "unlisted"
  /\ taskLeases' = Ending(broker[b].frees)
  /\ broker' = [broker EXCEPT ![b] = [NoBrokerYet EXCEPT !.stage = "stopped"]]
  /\ UNCHANGED <<act, session, threadTask, pi, exits>>

(* watchTask: a lease that ended is no longer the task of its thread.      *)
WatchTask(l) ==
  /\ taskLeases[l] = "ended" /\ threadTask = l
  /\ threadTask' = NoBroker
  /\ UNCHANGED <<act, session, taskLeases, broker, pi, exits>>

(* admitRemotePrompt, of the prompts and the bash commands of the thread:  *)
(* its session is registered, the broker alive, the lease of the task too. *)
PromptIsAdmitted ==
  /\ session.broker # NoBroker /\ BrokerLives(session.broker)
  /\ threadTask # NoBroker /\ taskLeases[threadTask] = "live"

LoseConnection ==
  /\ \E l \in Launches : taskLeases[l] = "live"
  /\ taskLeases' = [l \in Launches |-> IF taskLeases[l] = "live" THEN "ended" ELSE taskLeases[l]]
  /\ UNCHANGED <<act, session, threadTask, broker, pi, exits>>

-----------------------------------------------------------------------------
LaunchNext == \E s \in Launches :
  \/ StartSession(s) \/ AcquireTask(s) \/ NewBroker(s) \/ GiveTaskUp(s) \/ ReleaseGivenUp(s)
  \/ RegisterSession(s) \/ LaunchPi(s) \/ PiIsReady(s) \/ AdapterHello(s) \/ AwaitHandshake(s)
  \/ SettleSession(s)

EndNext ==
  \/ \E a \in Stoppers, k \in {"stop", "maintain", "quit"} : Stop(a, k)
  \/ \E a \in Launches \cup Stoppers : CloseSession(a) \/ SessionClosed(a) \/ StopPi(a)
  \/ \E p \in Launches : PiEnds(p) \/ CloseOfExit(p) \/ ExitHandled(p)

TaskNext ==
  \/ \E b \in Launches : CloseBroker(b) \/ StopTask(b) \/ ReleaseTask(b) \/ WatchTask(b)
  \/ LoseConnection

RemoteTaskNext == LaunchNext \/ EndNext \/ TaskNext

RemoteTaskSpec == RemoteTaskInit /\ [][RemoteTaskNext]_remoteTaskVars

-----------------------------------------------------------------------------
(* While no call and no runtime_exit is in progress, a live lease is the   *)
(* task of the thread, its session is registered with a broker on this     *)
(* lease, and every broker that still listens is the registered one.       *)
NoCallRuns ==
  /\ \A a \in DOMAIN act : act[a].at \in {"idle", "started", "failed", "over"}
  /\ \A p \in Launches : exits[p].at \notin {"emitted", "closing"}
TasksHaveSessions ==
  NoCallRuns =>
    /\ \A l \in Launches : taskLeases[l] = "live" =>
         threadTask = l /\ session.broker # NoBroker /\ broker[session.broker].lease = l
    /\ \A b \in Launches : broker[b].stage = "open" => session.broker = b

(* Once the runtime_exit of a Pi process has been handled, its session is  *)
(* not registered any more.                                                *)
NoSessionOutlivesItsExit ==
  session.broker # NoBroker => exits[session.broker].at # "handled"

(* While no call is in progress, a prompt that is admitted goes to the Pi  *)
(* whose tools use the broker that was asked, after its handshake.         *)
PromptsReachTheirPi ==
  NoCallRuns /\ PromptIsAdmitted /\ pi.at = "running" =>
    pi.of = session.broker /\ broker[pi.of].hello

(* However launches, stops, exits of Pi and lost connections overlap, the  *)
(* session of the thread, its task and its Pi belong together.             *)
TaskIsWhole == TasksHaveSessions /\ NoSessionOutlivesItsExit /\ PromptsReachTheirPi
=============================================================================
