---------------------------- MODULE PiSupervisor ----------------------------
(***************************************************************************)
(* The supervisor of the Pi processes, one session per thread              *)
(* (src/internal/piruntime/supervisor.go).                                 *)
(*                                                                         *)
(* Each invocation of Start is a value of Starts; it is also the identity  *)
(* of the process, the client and the managedSession it creates.  The      *)
(* client is the one of PiClient, reduced to what the supervisor sees of   *)
(* it: a reader that hands events to a sink until the stream ends, and a   *)
(* `done` channel closed by Close, by the reader, or after the reader when *)
(* Pi exits.  Critical sections on supervisor.mu are single steps; what    *)
(* the code does between two of them is a step of its own.                 *)
(***************************************************************************)
EXTENDS Naturals, FiniteSets

CONSTANTS
  Threads,  \* thread ids
  Starts,   \* the invocations of Start (a bound: each happens once)
  None      \* no session

ASSUME NoneIsNoStart == None \notin Starts
ASSUME StartsFinite == IsFiniteSet(Starts)

VARIABLES
  loc,            \* where each Start is
  thread,         \* the thread id each Start was given
  generation,     \* managedSession.generation, 0 before it is assigned
  nextGeneration, \* supervisor.nextGeneration
  sessions,       \* supervisor.sessions: thread -> session or None
  starting,       \* supervisor.starting
  exiting,        \* supervisor.exiting
  closed,         \* supervisor.closed
  cancelled,      \* supervisor.ctx is cancelled
  closing,        \* sessions on which Close is about to be called
  watch,          \* the watch goroutine of each session
  process,        \* the process of each Start
  killed,         \* processes sent a kill signal
  reader,         \* the reader goroutine of each client
  clientDone,     \* clients whose done channel is closed
  exitSent        \* sessions whose runtime_exit went to the sink

startVars  == <<loc, thread, generation, nextGeneration>>
tableVars  == <<sessions, starting, exiting>>
clientVars == <<process, killed, reader, clientDone>>
vars == <<startVars, tableVars, closed, cancelled, closing, watch, clientVars,
          exitSent>>

Init ==
  /\ loc = [s \in Starts |-> "idle"]
  /\ thread \in [Starts -> Threads]
  /\ generation = [s \in Starts |-> 0]
  /\ nextGeneration = 0
  /\ sessions = [t \in Threads |-> None]
  /\ starting = {} /\ exiting = {}
  /\ closed = FALSE /\ cancelled = FALSE
  /\ closing = {}
  /\ watch = [s \in Starts |-> "none"]
  /\ process = [s \in Starts |-> "none"]
  /\ killed = {}
  /\ reader = [s \in Starts |-> "none"]
  /\ clientDone = {}
  /\ exitSent = {}

Active(t) == sessions[t] # None \/ t \in starting \/ t \in exiting

ActiveCount ==
  Cardinality({t \in Threads : sessions[t] # None})
    + Cardinality(starting) + Cardinality(exiting)

isCurrent(s) ==
  LET current == sessions[thread[s]] IN
  current # None /\ generation[current] = generation[s]

Goto(s, l) == loc' = [loc EXCEPT ![s] = l]

-----------------------------------------------------------------------------
(* Start *)

(* Mutants: the reservation is keyed by the invocation, not the thread;    *)
(* Start does not look at `exiting`; Start does not look at `starting`.    *)
ReserveByStart(s) ==
  /\ loc[s] = "idle"
  /\ IF closed \/ Active(thread[s])
       THEN Goto(s, "error") /\ UNCHANGED starting
       ELSE /\ starting' = starting \cup {s}
            /\ Goto(s, "launching")
  /\ UNCHANGED <<thread, generation, nextGeneration, sessions, exiting, closed,
                 cancelled, closing, watch, clientVars, exitSent>>

ReserveWhileExiting(s) ==
  /\ loc[s] = "idle"
  /\ IF closed \/ sessions[thread[s]] # None \/ thread[s] \in starting
       THEN Goto(s, "error") /\ UNCHANGED starting
       ELSE /\ starting' = starting \cup {thread[s]}
            /\ Goto(s, "launching")
  /\ UNCHANGED <<thread, generation, nextGeneration, sessions, exiting, closed,
                 cancelled, closing, watch, clientVars, exitSent>>

ReserveTwice(s) ==
  /\ loc[s] = "idle"
  /\ IF closed \/ sessions[thread[s]] # None \/ thread[s] \in exiting
       THEN Goto(s, "error") /\ UNCHANGED starting
       ELSE /\ starting' = starting \cup {thread[s]}
            /\ Goto(s, "launching")
  /\ UNCHANGED <<thread, generation, nextGeneration, sessions, exiting, closed,
                 cancelled, closing, watch, clientVars, exitSent>>

Reserve(s) ==
  /\ loc[s] = "idle"
  /\ IF closed \/ Active(thread[s])
       THEN Goto(s, "error") /\ UNCHANGED starting
       ELSE /\ starting' = starting \cup {thread[s]}
            /\ Goto(s, "launching")
  /\ UNCHANGED <<thread, generation, nextGeneration, sessions, exiting, closed,
                 cancelled, closing, watch, clientVars, exitSent>>

(* starter.Start: it may fail, or complete after the context is cancelled. *)
Launch(s) ==
  /\ loc[s] = "launching"
  /\ \/ /\ process' = [process EXCEPT ![s] = "running"]
        /\ Goto(s, "launched")
     \/ Goto(s, "unreserve") /\ UNCHANGED process
  /\ UNCHANGED <<thread, generation, nextGeneration, tableVars, closed,
                 cancelled, closing, watch, killed, reader, clientDone, exitSent>>

(* Mutant: the generation is read and written without atomicity.           *)
NumberStale(s) ==
  /\ loc[s] = "launched"
  /\ nextGeneration' = nextGeneration
  /\ generation' = [generation EXCEPT ![s] = nextGeneration + 1]
  /\ reader' = [reader EXCEPT ![s] = "reading"]
  /\ Goto(s, "numbered")
  /\ UNCHANGED <<thread, tableVars, closed, cancelled, closing, watch, process,
                 killed, clientDone, exitSent>>

(* The generation is drawn, and NewClient starts its goroutines, before    *)
(* supervisor.mu is taken again.                                           *)
Number(s) ==
  /\ loc[s] = "launched"
  /\ nextGeneration' = nextGeneration + 1
  /\ generation' = [generation EXCEPT ![s] = nextGeneration']
  /\ reader' = [reader EXCEPT ![s] = "reading"]
  /\ Goto(s, "numbered")
  /\ UNCHANGED <<thread, tableVars, closed, cancelled, closing, watch, process,
                 killed, clientDone, exitSent>>

(* Mutants: `closed` is not looked at again; the reservation is not        *)
(* deleted.                                                                *)
RegisterWhenClosed(s) ==
  LET t == thread[s] IN
  /\ loc[s] = "numbered"
  /\ starting' = starting \ {t}
  /\ sessions' = [sessions EXCEPT ![t] = s]
  /\ watch' = [watch EXCEPT ![s] = "waiting"]
  /\ Goto(s, "started")
  /\ UNCHANGED <<thread, generation, nextGeneration, exiting, closed, cancelled,
                 closing, clientVars, exitSent>>

RegisterStillStarting(s) ==
  LET t == thread[s] IN
  /\ loc[s] = "numbered"
  /\ sessions' = [sessions EXCEPT ![t] = s]
  /\ watch' = [watch EXCEPT ![s] = "waiting"]
  /\ Goto(s, "calling")
  /\ UNCHANGED <<thread, generation, nextGeneration, starting, exiting, closed,
                 cancelled, closing, clientVars, exitSent>>

Register(s) ==
  LET t == thread[s] IN
  /\ loc[s] = "numbered"
  /\ starting' = starting \ {t}
  /\ IF closed \/ sessions[t] # None
       THEN /\ closing' = closing \cup {s}
            /\ Goto(s, "unreserve")
            /\ UNCHANGED <<sessions, watch>>
       ELSE /\ sessions' = [sessions EXCEPT ![t] = s]
            /\ watch' = [watch EXCEPT ![s] = "waiting"]
            /\ Goto(s, "calling")
            /\ UNCHANGED closing
  /\ UNCHANGED <<thread, generation, nextGeneration, exiting, closed, cancelled,
                 clientVars, exitSent>>

(* The deferred function of a Start that did not register.                 *)
Unreserve(s) ==
  /\ loc[s] = "unreserve" /\ s \notin closing
  /\ starting' = starting \ {thread[s]}
  /\ Goto(s, "error")
  /\ UNCHANGED <<thread, generation, nextGeneration, sessions, exiting, closed,
                 cancelled, closing, watch, clientVars, exitSent>>

Ready(s) ==
  /\ loc[s] = "calling"
  /\ Goto(s, "started")
  /\ UNCHANGED <<thread, generation, nextGeneration, tableVars, closed,
                 cancelled, closing, watch, clientVars, exitSent>>

(* get_state failed or timed out: remove, then Close.                      *)
NotReady(s) ==
  LET t == thread[s] IN
  /\ loc[s] = "calling"
  /\ sessions' = IF sessions[t] = s THEN [sessions EXCEPT ![t] = None] ELSE sessions
  /\ closing' = closing \cup {s}
  /\ Goto(s, "error")
  /\ UNCHANGED <<thread, generation, nextGeneration, starting, exiting, closed,
                 cancelled, watch, clientVars, exitSent>>

-----------------------------------------------------------------------------
(* Stop, StopAll and Shutdown take sessions out under the lock and close   *)
(* their clients after it.                                                 *)

(* Mutant: Stop closes the client and leaves the session to watch.         *)
StopInPlace(t) ==
  /\ sessions[t] # None /\ sessions[t] \notin closing
  /\ closing' = closing \cup {sessions[t]}
  /\ UNCHANGED <<startVars, tableVars, closed, cancelled, watch,
                 clientVars, exitSent>>

Stop(t) ==
  /\ sessions[t] # None
  /\ sessions' = [sessions EXCEPT ![t] = None]
  /\ closing' = closing \cup {sessions[t]}
  /\ UNCHANGED <<startVars, starting, exiting, closed, cancelled, watch,
                 clientVars, exitSent>>

AllSessions == {sessions[t] : t \in Threads} \ {None}

StopAll ==
  /\ starting = {} /\ exiting = {} /\ AllSessions # {}
  /\ closing' = closing \cup AllSessions
  /\ sessions' = [t \in Threads |-> None]
  /\ UNCHANGED <<startVars, starting, exiting, closed, cancelled, watch,
                 clientVars, exitSent>>

(* ExecStarter ties the processes to the context; ProcessStarter, the      *)
(* interface, does not ask it of every starter.                            *)
ShutdownCancel ==
  /\ ~cancelled
  /\ cancelled' = TRUE
  /\ killed' \in {killed, killed \cup {s \in Starts : process[s] = "running"}}
  /\ UNCHANGED <<startVars, tableVars, closed, closing, watch, process, reader,
                 clientDone, exitSent>>

ShutdownClose ==
  /\ cancelled /\ ~closed
  /\ closed' = TRUE
  /\ closing' = closing \cup AllSessions
  /\ sessions' = [t \in Threads |-> None]
  /\ UNCHANGED <<startVars, starting, exiting, cancelled, watch, clientVars, exitSent>>

-----------------------------------------------------------------------------
(* The client of a session *)

Close(s) ==
  /\ s \in closing
  /\ closing' = closing \ {s}
  /\ clientDone' = clientDone \cup {s}
  /\ killed' = killed \cup {s}
  /\ UNCHANGED <<startVars, tableVars, closed, cancelled, watch, process,
                 reader, exitSent>>

(* The sink of NewClient: isCurrent under the read lock, then the          *)
(* supervisor's sink outside it.                                           *)
EventArrives(s) ==
  /\ reader[s] = "reading" /\ isCurrent(s)
  /\ reader' = [reader EXCEPT ![s] = "relaying"]
  /\ UNCHANGED <<startVars, tableVars, closed, cancelled, closing, watch,
                 process, killed, clientDone, exitSent>>

EventSinks(s) ==
  /\ reader[s] = "relaying"
  /\ reader' = [reader EXCEPT ![s] = "reading"]
  /\ UNCHANGED <<startVars, tableVars, closed, cancelled, closing, watch,
                 process, killed, clientDone, exitSent>>

(* The stream ends, or cannot be framed: then the reader closes the client *)
(* itself and kills the process.                                           *)
ReaderEnds(s) ==
  /\ reader[s] = "reading"
  /\ reader' = [reader EXCEPT ![s] = "ended"]
  /\ \/ process[s] = "exited" /\ UNCHANGED <<clientDone, killed>>
     \/ /\ clientDone' = clientDone \cup {s}
        /\ killed' = killed \cup {s}
  /\ UNCHANGED <<startVars, tableVars, closed, cancelled, closing, watch,
                 process, exitSent>>

WaitEnds(s) ==
  /\ process[s] = "exited" /\ reader[s] = "ended" /\ s \notin clientDone
  /\ clientDone' = clientDone \cup {s}
  /\ UNCHANGED <<startVars, tableVars, closed, cancelled, closing, watch,
                 process, killed, reader, exitSent>>

ProcessExits(s) ==
  /\ process[s] = "running"
  /\ process' = [process EXCEPT ![s] = "exited"]
  /\ UNCHANGED <<startVars, tableVars, closed, cancelled, closing, watch,
                 killed, reader, clientDone, exitSent>>

-----------------------------------------------------------------------------
(* watch *)

WatchDone(s) ==
  LET t == thread[s] IN
  /\ watch[s] = "waiting" /\ s \in clientDone
  /\ IF sessions[t] # s
       THEN watch' = [watch EXCEPT ![s] = "ended"] /\ UNCHANGED <<sessions, exiting>>
       ELSE /\ sessions' = [sessions EXCEPT ![t] = None]
            /\ exiting' = exiting \cup {t}
            /\ watch' = [watch EXCEPT ![s] = "exiting"]
  /\ UNCHANGED <<startVars, starting, closed, cancelled, closing, clientVars, exitSent>>

WatchSinks(s) ==
  /\ watch[s] = "exiting"
  /\ exitSent' = exitSent \cup {s}
  /\ watch' = [watch EXCEPT ![s] = "sent"]
  /\ UNCHANGED <<startVars, tableVars, closed, cancelled, closing, clientVars>>

(* Mutant: the deferred delete of `exiting` is missing.                    *)
WatchEndsExiting(s) ==
  /\ watch[s] = "sent"
  /\ watch' = [watch EXCEPT ![s] = "ended"]
  /\ UNCHANGED <<startVars, tableVars, closed, cancelled, closing,
                 clientVars, exitSent>>

WatchEnds(s) ==
  /\ watch[s] = "sent"
  /\ exiting' = exiting \ {thread[s]}
  /\ watch' = [watch EXCEPT ![s] = "ended"]
  /\ UNCHANGED <<startVars, sessions, starting, closed, cancelled, closing,
                 clientVars, exitSent>>

-----------------------------------------------------------------------------
Starter(s) ==
  \/ Launch(s) \/ Number(s) \/ Register(s) \/ Unreserve(s) \/ Ready(s) \/ NotReady(s)

Client(s) == EventSinks(s) \/ WaitEnds(s) \/ Close(s)

Watcher(s) == WatchDone(s) \/ WatchSinks(s) \/ WatchEnds(s)

Next ==
  \/ \E s \in Starts :
       \/ Reserve(s) \/ Starter(s)
       \/ EventArrives(s) \/ ReaderEnds(s) \/ ProcessExits(s)
       \/ Client(s) \/ Watcher(s)
  \/ \E t \in Threads : Stop(t)
  \/ StopAll \/ ShutdownCancel \/ ShutdownClose

Spec == Init /\ [][Next]_vars

(* Goroutines run; a killed process exits; the stream of a process that    *)
(* exited ends.  Nothing forces a user to start, stop or shut down, or Pi  *)
(* to exit; Shutdown, once begun, goes on.                                 *)
Fairness ==
  /\ \A s \in Starts :
       /\ WF_vars(Starter(s)) /\ WF_vars(Watcher(s)) /\ WF_vars(Close(s))
       /\ WF_vars(EventSinks(s)) /\ WF_vars(WaitEnds(s))
       /\ WF_vars(s \in killed /\ ProcessExits(s))
       /\ SF_vars(process[s] = "exited" /\ ReaderEnds(s))
  /\ WF_vars(ShutdownClose)

FairSpec == Spec /\ Fairness

-----------------------------------------------------------------------------
(* Properties *)

StartLocations == {"idle", "launching", "launched", "numbered", "unreserve",
                   "calling", "started", "error"}

(* Every variable keeps its type.                                          *)
TypeOK ==
  /\ loc \in [Starts -> StartLocations]
  /\ thread \in [Starts -> Threads]
  /\ generation \in [Starts -> Nat] /\ nextGeneration \in Nat
  /\ sessions \in [Threads -> Starts \cup {None}]
  /\ starting \subseteq Threads /\ exiting \subseteq Threads
  /\ closed \in BOOLEAN /\ cancelled \in BOOLEAN
  /\ closing \subseteq Starts /\ killed \subseteq Starts
  /\ clientDone \subseteq Starts /\ exitSent \subseteq Starts
  /\ watch \in [Starts -> {"none", "waiting", "exiting", "sent", "ended"}]
  /\ process \in [Starts -> {"none", "running", "exited"}]
  /\ reader \in [Starts -> {"none", "reading", "relaying", "ended"}]

(* A thread is starting, running, exiting or none of them, never two: the  *)
(* three maps are disjoint, so the "already running" branch at             *)
(* supervisor.go:127 is never taken and ActiveCount counts threads.        *)
ThreadInOnePlace ==
  \A t \in Threads :
    /\ t \in starting => sessions[t] = None /\ t \notin exiting
    /\ t \in exiting => sessions[t] = None

(* Two Starts of one thread are never both between their reservation and   *)
(* their registration: only one process per thread is launched at a time.  *)
Launching(s) == loc[s] \in {"launching", "launched", "numbered"}

OneLaunchPerThread ==
  \A s1, s2 \in Starts :
    Launching(s1) /\ Launching(s2) /\ thread[s1] = thread[s2] => s1 = s2

(* Equality of generations identifies the session of a thread              *)
(* (the claim of the comment at supervisor.go:297-299).                    *)
GenerationIdentifiesSession ==
  \A s \in Starts :
    generation[s] # 0 /\ isCurrent(s) => sessions[thread[s]] = s

(* runtime_exit is the last event of its generation: the reader has ended  *)
(* when watch reports a natural exit, because every path that closes a     *)
(* client early takes the session out of the table first.                  *)
ExitIsLast == \A s \in Starts : watch[s] \in {"exiting", "sent"} => reader[s] = "ended"

(* The exit of a session is reported before the thread can start again:    *)
(* while runtime_exit is on its way the thread is neither running nor      *)
(* starting (supervisor.go:254-281).                                       *)
ExitBeforeRestart ==
  [][\A s \in exitSent' \ exitSent :
       sessions[thread[s]] = None /\ thread[s] \notin starting]_vars

(* Sessions of one thread are registered in the order of their generations,*)
(* which is what lets an observer drop what is older than what it has seen.*)
GenerationGrowsPerThread ==
  [][\A t \in Threads :
       LET new == sessions'[t] IN
       new # None /\ new # sessions[t] =>
         \A s \in Starts :
           thread[s] = t /\ watch[s] # "none" => generation[s] < generation[new]]_vars

(* Shutdown leaves no process behind, not even one whose Start was already *)
(* under way (supervisor.go:122-126, :240-252).                            *)
ShutdownKillsEverything ==
  closed ~> [](\A s \in Starts : process[s] # "running")

(* A thread becomes free again: no Start leaves it in `starting` or in     *)
(* `exiting` for ever, and a session whose process has exited leaves.      *)
ThreadsAreReleased ==
  /\ \A t \in Threads :
       (t \in starting \cup exiting) ~> (t \notin starting \cup exiting)
  /\ \A s \in Starts :
       (process[s] = "exited" /\ sessions[thread[s]] = s) ~> (sessions[thread[s]] # s)

(* What supervisor.go:209-211 uses ActiveCount for: when it is zero, and   *)
(* the application is not shutting down, no Pi process uses the shared     *)
(* files.                                                                  *)
IdleMeansNoProcess ==
  ~cancelled /\ ActiveCount = 0 => \A s \in Starts : process[s] # "running"

=============================================================================
