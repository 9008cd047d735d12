------------------------- MODULE PiSupervisorProofs -------------------------
(***************************************************************************)
(* Proofs about the sessions of Pi, on the host and in the store.          *)
(*                                                                         *)
(* PiSupervisor.  The invariants the runs check are not inductive: they    *)
(* rest on who owns a reservation, on the position of a session's watch    *)
(* goroutine, and on the rule that a session leaves the table before its   *)
(* client is closed.  IInv adds these facts.                               *)
(*                                                                         *)
(* PromptQueue.  A prompt is safe because it is in one place at a time:    *)
(* PromptInv says where each one is, and every step of the store moves it  *)
(* to the next place or leaves it.                                         *)
(***************************************************************************)
EXTENDS PiSupervisor, PromptQueue, SequenceTheorems, TLAPS

-----------------------------------------------------------------------------
(* The sessions on the host                                                *)

(* s is the Start to which the entry of its thread in `starting` belongs.  *)
Holds(s) == Launching(s) \/ (loc[s] = "unreserve" /\ generation[s] = 0)

(* A reservation has one owner; a Start that was refused at registration   *)
(* deletes the entry a second time, which is harmless because it was       *)
(* refused for a closed supervisor, where nobody reserves any more.        *)
Reservations ==
  /\ \A s \in Starts : Holds(s) => thread[s] \in starting
  /\ \A s1, s2 \in Starts : Holds(s1) /\ Holds(s2) /\ thread[s1] = thread[s2] => s1 = s2
  /\ \A s1, s2 \in Starts :
       loc[s1] = "unreserve" /\ generation[s1] # 0 /\ thread[s1] = thread[s2]
         => closed /\ ~Holds(s2)

(* A generation is drawn once, after launching, and never again.           *)
Generations ==
  /\ \A s \in Starts : generation[s] <= nextGeneration
  /\ \A s1, s2 \in Starts : generation[s1] = generation[s2] /\ generation[s1] # 0 => s1 = s2
  /\ \A s \in Starts : loc[s] \in {"idle", "launching", "launched"} => generation[s] = 0
  /\ \A s \in Starts : loc[s] \in {"numbered", "calling"} => generation[s] # 0

(* A registered session is watched, numbered, and not being closed.        *)
Registered ==
  \A t \in Threads : sessions[t] # None =>
    /\ thread[sessions[t]] = t
    /\ watch[sessions[t]] = "waiting"
    /\ generation[sessions[t]] # 0
    /\ sessions[t] \notin closing

(* The watch goroutine starts with the registration.                       *)
Watched ==
  \A s \in Starts :
    loc[s] \in {"idle", "launching", "launched", "numbered"} => watch[s] = "none"

(* An exit on its way owns the entry of its thread in `exiting`.           *)
Exits ==
  /\ \A s \in Starts : watch[s] \in {"exiting", "sent"} => thread[s] \in exiting
  /\ \A s1, s2 \in Starts :
       /\ watch[s1] \in {"exiting", "sent"} /\ watch[s2] \in {"exiting", "sent"}
       /\ thread[s1] = thread[s2]
       => s1 = s2

(* A client exists once its session is numbered, and is not closed before  *)
(* the Start that made it has registered it or given it up.                *)
Numbered ==
  /\ \A s \in Starts : s \in clientDone \cup closing => generation[s] # 0
  /\ \A s \in Starts : reader[s] # "none" => generation[s] # 0
  /\ \A s \in Starts : loc[s] = "numbered" => s \notin closing

(* A client that is done though nobody called Close has no reader left.    *)
DoneClients ==
  \A s \in Starts :
    s \in clientDone /\ (loc[s] = "numbered" \/ sessions[thread[s]] = s)
      => reader[s] = "ended"

(* A session about to be registered is newer than all its thread had.      *)
Ordered ==
  \A s1, s2 \in Starts :
    loc[s1] = "numbered" /\ watch[s2] # "none" /\ thread[s1] = thread[s2]
      => generation[s2] < generation[s1]

IInv ==
  /\ TypeOK /\ ThreadInOnePlace
  /\ Reservations /\ Generations /\ Registered /\ Watched /\ Exits /\ Numbered
  /\ Ordered /\ DoneClients /\ ExitIsLast
-----------------------------------------------------------------------------
(* The type invariant, step by step                                        *)

(* The initial state is well typed.                                        *)
LEMMA TypeInit == Init => TypeOK
<1> SUFFICES ASSUME Init PROVE TypeOK
  OBVIOUS
<1>1. loc \in [Starts -> StartLocations] /\ thread \in [Starts -> Threads]
  BY DEF Init, StartLocations
<1>2. generation \in [Starts -> Nat] /\ nextGeneration \in Nat
  BY DEF Init
<1>3. sessions \in [Threads -> Starts \cup {None}]
  BY DEF Init
<1>4. /\ starting \subseteq Threads /\ exiting \subseteq Threads
      /\ closed \in BOOLEAN /\ cancelled \in BOOLEAN
      /\ closing \subseteq Starts /\ killed \subseteq Starts
      /\ clientDone \subseteq Starts /\ exitSent \subseteq Starts
  BY DEF Init
<1>5. /\ watch \in [Starts -> {"none", "waiting", "exiting", "sent", "ended"}]
      /\ process \in [Starts -> {"none", "running", "exited"}]
      /\ reader \in [Starts -> {"none", "reading", "relaying", "ended"}]
  BY DEF Init
<1> QED
  BY <1>1, <1>2, <1>3, <1>4, <1>5 DEF TypeOK

(* Every step, and a stutter, keeps the types.                             *)
LEMMA TypeStep == TypeOK /\ [Next]_vars => TypeOK'
<1> SUFFICES ASSUME TypeOK, [Next]_vars PROVE TypeOK'
  OBVIOUS
<1> USE DEF TypeOK, StartLocations, startVars, tableVars, clientVars, Goto
<1>1. ASSUME NEW s \in Starts, Reserve(s) PROVE TypeOK'
  BY <1>1 DEF Reserve
<1>2. ASSUME NEW s \in Starts, Starter(s) PROVE TypeOK'
  <2>1. CASE Launch(s)
    BY <2>1 DEF Launch
  <2>2. CASE Number(s)
    BY <2>2 DEF Number
  <2>3. CASE Register(s)
    BY <2>3 DEF Register
  <2>4. CASE Unreserve(s)
    BY <2>4 DEF Unreserve
  <2>5. CASE Ready(s)
    BY <2>5 DEF Ready
  <2>6. CASE NotReady(s)
    BY <2>6 DEF NotReady
  <2> QED
    BY <1>2, <2>1, <2>2, <2>3, <2>4, <2>5, <2>6 DEF Starter
<1>3. ASSUME NEW s \in Starts, EventArrives(s) \/ ReaderEnds(s) \/ ProcessExits(s)
      PROVE  TypeOK'
  BY <1>3 DEF EventArrives, ReaderEnds, ProcessExits
<1>4. ASSUME NEW s \in Starts, Client(s) PROVE TypeOK'
  BY <1>4 DEF Client, EventSinks, WaitEnds, Close
<1>5. ASSUME NEW s \in Starts, Watcher(s) PROVE TypeOK'
  <2>1. CASE WatchDone(s)
    BY <2>1 DEF WatchDone
  <2>2. CASE WatchSinks(s) \/ WatchEnds(s)
    BY <2>2 DEF WatchSinks, WatchEnds
  <2> QED
    BY <1>5, <2>1, <2>2 DEF Watcher
<1>6. ASSUME NEW t \in Threads, Stop(t) PROVE TypeOK'
  BY <1>6 DEF Stop
<1>7. CASE StopAll \/ ShutdownClose
  <2>1. AllSessions \subseteq Starts
    BY DEF AllSessions
  <2> QED
    BY <1>7, <2>1 DEF StopAll, ShutdownClose
<1>8. CASE ShutdownCancel
  BY <1>8 DEF ShutdownCancel
<1>9. CASE UNCHANGED vars
  BY <1>9 DEF vars
<1> QED
  BY <1>1, <1>2, <1>3, <1>4, <1>5, <1>6, <1>7, <1>8, <1>9 DEF Next

(* Every variable keeps its type.                                          *)
THEOREM TypeCorrect == Spec => []TypeOK
<1> QED
  BY TypeInit, TypeStep, PTL DEF Spec

-----------------------------------------------------------------------------
(* The inductive invariant                                                 *)

(* What a session in the table is.                                         *)
LEMMA SessionInTable ==
  ASSUME TypeOK, Registered, NEW t \in Threads, sessions[t] # None
  PROVE  /\ sessions[t] \in Starts /\ thread[sessions[t]] = t
         /\ watch[sessions[t]] = "waiting" /\ sessions[t] \notin closing
BY DEF TypeOK, Registered

(* Taking sessions out of the table preserves DoneClients.                 *)
LEMMA FewerSessions ==
  ASSUME TypeOK, DoneClients, UNCHANGED <<thread, clientDone, reader>>,
         \A u \in Starts : loc'[u] = "numbered" => loc[u] = "numbered",
         \A t \in Threads : sessions'[t] \in {sessions[t], None}
  PROVE  DoneClients'
<1> SUFFICES ASSUME NEW u \in Starts, u \in clientDone,
                    loc'[u] = "numbered" \/ sessions'[thread[u]] = u
             PROVE  reader[u] = "ended"
  BY DEF DoneClients
<1>1. thread[u] \in Threads
  BY DEF TypeOK
<1>2. loc[u] = "numbered" \/ sessions[thread[u]] = u
  BY <1>1, NoneIsNoStart
<1> QED
  BY <1>2 DEF DoneClients

(* The inductive invariant holds initially: nothing has started.           *)
LEMMA InitIInv == Init => IInv
<1> SUFFICES ASSUME Init PROVE IInv
  OBVIOUS
<1> USE DEF Init
<1>1. TypeOK
  BY TypeInit
<1>2. ThreadInOnePlace
  BY DEF ThreadInOnePlace
<1>3. Reservations
  BY DEF Reservations, Holds, Launching
<1>4. Generations
  BY DEF Generations
<1>5. Registered /\ Watched /\ Exits /\ Numbered
  BY DEF Registered, Watched, Exits, Numbered
<1>6. Ordered /\ DoneClients /\ ExitIsLast
  BY DEF Ordered, DoneClients, ExitIsLast
<1> QED
  BY <1>1, <1>2, <1>3, <1>4, <1>5, <1>6 DEF IInv

(* The tables stay disjoint: a thread is reserved only when it is in none. *)
LEMMA ThreadInOnePlaceStep ==
  ASSUME IInv, TypeOK', [Next]_vars PROVE ThreadInOnePlace'
<1> USE DEF IInv, TypeOK, startVars, tableVars, clientVars, Goto
<1>1. ASSUME NEW s \in Starts, Reserve(s) PROVE ThreadInOnePlace'
  BY <1>1 DEF Reserve, Active, ThreadInOnePlace
<1>2. ASSUME NEW s \in Starts, Register(s) PROVE ThreadInOnePlace'
  BY <1>2 DEF Register, ThreadInOnePlace, Reservations, Holds, Launching
<1>3. ASSUME NEW s \in Starts, Unreserve(s) PROVE ThreadInOnePlace'
  BY <1>3 DEF Unreserve, ThreadInOnePlace
<1>4. ASSUME NEW s \in Starts, NotReady(s) PROVE ThreadInOnePlace'
  BY <1>4 DEF NotReady, ThreadInOnePlace
<1>5. ASSUME NEW s \in Starts, WatchDone(s) PROVE ThreadInOnePlace'
  <2>1. CASE sessions[thread[s]] # s
    BY <1>5, <2>1 DEF WatchDone, ThreadInOnePlace, Holds, Launching
  <2>2. CASE sessions[thread[s]] = s
    <3>1. thread[s] \in Threads /\ s # None
      BY NoneIsNoStart
    <3>2. thread[s] \notin starting /\ thread[s] \notin exiting
      BY <2>2, <3>1 DEF ThreadInOnePlace
    <3>3. /\ sessions' = [sessions EXCEPT ![thread[s]] = None]
          /\ exiting' = exiting \cup {thread[s]}
          /\ watch' = [watch EXCEPT ![s] = "exiting"]
          /\ UNCHANGED <<thread, starting>>
      BY <1>5, <2>2 DEF WatchDone
    <3> QED
      BY <3>1, <3>2, <3>3 DEF ThreadInOnePlace
  <2> QED
    BY <2>1, <2>2
<1>6. ASSUME NEW s \in Starts, WatchEnds(s) PROVE ThreadInOnePlace'
  BY <1>6 DEF WatchEnds, ThreadInOnePlace
<1>7. ASSUME NEW t \in Threads, Stop(t) PROVE ThreadInOnePlace'
  BY <1>7 DEF Stop, ThreadInOnePlace
<1>8. CASE StopAll
  BY <1>8 DEF StopAll, AllSessions, ThreadInOnePlace
<1>9. CASE ShutdownClose
  BY <1>9 DEF ShutdownClose, AllSessions, ThreadInOnePlace
<1>10. CASE UNCHANGED <<sessions, starting, exiting>>
  BY <1>10 DEF ThreadInOnePlace
<1> QED
  BY <1>1, <1>2, <1>3, <1>4, <1>5, <1>6, <1>7, <1>8, <1>9, <1>10
  DEF vars, Next, Starter, Client, Watcher, Launch, Number, Ready,
      EventArrives, EventSinks, ReaderEnds, WaitEnds, ProcessExits, Close,
      WatchSinks, ShutdownCancel

(* Only a Start whose thread is inactive becomes the holder of its thread. *)
LEMMA ReservationsStep ==
  ASSUME IInv, TypeOK', [Next]_vars PROVE Reservations'
<1> USE DEF IInv, TypeOK, startVars, tableVars, clientVars, Goto
<1>1. ASSUME NEW s \in Starts, Reserve(s) PROVE Reservations'
  BY <1>1 DEF Reserve, Active, Reservations, Holds, Launching
<1>2. ASSUME NEW s \in Starts, Launch(s) PROVE Reservations'
  BY <1>2 DEF Launch, Reservations, Generations, Holds, Launching
<1>3. ASSUME NEW s \in Starts, Number(s) PROVE Reservations'
  BY <1>3 DEF Number, Reservations, Holds, Launching
<1>4. ASSUME NEW s \in Starts, Register(s) PROVE Reservations'
  BY <1>4 DEF Register, Reservations, Generations, Holds, Launching,
     ThreadInOnePlace
<1>5. ASSUME NEW s \in Starts, Unreserve(s) PROVE Reservations'
  BY <1>5 DEF Unreserve, Reservations, Holds, Launching
<1>6. ASSUME NEW s \in Starts, Ready(s) PROVE Reservations'
  BY <1>6 DEF Ready, Reservations, Holds, Launching
<1>7. ASSUME NEW s \in Starts, NotReady(s) PROVE Reservations'
  BY <1>7 DEF NotReady, Reservations, Holds, Launching
<1>8. CASE ShutdownClose
  BY <1>8 DEF ShutdownClose, AllSessions, Reservations, Holds, Launching
<1>9. CASE UNCHANGED <<startVars, starting, closed>>
  BY <1>9 DEF Reservations, Holds, Launching
<1> QED
  BY <1>1, <1>2, <1>3, <1>4, <1>5, <1>6, <1>7, <1>8, <1>9
  DEF vars, Next, Starter, Client, Watcher, EventArrives, EventSinks,
      ReaderEnds, WaitEnds, ProcessExits, Close, WatchDone, WatchSinks,
      WatchEnds, Stop, StopAll, ShutdownCancel

(* A generation is drawn by incrementing, before the registration.         *)
LEMMA GenerationsStep ==
  ASSUME IInv, TypeOK', [Next]_vars PROVE Generations'
<1> USE DEF IInv, TypeOK, startVars, tableVars, clientVars, Goto
<1>1. ASSUME NEW s \in Starts, Reserve(s) PROVE Generations'
  BY <1>1 DEF Reserve, Active, Generations
<1>2. ASSUME NEW s \in Starts, Launch(s) PROVE Generations'
  BY <1>2 DEF Launch, Generations
<1>3. ASSUME NEW s \in Starts, Number(s) PROVE Generations'
  BY <1>3 DEF Number, Generations
<1>4. ASSUME NEW s \in Starts, Register(s) PROVE Generations'
  BY <1>4 DEF Register, Generations
<1>5. ASSUME NEW s \in Starts, Unreserve(s) PROVE Generations'
  BY <1>5 DEF Unreserve, Generations
<1>6. ASSUME NEW s \in Starts, Ready(s) PROVE Generations'
  BY <1>6 DEF Ready, Generations
<1>7. ASSUME NEW s \in Starts, NotReady(s) PROVE Generations'
  BY <1>7 DEF NotReady, Generations
<1>8. CASE UNCHANGED <<startVars>>
  BY <1>8 DEF Generations
<1> QED
  BY <1>1, <1>2, <1>3, <1>4, <1>5, <1>6, <1>7, <1>8
  DEF vars, Next, Starter, Client, Watcher, EventArrives, EventSinks,
      ReaderEnds, WaitEnds, ProcessExits, Close, WatchDone, WatchSinks,
      WatchEnds, Stop, StopAll, ShutdownCancel, ShutdownClose

(* A session leaves the table in the step that decides to close it.        *)
LEMMA RegisteredStep ==
  ASSUME IInv, TypeOK', [Next]_vars PROVE Registered'
<1> USE DEF IInv, TypeOK, startVars, tableVars, clientVars, Goto
<1>1. ASSUME NEW s \in Starts, Reserve(s) PROVE Registered'
  BY <1>1 DEF Reserve, Active, Registered
<1>2. ASSUME NEW s \in Starts, Launch(s) PROVE Registered'
  BY <1>2 DEF Launch, Registered
<1>3. ASSUME NEW s \in Starts, Number(s) PROVE Registered'
  BY <1>3 DEF Number, Registered
<1>4. ASSUME NEW s \in Starts, Register(s) PROVE Registered'
  BY <1>4 DEF Register, Registered, Watched, Generations, Numbered
<1>5. ASSUME NEW s \in Starts, Unreserve(s) PROVE Registered'
  BY <1>5 DEF Unreserve, Registered
<1>6. ASSUME NEW s \in Starts, Ready(s) PROVE Registered'
  BY <1>6 DEF Ready, Registered
<1>7. ASSUME NEW s \in Starts, NotReady(s) PROVE Registered'
  BY <1>7 DEF NotReady, Registered
<1>8. ASSUME NEW s \in Starts, Close(s) PROVE Registered'
  BY <1>8 DEF Close, Registered
<1>9. ASSUME NEW s \in Starts, WatchDone(s) PROVE Registered'
  BY <1>9 DEF WatchDone, Registered
<1>10. ASSUME NEW s \in Starts, WatchSinks(s) PROVE Registered'
  BY <1>10 DEF WatchSinks, Registered
<1>11. ASSUME NEW s \in Starts, WatchEnds(s) PROVE Registered'
  BY <1>11 DEF WatchEnds, Registered
<1>12. ASSUME NEW t \in Threads, Stop(t) PROVE Registered'
  BY <1>12 DEF Stop, Registered
<1>13. CASE StopAll
  BY <1>13 DEF StopAll, AllSessions, Registered
<1>14. CASE ShutdownClose
  BY <1>14 DEF ShutdownClose, AllSessions, Registered
<1>15. CASE UNCHANGED <<startVars, sessions, watch, closing>>
  BY <1>15 DEF Registered
<1> QED
  BY <1>1, <1>2, <1>3, <1>4, <1>5, <1>6, <1>7, <1>8, <1>9, <1>10, <1>11,
     <1>12, <1>13, <1>14, <1>15
  DEF vars, Next, Starter, Client, Watcher, EventArrives, EventSinks,
      ReaderEnds, WaitEnds, ProcessExits, ShutdownCancel

(* Only the registration starts the watch goroutine.                       *)
LEMMA WatchedStep ==
  ASSUME IInv, TypeOK', [Next]_vars PROVE Watched'
<1> USE DEF IInv, TypeOK, startVars, tableVars, clientVars, Goto
<1>1. ASSUME NEW s \in Starts, Reserve(s) PROVE Watched'
  BY <1>1 DEF Reserve, Active, Watched
<1>2. ASSUME NEW s \in Starts, Launch(s) PROVE Watched'
  BY <1>2 DEF Launch, Watched
<1>3. ASSUME NEW s \in Starts, Number(s) PROVE Watched'
  BY <1>3 DEF Number, Watched
<1>4. ASSUME NEW s \in Starts, Register(s) PROVE Watched'
  BY <1>4 DEF Register, Watched
<1>5. ASSUME NEW s \in Starts, Unreserve(s) PROVE Watched'
  BY <1>5 DEF Unreserve, Watched
<1>6. ASSUME NEW s \in Starts, Ready(s) PROVE Watched'
  BY <1>6 DEF Ready, Watched
<1>7. ASSUME NEW s \in Starts, NotReady(s) PROVE Watched'
  BY <1>7 DEF NotReady, Watched
<1>8. ASSUME NEW s \in Starts, WatchDone(s) PROVE Watched'
  BY <1>8 DEF WatchDone, Watched
<1>9. ASSUME NEW s \in Starts, WatchSinks(s) PROVE Watched'
  BY <1>9 DEF WatchSinks, Watched
<1>10. ASSUME NEW s \in Starts, WatchEnds(s) PROVE Watched'
  BY <1>10 DEF WatchEnds, Watched
<1>11. CASE UNCHANGED <<startVars, watch>>
  BY <1>11 DEF Watched
<1> QED
  BY <1>1, <1>2, <1>3, <1>4, <1>5, <1>6, <1>7, <1>8, <1>9, <1>10, <1>11
  DEF vars, Next, Starter, Client, Watcher, EventArrives, EventSinks,
      ReaderEnds, WaitEnds, ProcessExits, Close, Stop, StopAll,
      ShutdownCancel, ShutdownClose

(* Only the watch of the session in the table enters its exit.             *)
LEMMA ExitsStep ==
  ASSUME IInv, TypeOK', [Next]_vars PROVE Exits'
<1> USE DEF IInv, TypeOK, startVars, tableVars, clientVars, Goto
<1>1. ASSUME NEW s \in Starts, Register(s) PROVE Exits'
  BY <1>1 DEF Register, Exits
<1>2. ASSUME NEW s \in Starts, WatchDone(s) PROVE Exits'
  <2>1. CASE sessions[thread[s]] # s
    BY <1>2, <2>1 DEF WatchDone, Exits, Holds, Launching
  <2>2. CASE sessions[thread[s]] = s
    <3>1. thread[s] \in Threads /\ s # None
      BY NoneIsNoStart
    <3>2. thread[s] \notin starting /\ thread[s] \notin exiting
      BY <2>2, <3>1 DEF ThreadInOnePlace
    <3>3. /\ sessions' = [sessions EXCEPT ![thread[s]] = None]
          /\ exiting' = exiting \cup {thread[s]}
          /\ watch' = [watch EXCEPT ![s] = "exiting"]
          /\ UNCHANGED <<thread, starting>>
      BY <1>2, <2>2 DEF WatchDone
    <3> QED
      BY <3>1, <3>2, <3>3 DEF Exits
  <2> QED
    BY <2>1, <2>2
<1>3. ASSUME NEW s \in Starts, WatchSinks(s) PROVE Exits'
  BY <1>3 DEF WatchSinks, Exits
<1>4. ASSUME NEW s \in Starts, WatchEnds(s) PROVE Exits'
  BY <1>4 DEF WatchEnds, Exits
<1>5. CASE UNCHANGED <<thread, watch, exiting>>
  BY <1>5 DEF Exits
<1> QED
  BY <1>1, <1>2, <1>3, <1>4, <1>5
  DEF vars, Next, Starter, Client, Watcher, Reserve, Launch, Number,
      Unreserve, Ready, NotReady, EventArrives, EventSinks, ReaderEnds,
      WaitEnds, ProcessExits, Close, Stop, StopAll, ShutdownCancel,
      ShutdownClose

(* Nothing is closed or read before it has a generation.                   *)
LEMMA NumberedStep ==
  ASSUME IInv, TypeOK', [Next]_vars PROVE Numbered'
<1> USE DEF IInv, TypeOK, startVars, tableVars, clientVars, Goto
<1>1. ASSUME NEW s \in Starts, Reserve(s) PROVE Numbered'
  BY <1>1 DEF Reserve, Active, Numbered
<1>2. ASSUME NEW s \in Starts, Launch(s) PROVE Numbered'
  BY <1>2 DEF Launch, Numbered
<1>3. ASSUME NEW s \in Starts, Number(s) PROVE Numbered'
  BY <1>3 DEF Number, Numbered, Generations
<1>4. ASSUME NEW s \in Starts, Register(s) PROVE Numbered'
  BY <1>4 DEF Register, Numbered, Generations
<1>5. ASSUME NEW s \in Starts, Unreserve(s) PROVE Numbered'
  BY <1>5 DEF Unreserve, Numbered
<1>6. ASSUME NEW s \in Starts, Ready(s) PROVE Numbered'
  BY <1>6 DEF Ready, Numbered
<1>7. ASSUME NEW s \in Starts, NotReady(s) PROVE Numbered'
  BY <1>7 DEF NotReady, Numbered, Generations
<1>8. ASSUME NEW s \in Starts, EventArrives(s) PROVE Numbered'
  BY <1>8 DEF EventArrives, Numbered
<1>9. ASSUME NEW s \in Starts, EventSinks(s) PROVE Numbered'
  BY <1>9 DEF EventSinks, Numbered
<1>10. ASSUME NEW s \in Starts, ReaderEnds(s) PROVE Numbered'
  BY <1>10 DEF ReaderEnds, Numbered
<1>11. ASSUME NEW s \in Starts, WaitEnds(s) PROVE Numbered'
  BY <1>11 DEF WaitEnds, Numbered
<1>12. ASSUME NEW s \in Starts, Close(s) PROVE Numbered'
  BY <1>12 DEF Close, Numbered
<1>13. ASSUME NEW t \in Threads, Stop(t) PROVE Numbered'
  BY <1>13 DEF Stop, Numbered, Registered, Watched
<1>14. CASE StopAll
  BY <1>14 DEF StopAll, AllSessions, Numbered, Registered, Watched
<1>15. CASE ShutdownClose
  BY <1>15 DEF ShutdownClose, AllSessions, Numbered, Registered, Watched
<1>16. CASE UNCHANGED <<startVars, closing, clientDone, reader>>
  BY <1>16 DEF Numbered
<1> QED
  BY <1>1, <1>2, <1>3, <1>4, <1>5, <1>6, <1>7, <1>8, <1>9, <1>10, <1>11,
     <1>12, <1>13, <1>14, <1>15, <1>16
  DEF vars, Next, Starter, Client, Watcher, ProcessExits, WatchDone,
      WatchSinks, WatchEnds, ShutdownCancel

(* A new generation exceeds all that were drawn.                           *)
LEMMA OrderedStep ==
  ASSUME IInv, TypeOK', [Next]_vars PROVE Ordered'
<1> USE DEF IInv, TypeOK, startVars, tableVars, clientVars, Goto
<1>1. ASSUME NEW s \in Starts, Reserve(s) PROVE Ordered'
  BY <1>1 DEF Reserve, Active, Ordered
<1>2. ASSUME NEW s \in Starts, Launch(s) PROVE Ordered'
  BY <1>2 DEF Launch, Ordered
<1>3. ASSUME NEW s \in Starts, Number(s) PROVE Ordered'
  BY <1>3 DEF Number, Ordered, Generations, Watched
<1>4. ASSUME NEW s \in Starts, Register(s) PROVE Ordered'
  BY <1>4 DEF Register, Ordered, Reservations, Holds, Launching
<1>5. ASSUME NEW s \in Starts, Unreserve(s) PROVE Ordered'
  BY <1>5 DEF Unreserve, Ordered
<1>6. ASSUME NEW s \in Starts, Ready(s) PROVE Ordered'
  BY <1>6 DEF Ready, Ordered
<1>7. ASSUME NEW s \in Starts, NotReady(s) PROVE Ordered'
  BY <1>7 DEF NotReady, Ordered
<1>8. ASSUME NEW s \in Starts, WatchDone(s) PROVE Ordered'
  BY <1>8 DEF WatchDone, Ordered
<1>9. ASSUME NEW s \in Starts, WatchSinks(s) PROVE Ordered'
  BY <1>9 DEF WatchSinks, Ordered
<1>10. ASSUME NEW s \in Starts, WatchEnds(s) PROVE Ordered'
  BY <1>10 DEF WatchEnds, Ordered
<1>11. CASE UNCHANGED <<startVars, watch>>
  BY <1>11 DEF Ordered
<1> QED
  BY <1>1, <1>2, <1>3, <1>4, <1>5, <1>6, <1>7, <1>8, <1>9, <1>10, <1>11
  DEF vars, Next, Starter, Client, Watcher, EventArrives, EventSinks,
      ReaderEnds, WaitEnds, ProcessExits, Close, Stop, StopAll,
      ShutdownCancel, ShutdownClose

(* While a session is in the table only its reader can close its client.   *)
LEMMA DoneClientsStep ==
  ASSUME IInv, TypeOK', [Next]_vars PROVE DoneClients'
<1> USE DEF IInv, TypeOK, startVars, tableVars, clientVars, Goto
<1>1. ASSUME NEW s \in Starts, Reserve(s) PROVE DoneClients'
  BY <1>1 DEF Reserve, Active, DoneClients
<1>2. ASSUME NEW s \in Starts, Launch(s) PROVE DoneClients'
  BY <1>2 DEF Launch, DoneClients
<1>3. ASSUME NEW s \in Starts, Number(s) PROVE DoneClients'
  BY <1>3 DEF Number, DoneClients, Numbered, Generations
<1>4. ASSUME NEW s \in Starts, Register(s) PROVE DoneClients'
  BY <1>4 DEF Register, DoneClients
<1>5. ASSUME NEW s \in Starts, Unreserve(s) PROVE DoneClients'
  BY <1>5 DEF Unreserve, DoneClients
<1>6. ASSUME NEW s \in Starts, Ready(s) PROVE DoneClients'
  BY <1>6 DEF Ready, DoneClients
<1>7. ASSUME NEW s \in Starts, NotReady(s) PROVE DoneClients'
  <2>1. \A t \in Threads : sessions'[t] \in {sessions[t], None}
    BY <1>7 DEF NotReady
  <2> QED
    BY <1>7, <2>1, FewerSessions DEF NotReady
<1>8. ASSUME NEW s \in Starts, EventArrives(s) PROVE DoneClients'
  BY <1>8 DEF EventArrives, DoneClients
<1>9. ASSUME NEW s \in Starts, EventSinks(s) PROVE DoneClients'
  BY <1>9 DEF EventSinks, DoneClients
<1>10. ASSUME NEW s \in Starts, ReaderEnds(s) PROVE DoneClients'
  BY <1>10 DEF ReaderEnds, DoneClients
<1>11. ASSUME NEW s \in Starts, WaitEnds(s) PROVE DoneClients'
  BY <1>11 DEF WaitEnds, DoneClients
<1>12. ASSUME NEW s \in Starts, Close(s) PROVE DoneClients'
  <2>1. loc[s] # "numbered" /\ sessions[thread[s]] # s
    <3>1. thread[s] \in Threads /\ s # None /\ s \in closing
      BY <1>12, NoneIsNoStart DEF Close
    <3> QED
      BY <3>1 DEF Registered, Numbered
  <2> QED
    BY <1>12, <2>1 DEF Close, DoneClients
<1>13. ASSUME NEW s \in Starts, WatchDone(s) PROVE DoneClients'
  <2>1. \A t \in Threads : sessions'[t] \in {sessions[t], None}
    BY <1>13 DEF WatchDone
  <2>2. UNCHANGED <<loc, thread, clientDone, reader>>
    BY <1>13 DEF WatchDone
  <2> QED
    BY <2>1, <2>2, FewerSessions
<1>14. ASSUME NEW t \in Threads, Stop(t) PROVE DoneClients'
  <2>1. \A u \in Threads : sessions'[u] \in {sessions[u], None}
    BY <1>14 DEF Stop
  <2> QED
    BY <1>14, <2>1, FewerSessions DEF Stop
<1>15. CASE StopAll
  <2>1. \A t \in Threads : sessions'[t] \in {sessions[t], None}
    BY <1>15 DEF StopAll
  <2> QED
    BY <1>15, <2>1, FewerSessions DEF StopAll
<1>16. CASE ShutdownClose
  <2>1. \A t \in Threads : sessions'[t] \in {sessions[t], None}
    BY <1>16 DEF ShutdownClose
  <2> QED
    BY <1>16, <2>1, FewerSessions DEF ShutdownClose
<1>17. CASE UNCHANGED <<startVars, sessions, clientDone, reader>>
  BY <1>17 DEF DoneClients
<1> QED
  BY <1>1, <1>2, <1>3, <1>4, <1>5, <1>6, <1>7, <1>8, <1>9, <1>10, <1>11,
     <1>12, <1>13, <1>14, <1>15, <1>16, <1>17
  DEF vars, Next, Starter, Client, Watcher, ProcessExits, WatchSinks,
      WatchEnds, ShutdownCancel

(* watch enters the exit of a client that is done and in the table.        *)
LEMMA ExitIsLastStep ==
  ASSUME IInv, TypeOK', [Next]_vars PROVE ExitIsLast'
<1> USE DEF IInv, TypeOK, startVars, tableVars, clientVars, Goto
<1>1. ASSUME NEW s \in Starts, Number(s) PROVE ExitIsLast'
  BY <1>1 DEF Number, ExitIsLast, Watched
<1>2. ASSUME NEW s \in Starts, Register(s) PROVE ExitIsLast'
  BY <1>2 DEF Register, ExitIsLast
<1>3. ASSUME NEW s \in Starts, EventArrives(s) PROVE ExitIsLast'
  BY <1>3 DEF EventArrives, ExitIsLast
<1>4. ASSUME NEW s \in Starts, EventSinks(s) PROVE ExitIsLast'
  BY <1>4 DEF EventSinks, ExitIsLast
<1>5. ASSUME NEW s \in Starts, ReaderEnds(s) PROVE ExitIsLast'
  BY <1>5 DEF ReaderEnds, ExitIsLast
<1>6. ASSUME NEW s \in Starts, WatchDone(s) PROVE ExitIsLast'
  BY <1>6 DEF WatchDone, ExitIsLast, DoneClients
<1>7. ASSUME NEW s \in Starts, WatchSinks(s) PROVE ExitIsLast'
  BY <1>7 DEF WatchSinks, ExitIsLast
<1>8. ASSUME NEW s \in Starts, WatchEnds(s) PROVE ExitIsLast'
  BY <1>8 DEF WatchEnds, ExitIsLast
<1>9. CASE UNCHANGED <<watch, reader>>
  BY <1>9 DEF ExitIsLast
<1> QED
  BY <1>1, <1>2, <1>3, <1>4, <1>5, <1>6, <1>7, <1>8, <1>9
  DEF vars, Next, Starter, Client, Watcher, Reserve, Launch, Unreserve, Ready,
      NotReady, WaitEnds, ProcessExits, Close, Stop, StopAll, ShutdownCancel,
      ShutdownClose

(* Every step preserves the inductive invariant, conjunct by conjunct.     *)
LEMMA StepIInv == IInv /\ [Next]_vars => IInv'
<1> SUFFICES ASSUME IInv, [Next]_vars PROVE IInv'
  OBVIOUS
<1>1. TypeOK'
  BY TypeStep DEF IInv
<1> QED
  BY <1>1, ThreadInOnePlaceStep, ReservationsStep, GenerationsStep,
     RegisteredStep, WatchedStep, ExitsStep, NumberedStep, OrderedStep,
     DoneClientsStep, ExitIsLastStep DEF IInv

(* The strengthened invariant holds in every reachable state.              *)
LEMMA Inductive == Spec => []IInv
<1> QED
  BY InitIInv, StepIInv, PTL DEF Spec

-----------------------------------------------------------------------------
(* The theorems                                                            *)

(* Whatever the threads and the interleaving of Starts, Stops, exits and   *)
(* Shutdown, no thread is in two of the supervisor's tables at once.       *)
THEOREM ThreadIsInOnePlace == Spec => []ThreadInOnePlace
<1>1. IInv => ThreadInOnePlace
  BY DEF IInv
<1> QED
  BY <1>1, Inductive, PTL

(* Only one process per thread is being launched at a time.                *)
THEOREM LaunchesAreExclusive == Spec => []OneLaunchPerThread
<1>1. IInv => OneLaunchPerThread
  BY DEF IInv, Reservations, OneLaunchPerThread, Holds
<1> QED
  BY <1>1, Inductive, PTL

(* isCurrent may compare generations instead of sessions.                  *)
THEOREM GenerationIsIdentity == Spec => []GenerationIdentifiesSession
<1>1. ASSUME IInv PROVE GenerationIdentifiesSession
  <2> SUFFICES ASSUME NEW s \in Starts, generation[s] # 0, isCurrent(s)
               PROVE  sessions[thread[s]] = s
    BY DEF GenerationIdentifiesSession
  <2>1. thread[s] \in Threads /\ sessions[thread[s]] \in Starts
    BY <1>1 DEF IInv, TypeOK, isCurrent
  <2>2. generation[sessions[thread[s]]] = generation[s]
    BY DEF isCurrent
  <2> QED
    BY <1>1, <2>1, <2>2 DEF IInv, Generations
<1> QED
  BY <1>1, Inductive, PTL

(* The reader of a session has ended when watch reports its exit: no event *)
(* of a generation follows its runtime_exit.                               *)
THEOREM ExitIsTheLastEvent == Spec => []ExitIsLast
<1>1. IInv => ExitIsLast
  BY DEF IInv
<1> QED
  BY <1>1, Inductive, PTL

(* While runtime_exit is delivered its thread is neither running nor being *)
(* started again.                                                          *)
THEOREM ExitPrecedesRestart == Spec => ExitBeforeRestart
<1>1. ASSUME IInv, [Next]_vars, NEW s \in exitSent' \ exitSent
      PROVE  sessions[thread[s]] = None /\ thread[s] \notin starting
  <2>1. s \in Starts /\ watch[s] = "exiting"
    BY <1>1 DEF IInv, TypeOK, Next, vars, startVars, tableVars, clientVars,
       Starter, Client, Watcher, Reserve, Launch, Number, Register, Unreserve,
       Ready, NotReady, Stop, StopAll, ShutdownCancel, ShutdownClose, Close,
       EventArrives, EventSinks, ReaderEnds, WaitEnds, ProcessExits, WatchDone,
       WatchSinks, WatchEnds
  <2>2. thread[s] \in Threads /\ thread[s] \in exiting
    BY <1>1, <2>1 DEF IInv, TypeOK, Exits
  <2> QED
    BY <1>1, <2>2 DEF IInv, ThreadInOnePlace
<1>2. IInv /\ [Next]_vars =>
        [\A s \in exitSent' \ exitSent :
           sessions[thread[s]] = None /\ thread[s] \notin starting]_vars
  BY <1>1
<1> QED
  BY <1>2, Inductive, PTL DEF ExitBeforeRestart, Spec

(* Sessions of one thread are registered in the order of their generations.*)
THEOREM GenerationsGrow == Spec => GenerationGrowsPerThread
<1>1. ASSUME IInv, [Next]_vars, NEW t \in Threads,
             sessions'[t] # None, sessions'[t] # sessions[t],
             NEW s \in Starts, thread[s] = t, watch[s] # "none"
      PROVE  generation[s] < generation[sessions'[t]]
  <2>1. PICK r \in Starts : Register(r) /\ sessions'[t] = r
    BY <1>1 DEF IInv, TypeOK, Next, vars, startVars, tableVars, clientVars,
       Starter, Client, Watcher, Reserve, Launch, Number, Register, Unreserve,
       Ready, NotReady, Stop, StopAll, ShutdownCancel, ShutdownClose, Close,
       EventArrives, EventSinks, ReaderEnds, WaitEnds, ProcessExits, WatchDone,
       WatchSinks, WatchEnds
  <2>2. loc[r] = "numbered" /\ thread[r] = t
    BY <1>1, <2>1 DEF Register, IInv, TypeOK
  <2> QED
    BY <1>1, <2>1, <2>2 DEF IInv, Ordered
<1>2. IInv /\ [Next]_vars =>
        [\A t \in Threads :
           LET new == sessions'[t] IN
           new # None /\ new # sessions[t] =>
             \A s \in Starts :
               thread[s] = t /\ watch[s] # "none"
                 => generation[s] < generation[new]]_vars
  BY <1>1
<1> QED
  BY <1>2, Inductive, PTL DEF GenerationGrowsPerThread, Spec

-----------------------------------------------------------------------------
(* The prompts in the store                                                *)

(* Where a prompt is.                                                      *)
In(q, p) == \E i \in DOMAIN q : q[i] = p
Once(q, p) == \A i, j \in DOMAIN q : q[i] = p /\ q[j] = p => i = j

(* A delivery has a prompt that it sends, and the draft it would restore.  *)
Has(r, p) == r.prompt = p \/ (r.kind = "draft" /\ r.original = p)
Sends(r, p) == r.at # "load" /\ r.prompt = p
Took(r, p) == r.at = "taken" /\ r.prompt = p

(* What is somewhere was typed.                                            *)
Known(p) ==
  \/ In(queue, p) \/ draft = p \/ p \in trail.answered \/ p \in trail.kept
  \/ \E d \in Slots : Has(delivery[d], p)
  => p \in trail.typed

Remains(p) ==
  p \in trail.typed => \/ In(queue, p) \/ draft = p \/ p \in trail.answered \/ p \in trail.gone
                       \/ \E d \in Slots : Sends(delivery[d], p)

(* A prompt is in one place: the composer, which may be about to be sent,  *)
(* the queue, a delivery, or with Pi, and Pi took it once.                 *)
Alone(p) ==
  /\ Once(queue, p)
  /\ \A d, e \in Slots : Has(delivery[d], p) /\ Has(delivery[e], p) => d = e
  /\ draft = p => ~In(queue, p) /\ \A d \in Slots : Has(delivery[d], p) => delivery[d].at = "load"
  /\ In(queue, p) => \A d \in Slots : ~Has(delivery[d], p)
  /\ p \in trail.answered =>
       draft # p /\ ~In(queue, p) /\ \A d \in Slots : ~Has(delivery[d], p)
  /\ trail.taken[p] = IF p \in trail.answered \/ \E d \in Slots : Took(delivery[d], p)
                      THEN 1 ELSE 0

Follows(p) == Known(p) /\ Remains(p) /\ (p \notin trail.kept => Alone(p))

Texts == Prompts \cup {NoPrompt}
RowFields == {"kind", "prompt", "original", "at", "was", "reload", "current"}
RowOK(r) == /\ DOMAIN r = RowFields /\ r.prompt \in Texts /\ r.original \in Texts
            /\ r.at = "free" => r.prompt = NoPrompt /\ r.kind = "none"
            /\ r.at = "load" => r.original = NoPrompt
            /\ r.at # "free" => r.prompt \in Prompts
DeliveryOK == DOMAIN delivery = Slots /\ \A d \in Slots : RowOK(delivery[d])
TrailOK == /\ DOMAIN trail = {"typed", "gone", "kept", "answered", "taken"}
           /\ DOMAIN trail.taken = Prompts /\ trail.typed \subseteq Prompts
HistoryOK ==
  /\ DOMAIN history = {"kind", "at", "again", "prompt", "current"}
  /\ history.at = "reload" /\ history.kind = "replay" =>
       history.prompt \in Prompts /\ history.prompt \in trail.kept
DispatchOK ==
  /\ DOMAIN dispatch = {"at", "reload"}
  /\ dispatch.at # "delivering" => At(FromQueue, "free")
Shapes == /\ queue \in Seq(Prompts) /\ draft \in Texts
          /\ DeliveryOK /\ TrailOK /\ HistoryOK /\ DispatchOK

PromptInv == Shapes /\ \A p \in Prompts : Follows(p)

-----------------------------------------------------------------------------
(* The queue.                                                              *)

(* A text that was typed is not the one that stands for none.              *)
LEMMA PromptsAreSome == Prompts \subseteq Nat \ {NoPrompt} /\ Texts \subseteq Nat
BY PromptAssumption DEF Prompts, Texts, NoPrompt

(* The prompt that is appended to the queue is in it, as what was there.   *)
LEMMA Appended ==
  ASSUME NEW q \in Seq(Prompts), NEW p \in Prompts
  PROVE  /\ Append(q, p) \in Seq(Prompts)
         /\ \A x : In(Append(q, p), x) <=> In(q, x) \/ x = p
         /\ \A x : Once(q, x) /\ (x = p => ~In(q, x)) => Once(Append(q, p), x)
<1> DEFINE r == Append(q, p)
<1>1. /\ Len(q) \in Nat /\ DOMAIN q = 1 .. Len(q) /\ r \in Seq(Prompts)
      /\ DOMAIN r = 1 .. Len(q) + 1 /\ \A i \in 1 .. Len(q) : r[i] = q[i]
      /\ r[Len(q) + 1] = p
  OBVIOUS
<1> HIDE DEF r
<1>2. \A x : In(r, x) <=> In(q, x) \/ x = p
  BY <1>1 DEF In
<1>3. ASSUME NEW x, Once(q, x), x = p => ~In(q, x) PROVE Once(r, x)
  BY <1>1, <1>3 DEF In, Once
<1> QED
  BY <1>1, <1>2, <1>3 DEF r

(* A prompt that was not delivered is put back before the others.          *)
LEMMA Prepended ==
  ASSUME NEW q \in Seq(Prompts), NEW p \in Prompts
  PROVE  /\ <<p>> \o q \in Seq(Prompts)
         /\ \A x : In(<<p>> \o q, x) <=> In(q, x) \/ x = p
         /\ \A x : Once(q, x) /\ (x = p => ~In(q, x)) => Once(<<p>> \o q, x)
<1> DEFINE r == <<p>> \o q
<1>1. /\ Len(q) \in Nat /\ DOMAIN q = 1 .. Len(q) /\ r \in Seq(Prompts)
      /\ DOMAIN r = 1 .. Len(q) + 1 /\ \A i \in 1 .. Len(q) : r[i + 1] = q[i]
      /\ \A i \in 2 .. Len(q) + 1 : r[i] = q[i - 1]
      /\ r[1] = p
  OBVIOUS
<1> HIDE DEF r
<1>2. \A x : In(r, x) <=> In(q, x) \/ x = p
  <2>1. ASSUME NEW x, In(q, x) PROVE In(r, x)
    <3>1. PICK i \in 1 .. Len(q) : q[i] = x
      BY <1>1, <2>1 DEF In
    <3>2. i + 1 \in DOMAIN r /\ r[i + 1] = x
      BY <1>1, <3>1
    <3> QED
      BY <3>2 DEF In
  <2>2. In(r, p)
    BY <1>1 DEF In
  <2>3. ASSUME NEW x, In(r, x), x # p PROVE In(q, x)
    <3>1. PICK i \in 1 .. Len(q) + 1 : r[i] = x
      BY <1>1, <2>3 DEF In
    <3>2. i # 1
      BY <1>1, <2>3, <3>1
    <3>3. i - 1 \in DOMAIN q /\ q[i - 1] = x
      BY <1>1, <3>1, <3>2
    <3> QED
      BY <3>3 DEF In
  <2> QED
    BY <2>1, <2>2, <2>3
<1>3. ASSUME NEW x, Once(q, x), x = p => ~In(q, x) PROVE Once(r, x)
  <2> SUFFICES ASSUME NEW i \in 1 .. Len(q) + 1, NEW j \in 1 .. Len(q) + 1, r[i] = x, r[j] = x
               PROVE  i = j
    BY <1>1 DEF Once
  <2>1. ASSUME NEW k \in 2 .. Len(q) + 1 PROVE k - 1 \in DOMAIN q /\ r[k] = q[k - 1]
    BY <1>1
  <2>2. CASE i = 1 /\ j # 1
    <3>1. x = p /\ j - 1 \in DOMAIN q /\ q[j - 1] = x
      BY <1>1, <2>1, <2>2
    <3> QED
      BY <1>3, <3>1 DEF In
  <2>3. CASE i # 1 /\ j = 1
    <3>1. x = p /\ i - 1 \in DOMAIN q /\ q[i - 1] = x
      BY <1>1, <2>1, <2>3
    <3> QED
      BY <1>3, <3>1 DEF In
  <2>4. CASE i # 1 /\ j # 1
    <3>1. /\ j - 1 \in DOMAIN q /\ q[j - 1] = x
          /\ i - 1 \in DOMAIN q /\ q[i - 1] = x
      BY <1>1, <2>1, <2>4
    <3>2. i - 1 = j - 1
      BY <1>3, <3>1 DEF Once
    <3> QED
      BY <3>2, <1>1
  <2> QED
    BY <2>2, <2>3, <2>4
<1> QED
  BY <1>1, <1>2, <1>3 DEF r

(* The items of a sequence without one of its places.                      *)
LEMMA Removed ==
  ASSUME NEW q \in Seq(Prompts), NEW i \in DOMAIN q
  PROVE  /\ RemoveAt(q, i) \in Seq(Prompts)
         /\ \A x : In(RemoveAt(q, i), x) => In(q, x)
         /\ \A x : In(q, x) /\ x # q[i] => In(RemoveAt(q, i), x)
         /\ \A x : Once(q, x) => Once(RemoveAt(q, i), x) /\ ~(x = q[i] /\ In(RemoveAt(q, i), x))
<1> DEFINE r == RemoveAt(q, i)
<1>1. /\ Len(q) \in Nat \ {0} /\ DOMAIN q = 1 .. Len(q) /\ r \in Seq(Prompts)
      /\ DOMAIN r = 1 .. Len(q) - 1
      /\ \A k \in 1 .. Len(q) - 1 : r[k] = IF k < i THEN q[k] ELSE q[k + 1]
  <2>1. Len(q) \in Nat \ {0} /\ DOMAIN q = 1 .. Len(q) /\ i \in 1 .. Len(q)
    OBVIOUS
  <2> DEFINE a == SubSeq(q, 1, i - 1)
             b == SubSeq(q, i + 1, Len(q))
  <2>2. /\ a \in Seq(Prompts) /\ Len(a) = i - 1
        /\ \A k \in 1 .. i - 1 : a[k] = q[k]
    BY <2>1
  <2>3. /\ b \in Seq(Prompts) /\ Len(b) = Len(q) - i
        /\ \A k \in 1 .. Len(q) - i : b[k] = q[k + i]
    BY <2>1
  <2>4. r = a \o b
    BY DEF RemoveAt
  <2> HIDE DEF a, b, r
  <2>5. /\ r \in Seq(Prompts) /\ Len(r) = Len(a) + Len(b)
        /\ \A k \in 1 .. Len(a) + Len(b) : r[k] = IF k <= Len(a) THEN a[k] ELSE b[k - Len(a)]
    BY <2>2, <2>3, <2>4, ConcatProperties
  <2>6. i \in Nat /\ Len(a) + Len(b) = Len(q) - 1
    BY <2>1, <2>2, <2>3
  <2>7. DOMAIN r = 1 .. Len(q) - 1
    BY <2>5, <2>6
  <2>8. ASSUME NEW k \in 1 .. Len(q) - 1 PROVE r[k] = IF k < i THEN q[k] ELSE q[k + 1]
    <3>1. r[k] = IF k <= i - 1 THEN a[k] ELSE b[k - (i - 1)]
      BY <2>2, <2>5, <2>6
    <3>2. CASE k < i
      BY <2>1, <2>2, <3>1, <3>2
    <3>3. CASE k >= i
      <4>1. k - (i - 1) \in 1 .. Len(q) - i /\ k - (i - 1) + i = k + 1
        BY <2>1, <2>6, <3>3
      <4>2. r[k] = b[k - (i - 1)]
        BY <2>1, <2>6, <3>1, <3>3
      <4>3. b[k - (i - 1)] = q[k - (i - 1) + i]
        BY <2>3, <4>1
      <4>4. r[k] = q[k + 1]
        BY <4>1, <4>2, <4>3
      <4>5. ~(k < i)
        BY <2>6, <3>3
      <4> QED
        BY <4>4, <4>5
    <3> QED
      BY <2>6, <3>2, <3>3
  <2> QED
    BY <2>1, <2>5, <2>7, <2>8
<1> HIDE DEF r
<1> DEFINE From(k) == IF k < i THEN k ELSE k + 1
<1>2. ASSUME NEW k \in DOMAIN r
      PROVE  From(k) \in DOMAIN q /\ r[k] = q[From(k)] /\ From(k) # i /\ k \in Nat
  BY <1>1
<1>3. \A k \in DOMAIN r, l \in DOMAIN r : From(k) = From(l) => k = l
  BY <1>1
<1>4. \A k \in DOMAIN q : k # i => \E l \in DOMAIN r : From(l) = k
  <2> SUFFICES ASSUME NEW k \in DOMAIN q, k # i PROVE \E l \in DOMAIN r : From(l) = k
    OBVIOUS
  <2>1. CASE k < i
    BY <1>1, <2>1
  <2>2. CASE k > i
    <3>1. k - 1 \in DOMAIN r /\ From(k - 1) = k
      BY <1>1, <2>2
    <3> QED
      BY <3>1
  <2> QED
    BY <1>1, <2>1, <2>2
<1> HIDE DEF From
<1>5. \A x : In(r, x) => In(q, x)
  BY <1>2 DEF In
<1>6. ASSUME NEW x, In(q, x), x # q[i] PROVE In(r, x)
  <2>1. PICK k \in DOMAIN q : q[k] = x
    BY <1>6 DEF In
  <2>2. PICK l \in DOMAIN r : From(l) = k
    BY <1>4, <1>6, <2>1
  <2> QED
    BY <1>2, <2>1, <2>2 DEF In
<1>7. ASSUME NEW x, Once(q, x) PROVE Once(r, x) /\ ~(x = q[i] /\ In(r, x))
  <2>1. Once(r, x)
    BY <1>2, <1>3, <1>7 DEF Once
  <2>2. ASSUME x = q[i], In(r, x) PROVE FALSE
    <3>1. PICK k \in DOMAIN r : r[k] = x
      BY <2>2 DEF In
    <3>2. From(k) = i
      BY <1>2, <1>7, <2>2, <3>1 DEF Once
    <3> QED
      BY <1>2, <3>2
  <2> QED
    BY <2>1, <2>2
<1> QED
  BY <1>1, <1>5, <1>6, <1>7 DEF r

(* The tail of the queue is the queue without its first place.             *)
LEMMA TailRemoves ==
  ASSUME NEW q \in Seq(Prompts), q # <<>>
  PROVE  1 \in DOMAIN q /\ Tail(q) = RemoveAt(q, 1) /\ Head(q) = q[1] /\ q[1] \in Prompts
<1>1. Len(q) \in Nat \ {0} /\ DOMAIN q = 1 .. Len(q)
  OBVIOUS
<1>2. Head(q) = q[1] /\ q[1] \in Prompts
  BY <1>1
<1>3. SubSeq(q, 1, 0) = <<>> /\ Tail(q) = SubSeq(q, 2, Len(q)) /\ Tail(q) \in Seq(Prompts)
  BY <1>1, TailIsSubSeq, SubSeqEmpty, HeadTailProperties
<1>4. <<>> \o Tail(q) = Tail(q)
  BY <1>3, ConcatEmptySeq
<1>5. RemoveAt(q, 1) = Tail(q)
  <2>1. RemoveAt(q, 1) = SubSeq(q, 1, 1 - 1) \o SubSeq(q, 1 + 1, Len(q))
    BY DEF RemoveAt
  <2> QED
    BY <1>3, <1>4, <2>1
<1> QED
  BY <1>1, <1>2, <1>5

(* The items of a sequence with another prompt in one of its places.       *)
LEMMA Replaced ==
  ASSUME NEW q \in Seq(Prompts), NEW i \in DOMAIN q, NEW y \in Prompts
  PROVE  /\ [q EXCEPT ![i] = y] \in Seq(Prompts)
         /\ \A x : In([q EXCEPT ![i] = y], x) => In(q, x) \/ x = y
         /\ \A x : In(q, x) /\ x # q[i] => In([q EXCEPT ![i] = y], x)
         /\ In([q EXCEPT ![i] = y], y)
         /\ \A x : Once(q, x) /\ (x = y => ~In(q, x)) => Once([q EXCEPT ![i] = y], x)
         /\ \A x : Once(q, x) /\ x # y => ~(x = q[i] /\ In([q EXCEPT ![i] = y], x))
<1> DEFINE r == [q EXCEPT ![i] = y]
<1>1. /\ r \in Seq(Prompts) /\ DOMAIN r = DOMAIN q /\ r[i] = y
      /\ \A k \in DOMAIN q : k # i => r[k] = q[k]
  OBVIOUS
<1> HIDE DEF r
<1>2. /\ \A x : In(r, x) => In(q, x) \/ x = y
      /\ \A x : In(q, x) /\ x # q[i] => In(r, x)
      /\ In(r, y)
  BY <1>1 DEF In
<1>3. ASSUME NEW x, Once(q, x), x = y => ~In(q, x) PROVE Once(r, x)
  BY <1>1, <1>3 DEF In, Once
<1>4. ASSUME NEW x, Once(q, x), x # y, x = q[i], In(r, x) PROVE FALSE
  BY <1>1, <1>4 DEF In, Once
<1> QED
  BY <1>1, <1>2, <1>3, <1>4 DEF r

-----------------------------------------------------------------------------
(* The deliveries.                                                         *)
Same(d) ==
  /\ delivery'[d].prompt = delivery[d].prompt /\ delivery'[d].kind = delivery[d].kind
  /\ delivery'[d].original = delivery[d].original
  /\ delivery'[d].at = "load" <=> delivery[d].at = "load"
  /\ delivery'[d].at = "taken" <=> delivery[d].at = "taken"
  /\ delivery'[d].at = "free" <=> delivery[d].at = "free"

(* A delivery that is neither free nor at its load may get to any place.   *)
LEMMA AtPlace ==
  ASSUME NEW r, RowOK(r), r.at # "free", NEW x, x \notin {"free", "load"}
  PROVE  LET n == [r EXCEPT !.at = x]
         IN /\ RowOK(n) /\ n.prompt = r.prompt /\ n.kind = r.kind
            /\ n.original = r.original /\ n.at = x
<1> DEFINE n == [r EXCEPT !.at = x]
<1>1. DOMAIN n = RowFields /\ \A f \in RowFields \ {"at"} : n[f] = r[f]
  BY DEF RowOK
<1>2. n.at = x /\ n.prompt = r.prompt /\ n.kind = r.kind /\ n.original = r.original
  BY <1>1 DEF RowOK, RowFields
<1> QED
  BY <1>1, <1>2 DEF RowOK

(* A read that is stale is where it was.                                   *)
LEMMA StaleRow ==
  ASSUME NEW r, RowOK(r)
  PROVE  LET n == [r EXCEPT !.current = FALSE]
         IN /\ RowOK(n) /\ n.prompt = r.prompt /\ n.kind = r.kind
            /\ n.original = r.original /\ n.at = r.at
BY DEF RowOK, RowFields

(* The reads that are under way become stale, and no prompt moves.         *)
LEMMA StaleStays ==
  ASSUME DeliveryOK
  PROVE  /\ DOMAIN StaleReads(delivery) = Slots
         /\ \A d \in Slots : LET r == StaleReads(delivery)[d]
                             IN /\ RowOK(r) /\ r.prompt = delivery[d].prompt
                                /\ r.kind = delivery[d].kind
                                /\ r.original = delivery[d].original /\ r.at = delivery[d].at
BY StaleRow DEF StaleReads, DeliveryOK

(* The row of a delivery that begins with a prompt.                        *)
LEMMA BegunRow ==
  ASSUME NEW k, NEW p \in Prompts, NEW t, draft \in Texts
  PROVE  LET r == Begun(k, p, t)
         IN /\ RowOK(r) /\ r.kind = k /\ r.prompt = p /\ r.original = draft
            /\ r.at \in {"refused", "settle", "settled"}
BY DEF Begun, RowOK, RowFields, NoDelivery, Texts

(* The row of a delivery that is free, and of one that loads.              *)
LEMMA OtherRows ==
  /\ RowOK(NoDelivery) /\ NoDelivery.prompt = NoPrompt /\ NoDelivery.kind = "none"
  /\ NoDelivery.at = "free"
  /\ \A p \in Prompts :
       LET r == [NoDelivery EXCEPT !.kind = "draft", !.prompt = p, !.at = "load", !.current = TRUE]
       IN /\ RowOK(r) /\ r.prompt = p /\ r.kind = "draft" /\ r.at = "load"
          /\ r.original = NoPrompt
BY DEF RowOK, RowFields, NoDelivery, Texts

(* One delivery moves and the others stay.                                 *)
LEMMA OneMoves ==
  ASSUME DeliveryOK, NEW d \in Slots, NEW r, RowOK(r), delivery' = [delivery EXCEPT ![d] = r]
  PROVE  DeliveryOK' /\ delivery'[d] = r /\ \A e \in Slots : e # d => delivery'[e] = delivery[e] /\ Same(e)
BY DEF DeliveryOK, Same

(* Where no prompt moves, each one is where it was.                        *)
LEMMA NothingMoves ==
  ASSUME PromptInv, queue' = queue, draft' = draft, trail' = trail,
         DeliveryOK', \A d \in Slots : Same(d), HistoryOK', DispatchOK'
  PROVE  PromptInv'
<1>1. Shapes'
  BY DEF PromptInv, Shapes, TrailOK
<1>2. ASSUME NEW p \in Prompts PROVE Follows(p)'
  <2>1. Follows(p)
    BY DEF PromptInv
  <2>2. \A d \in Slots : /\ Has(delivery'[d], p) <=> Has(delivery[d], p)
                         /\ Sends(delivery'[d], p) <=> Sends(delivery[d], p)
                         /\ Took(delivery'[d], p) <=> Took(delivery[d], p)
                         /\ delivery'[d].at = "load" <=> delivery[d].at = "load"
    BY DEF Same, Has, Sends, Took
  <2>3. Known(p)'
    BY <2>1, <2>2 DEF Follows, Known
  <2>4. Remains(p)'
    BY <2>1, <2>2 DEF Follows, Remains
  <2>5. p \notin trail'.kept => Alone(p)'
    BY <2>1, <2>2 DEF Follows, Alone
  <2> QED
    BY <2>3, <2>4, <2>5 DEF Follows
<1> QED
  BY <1>1, <1>2 DEF PromptInv

-----------------------------------------------------------------------------
(* The steps that move no prompt.                                          *)
Under == {"free", "load", "taken"}

(* A delivery goes on to another place.                                    *)
LEMMA MovesStay ==
  ASSUME DeliveryOK, NEW d \in Slots, NEW x, delivery[d].at \notin Under, x \notin Under, Moves(d, x)
  PROVE  DeliveryOK' /\ (\A e \in Slots : Same(e)) /\ delivery'[d].at \notin Under
<1> DEFINE r == [delivery[d] EXCEPT !.at = x]
<1>1. /\ RowOK(r) /\ r.prompt = delivery[d].prompt /\ r.kind = delivery[d].kind
      /\ r.original = delivery[d].original /\ r.at = x
  BY AtPlace DEF DeliveryOK, Under
<1>2. delivery' = [delivery EXCEPT ![d] = r]
  BY DEF Moves
<1> HIDE DEF r
<1>3. DeliveryOK' /\ delivery'[d] = r /\ \A e \in Slots : e # d => Same(e)
  BY <1>1, <1>2, OneMoves
<1> QED
  BY <1>1, <1>3 DEF Same, Under

(* And where all of them are as they were, or their reads are stale.       *)
LEMMA AllStay ==
  ASSUME DeliveryOK, delivery' = delivery \/ delivery' = StaleReads(delivery)
  PROVE  DeliveryOK' /\ \A e \in Slots : Same(e)
BY StaleStays DEF DeliveryOK, Same

(* What is said of the dispatch stays where its delivery does.             *)
LEMMA DispatchStays ==
  ASSUME DispatchOK, FromQueue \in Slots => Same(FromQueue), dispatch' = dispatch
  PROVE  DispatchOK'
BY DEF DispatchOK, Same, Slots, At

(* What is said of the history stays, unless it gets to a reload.          *)
LEMMA HistoryStays ==
  ASSUME HistoryOK, trail' = trail,
         \/ history' = history \/ history' = NoHistory \/ history' = StaleHistory
         \/ \E x : x # "reload" /\ history' = [history EXCEPT !.at = x]
  PROVE  HistoryOK'
BY DEF HistoryOK, NoHistory, StaleHistory

(* Steps of a delivery that changes nothing but its place.                 *)
LEMMA PlacesStep ==
  ASSUME PromptInv,
         \E d \in Slots : EnterSession(d) \/ HandOver(d) \/ ModelApplied(d) \/ ModelFails(d)
                          \/ (TaskFails(d) /\ d \in Deliveries)
                          \/ (SendFails(d) /\ At(d, "call"))
  PROVE  PromptInv'
<1> PICK d \in Slots : EnterSession(d) \/ HandOver(d) \/ ModelApplied(d) \/ ModelFails(d)
                       \/ (TaskFails(d) /\ d \in Deliveries)
                       \/ (SendFails(d) /\ At(d, "call"))
  OBVIOUS
<1>1. DeliveryOK /\ HistoryOK /\ DispatchOK
  BY DEF PromptInv, Shapes
<1>2. /\ delivery[d].at \notin Under /\ \E x : x \notin Under /\ Moves(d, x)
      /\ UNCHANGED <<draft, queue, trail, history, dispatch>>
  <2>1. CASE EnterSession(d)
    <3>1. \E x : x \notin Under /\ Moves(d, x)
      BY <2>1 DEF EnterSession, StartStage, Under
    <3> QED
      BY <2>1, <3>1 DEF EnterSession, Under, At
  <2>2. CASE HandOver(d)
    BY <2>2 DEF HandOver, Under, At
  <2>3. CASE ModelApplied(d)
    BY <2>3 DEF ModelApplied, Under, At
  <2>4. CASE ModelFails(d)
    BY <2>4 DEF ModelFails, Under, At
  <2>5. CASE TaskFails(d)
    BY <2>5 DEF TaskFails, Under, At
  <2>6. CASE SendFails(d) /\ At(d, "call")
    BY <2>6 DEF SendFails, Under, At
  <2> QED
    BY <2>1, <2>2, <2>3, <2>4, <2>5, <2>6
<1>3. DeliveryOK' /\ \A e \in Slots : Same(e)
  BY <1>1, <1>2, MovesStay
<1>4. DispatchOK' /\ HistoryOK'
  BY <1>1, <1>2, <1>3, DispatchStays, HistoryStays
<1> QED
  BY <1>2, <1>3, <1>4, NothingMoves

(* A reload ends, and what waits for it goes on.                           *)
LEMMA ReloadStep ==
  ASSUME PromptInv, NEW n, NEW ok, ReloadEnds(n, ok)
  PROVE  PromptInv'
<1>1. DeliveryOK /\ HistoryOK /\ DispatchOK
  BY DEF PromptInv, Shapes
<1>2. DOMAIN delivery' = Slots
  BY DEF ReloadEnds
<1>3. ASSUME NEW d \in Slots PROVE RowOK(delivery'[d]) /\ Same(d)
  <2>1. RowOK(delivery[d])
    BY <1>1 DEF DeliveryOK
  <2>2. CASE At(d, "settle") /\ delivery[d].reload = n
    <3>1. delivery'[d] = [delivery[d] EXCEPT !.at = "settled"] /\ delivery[d].at = "settle"
      BY <2>2 DEF ReloadEnds, At
    <3> QED
      BY <2>1, <3>1, AtPlace DEF Same
  <2>3. CASE ~(At(d, "settle") /\ delivery[d].reload = n)
    <3>1. delivery'[d] = delivery[d]
      BY <2>3 DEF ReloadEnds
    <3> QED
      BY <2>1, <3>1 DEF Same
  <2> QED
    BY <2>2, <2>3
<1>4. DispatchOK'
  <2>1. FromQueue \in Slots
    BY DEF Slots
  <2>2. dispatch'.at # "delivering" => dispatch.at # "delivering"
    BY <1>1 DEF ReloadEnds, DispatchOK
  <2>3. DOMAIN dispatch' = {"at", "reload"}
    BY <1>1 DEF ReloadEnds, DispatchOK
  <2> QED
    BY <1>1, <1>3, <2>1, <2>2, <2>3 DEF DispatchOK, Same, At
<1>5. HistoryOK'
  BY <1>1, HistoryStays DEF ReloadEnds
<1>6. queue' = queue /\ draft' = draft /\ trail' = trail
  BY DEF ReloadEnds
<1> QED
  BY <1>2, <1>3, <1>4, <1>5, <1>6, NothingMoves DEF DeliveryOK

(* A start of Pi is over, and whoever waits for it goes on.                *)
LEMMA StartedStays ==
  ASSUME DeliveryOK, NEW ok \in BOOLEAN, NEW t, Started(ok, t)
  PROVE  /\ DeliveryOK' /\ \A e \in Slots : Same(e)
         /\ history' = history \/ \E x : x # "reload" /\ history' = [history EXCEPT !.at = x]
<1>1. DOMAIN delivery' = Slots
  BY DEF Started
<1>2. ASSUME NEW d \in Slots PROVE RowOK(delivery'[d]) /\ Same(d)
  <2>1. RowOK(delivery[d])
    BY DEF DeliveryOK
  <2>2. delivery'[d] = AfterStart(ok, d)
    BY DEF Started
  <2>3. \/ delivery'[d] = delivery[d]
        \/ /\ delivery[d].at \notin Under
           /\ \E x : x \notin Under /\ delivery'[d] = [delivery[d] EXCEPT !.at = x]
    BY <2>2 DEF AfterStart, At, Under
  <2>4. CASE delivery'[d] = delivery[d]
    BY <2>1, <2>4 DEF Same
  <2>5. ASSUME delivery[d].at \notin Under, NEW x, x \notin Under,
               delivery'[d] = [delivery[d] EXCEPT !.at = x]
        PROVE  RowOK(delivery'[d]) /\ Same(d)
    <3>1. x \notin {"free", "load"} /\ delivery[d].at # "free"
      BY <2>5 DEF Under
    <3>2. /\ RowOK(delivery'[d]) /\ delivery'[d].prompt = delivery[d].prompt
          /\ delivery'[d].kind = delivery[d].kind
          /\ delivery'[d].original = delivery[d].original /\ delivery'[d].at = x
      BY <2>1, <2>5, <3>1, AtPlace
    <3> QED
      BY <2>5, <3>2 DEF Same, Under
  <2> QED
    BY <2>3, <2>4, <2>5
<1>3. history' = history \/ \E x : x # "reload" /\ history' = [history EXCEPT !.at = x]
  BY DEF Started
<1> QED
  BY <1>1, <1>2, <1>3 DEF DeliveryOK

(* The start of Pi moves no prompt.                                        *)
LEMMA StartStep ==
  ASSUME PromptInv,
         \/ StartThreadInBackground \/ StartSessionNow \/ HostStarts \/ StartSessionReturns
         \/ StartGoesOn \/ StartFails
  PROVE  PromptInv'
<1>1. DeliveryOK /\ HistoryOK /\ DispatchOK
  BY DEF PromptInv, Shapes
<1>2. UNCHANGED <<draft, queue, trail, dispatch>>
  BY DEF StartThreadInBackground, StartSessionNow, HostStarts, StartSessionReturns, StartGoesOn,
         StartFails
<1>3. \/ delivery' = delivery /\ history' = history
      \/ \E ok \in BOOLEAN, t \in {summary} : Started(ok, t)
  BY DEF StartThreadInBackground, StartSessionNow, HostStarts, StartSessionReturns, StartGoesOn,
         StartFails, StartMoves
<1>4. /\ DeliveryOK' /\ \A e \in Slots : Same(e)
      /\ history' = history \/ \E x : x # "reload" /\ history' = [history EXCEPT !.at = x]
  BY <1>1, <1>3, StartedStays, AllStay
<1>5. DispatchOK' /\ HistoryOK'
  BY <1>1, <1>2, <1>4, DispatchStays, HistoryStays
<1> QED
  BY <1>2, <1>4, <1>5, NothingMoves

(* The dispatch looks at the queue.                                        *)
LEMMA DispatchNextStep == ASSUME PromptInv, DispatchNext PROVE PromptInv'
<1>1. DeliveryOK /\ HistoryOK /\ DispatchOK
  BY DEF PromptInv, Shapes
<1>2. UNCHANGED <<draft, queue, trail, history, delivery>>
  BY DEF DispatchNext
<1>3. DispatchOK'
  <2>1. dispatch.at = "next" /\ \E x, y : dispatch' = [at |-> x, reload |-> y]
    BY DEF DispatchNext
  <2>2. At(FromQueue, "free")
    BY <1>1, <2>1 DEF DispatchOK
  <2> QED
    BY <1>2, <2>1, <2>2 DEF DispatchOK, At
<1> QED
  BY <1>1, <1>2, <1>3, AllStay, HistoryStays, NothingMoves

(* What Pi does and the store makes of it, but for the prompts it takes.   *)
LEMMA EventStep ==
  ASSUME PromptInv,
         \/ PiSettles \/ PiCompacts \/ PiCompacted \/ PiExits \/ HandlePiEvent
         \/ StopThread \/ HostStops \/ StopReturns \/ CompactActiveSession \/ Compacted
  PROVE  PromptInv'
<1>1. DeliveryOK /\ HistoryOK /\ DispatchOK
  BY DEF PromptInv, Shapes
<1>2. UNCHANGED <<draft, queue, trail>>
  BY DEF PiSettles, PiCompacts, PiCompacted, PiExits, HandlePiEvent, StopThread, HostStops,
         StopReturns, CompactActiveSession, Compacted
<1>3. /\ delivery' = delivery \/ delivery' = StaleReads(delivery)
      /\ dispatch' = dispatch \/ (dispatch.at = "none" /\ dispatch' = [dispatch EXCEPT !.at = "next"])
      /\ \/ history' = history \/ history' = StaleHistory
         \/ \E x : x # "reload" /\ history' = [history EXCEPT !.at = x]
  <2>1. CASE \/ PiSettles \/ PiCompacts \/ PiCompacted \/ PiExits \/ StopThread \/ HostStops
             \/ StopReturns \/ CompactActiveSession \/ Compacted
    BY <2>1 DEF PiSettles, PiCompacts, PiCompacted, PiExits, StopThread, HostStops, StopReturns,
                CompactActiveSession, Compacted
  <2>2. CASE HandlePiEvent
    <3>1. Unhandled \/ \E g : AgentSettled(g)
      BY <2>2 DEF HandlePiEvent, AgentStart, CompactionStart, CompactionEnd, RuntimeExit
    <3>2. CASE Unhandled
      BY <3>2 DEF Unhandled
    <3>3. CASE \E g : AgentSettled(g)
      BY <3>3 DEF AgentSettled
    <3> QED
      BY <3>1, <3>2, <3>3
  <2> QED
    BY <2>1, <2>2
<1>4. DeliveryOK' /\ \A e \in Slots : Same(e)
  BY <1>1, <1>3, AllStay
<1>5. DispatchOK'
  <2>1. CASE dispatch' = dispatch
    BY <1>1, <1>4, <2>1, DispatchStays
  <2>2. CASE dispatch.at = "none" /\ dispatch' = [dispatch EXCEPT !.at = "next"]
    <3>1. At(FromQueue, "free") /\ DOMAIN dispatch' = {"at", "reload"} /\ FromQueue \in Slots
      BY <1>1, <2>2 DEF DispatchOK, Slots
    <3> QED
      BY <1>4, <3>1 DEF DispatchOK, Same, At
  <2> QED
    BY <1>3, <2>1, <2>2
<1>6. HistoryOK'
  BY <1>1, <1>2, <1>3, HistoryStays
<1> QED
  BY <1>2, <1>4, <1>5, <1>6, NothingMoves

(* The operations on the history, but for the texts they put into the      *)
(* composer.                                                               *)
LEMMA HistoryStep ==
  ASSUME PromptInv,
         \/ \E kind \in {"edit", "replay"} : BeginRewrite(kind)
         \/ BeginFork \/ BeginDelete \/ HistoryStarts \/ EditReturns \/ ExportReturns
         \/ HistoryFails \/ \E place \in {"failed", "reload"} : HistoryAborts(place)
         \/ DeleteStops \/ DeleteStopReturns \/ DeleteFails
  PROVE  PromptInv'
<1>1. DeliveryOK /\ HistoryOK /\ DispatchOK
  BY DEF PromptInv, Shapes
<1>2. UNCHANGED <<draft, queue, trail, dispatch>>
  BY DEF BeginRewrite, BeginFork, BeginDelete, Begins, HistoryStarts, EditReturns, HistoryReturns,
         ExportReturns, HistoryFails, HistoryAborts, DeleteStops, DeleteStopReturns, DeleteFails
<1>3. delivery' = delivery \/ delivery' = StaleReads(delivery)
  BY DEF BeginRewrite, BeginFork, BeginDelete, HistoryStarts, EditReturns, HistoryReturns,
         ExportReturns, HistoryFails, HistoryAborts, DeleteStops, DeleteStopReturns, DeleteFails
<1>4. HistoryOK'
  <2>1. CASE \/ \E kind \in {"edit", "replay"} : BeginRewrite(kind)
             \/ BeginFork \/ BeginDelete
    <3>1. PICK kind : history' = [NoHistory EXCEPT !.kind = kind,
                        !.at = IF piStart.at # "none" THEN "start" ELSE "session"]
      BY <2>1 DEF BeginRewrite, BeginFork, BeginDelete, Begins
    <3> QED
      BY <3>1 DEF HistoryOK, NoHistory
  <2>2. CASE EditReturns
    <3>1. history.kind = "edit" /\ history' = [history EXCEPT !.at = "reload", !.current = TRUE]
      BY <2>2 DEF EditReturns, HistoryReturns
    <3> QED
      BY <1>1, <3>1 DEF HistoryOK
  <2>3. CASE HistoryFails
    <3>1. \/ history' = [history EXCEPT !.at = "failed"]
          \/ history' = [history EXCEPT !.at = "session", !.again = TRUE]
      BY <2>3 DEF HistoryFails
    <3> QED
      BY <1>1, <3>1 DEF HistoryOK
  <2>4. CASE \/ HistoryStarts \/ ExportReturns \/ \E place \in {"failed", "reload"} : HistoryAborts(place)
             \/ DeleteStops \/ DeleteStopReturns \/ DeleteFails
    <3>1. history' = NoHistory \/ \E x : x # "reload" /\ history' = [history EXCEPT !.at = x]
      BY <2>4 DEF HistoryStarts, StartStage, ExportReturns, HistoryAborts, DeleteStops,
                  DeleteStopReturns, DeleteFails
    <3> QED
      BY <1>1, <1>2, <3>1, HistoryStays
  <2> QED
    BY <2>1, <2>2, <2>3, <2>4
<1>5. DeliveryOK' /\ \A e \in Slots : Same(e)
  BY <1>1, <1>3, AllStay
<1>6. DispatchOK'
  BY <1>1, <1>2, <1>5, DispatchStays
<1> QED
  BY <1>2, <1>4, <1>5, <1>6, NothingMoves

-----------------------------------------------------------------------------
(* The steps of the composer and of the queue.                             *)

(* Nothing is known of a text before it is typed.                          *)
LEMMA FreshIsNowhere ==
  ASSUME PromptInv, NEW p \in Prompts, Fresh(p)
  PROVE  /\ ~In(queue, p) /\ draft # p /\ p \notin trail.answered /\ p \notin trail.kept
         /\ \A d \in Slots : ~Has(delivery[d], p)
         /\ Once(queue, p) /\ trail.taken[p] = 0
<1>1. Follows(p) /\ p \notin trail.typed
  BY DEF PromptInv, Fresh
<1>2. /\ ~In(queue, p) /\ draft # p /\ p \notin trail.answered /\ p \notin trail.kept
      /\ \A d \in Slots : ~Has(delivery[d], p)
  BY <1>1 DEF Follows, Known
<1>3. Alone(p)
  BY <1>1, <1>2 DEF Follows
<1>4. \A d \in Slots : ~Took(delivery[d], p)
  BY <1>2 DEF Took, Has
<1> QED
  BY <1>2, <1>3, <1>4 DEF Alone

(* What the composer shows and no delivery loads for is nowhere else.      *)
LEMMA ShownAlone ==
  ASSUME PromptInv, NEW p \in Prompts, Alone(p), draft = p, p \notin StillShown
  PROVE  ~In(queue, p) /\ p \notin trail.answered /\ \A d \in Slots : ~Has(delivery[d], p)
<1>1. DeliveryOK
  BY DEF PromptInv, Shapes
<1>2. ASSUME NEW d \in Slots, Has(delivery[d], p) PROVE FALSE
  <2>1. delivery[d].at = "load"
    BY <1>2 DEF Alone
  <2>2. delivery[d].original = NoPrompt /\ p # NoPrompt
    BY <1>1, <2>1, PromptsAreSome DEF DeliveryOK, RowOK
  <2>3. delivery[d].prompt = p
    BY <1>2, <2>2 DEF Has
  <2> QED
    BY <2>1, <2>3 DEF StillShown, At
<1> QED
  BY <1>2 DEF Alone

(* What follows where no delivery has another prompt.                      *)
LEMMA SameFollows ==
  ASSUME \A d \in Slots : Same(d), NEW p
  PROVE  \A d \in Slots : /\ Has(delivery'[d], p) <=> Has(delivery[d], p)
                          /\ Sends(delivery'[d], p) <=> Sends(delivery[d], p)
                          /\ Took(delivery'[d], p) <=> Took(delivery[d], p)
                          /\ delivery'[d].at = "load" <=> delivery[d].at = "load"
BY DEF Same, Has, Sends, Took

(* A text is typed into the composer, or a fork or the deletion of the task *)
(* takes the draft away.                                                   *)
LEMMA DraftStep ==
  ASSUME PromptInv, (\E p \in Prompts : UpdateDraft(p)) \/ ForkReturns PROVE PromptInv'
<1>1. DeliveryOK /\ HistoryOK /\ DispatchOK /\ TrailOK
  BY DEF PromptInv, Shapes
<1>2. /\ queue' = queue /\ dispatch' = dispatch
      /\ delivery' = delivery \/ delivery' = StaleReads(delivery)
      /\ \E p \in Texts : /\ draft' = p /\ (p \in Prompts => Fresh(p))
                          /\ trail' = [trail EXCEPT !.typed = @ \cup ({p} \ {NoPrompt}),
                                                    !.gone = @ \cup ({draft} \ {NoPrompt})]
  <2>1. CASE \E p \in Prompts : UpdateDraft(p)
    <3> PICK p \in Prompts : UpdateDraft(p)
      BY <2>1
    <3>1. p \in Texts /\ p # NoPrompt /\ {p} \ {NoPrompt} = {p}
      BY PromptsAreSome DEF Texts
    <3> QED
      BY <3>1 DEF UpdateDraft
  <2>2. CASE ForkReturns
    <3>1. NoPrompt \in Texts /\ NoPrompt \notin Prompts /\ {NoPrompt} \ {NoPrompt} = {}
      BY PromptsAreSome DEF Texts
    <3>2. trail.typed = trail.typed \cup {}
      OBVIOUS
    <3>3. [trail EXCEPT !.gone = @ \cup ({draft} \ {NoPrompt})]
            = [trail EXCEPT !.typed = @ \cup {}, !.gone = @ \cup ({draft} \ {NoPrompt})]
      BY <1>1, <3>2 DEF TrailOK
    <3> QED
      BY <2>2, <3>1, <3>3 DEF ForkReturns, HistoryReturns
  <2> QED
    BY <2>1, <2>2
<1> PICK p \in Texts : /\ draft' = p /\ (p \in Prompts => Fresh(p))
                       /\ trail' = [trail EXCEPT !.typed = @ \cup ({p} \ {NoPrompt}),
                                                 !.gone = @ \cup ({draft} \ {NoPrompt})]
  BY <1>2
<1>3. /\ TrailOK' /\ trail'.taken = trail.taken /\ trail'.kept = trail.kept
      /\ trail'.answered = trail.answered
      /\ trail'.typed = trail.typed \cup ({p} \ {NoPrompt})
      /\ trail'.gone = trail.gone \cup ({draft} \ {NoPrompt})
  BY <1>1 DEF TrailOK, Texts
<1>4. DeliveryOK' /\ \A d \in Slots : Same(d)
  BY <1>1, <1>2, AllStay
<1>5. DispatchOK'
  BY <1>1, <1>2, <1>4, DispatchStays
<1>6. HistoryOK'
  <2>1. CASE history' = history
    BY <1>1, <1>3, <2>1 DEF HistoryOK
  <2>2. CASE ForkReturns
    <3>1. history.kind = "fork" /\ history' = [history EXCEPT !.at = "reload", !.current = TRUE]
      BY <2>2 DEF ForkReturns, HistoryReturns
    <3> QED
      BY <1>1, <3>1 DEF HistoryOK
  <2> QED
    BY <2>1, <2>2 DEF UpdateDraft
<1>7. ASSUME NEW x \in Prompts PROVE Follows(x)'
  <2>1. Follows(x) /\ x # NoPrompt
    BY PromptsAreSome DEF PromptInv
  <2>2. \A d \in Slots : /\ Has(delivery'[d], x) <=> Has(delivery[d], x)
                         /\ Sends(delivery'[d], x) <=> Sends(delivery[d], x)
                         /\ Took(delivery'[d], x) <=> Took(delivery[d], x)
                         /\ delivery'[d].at = "load" <=> delivery[d].at = "load"
    BY <1>4, SameFollows
  <2>3. CASE x = p
    <3>1. /\ ~In(queue, x) /\ x \notin trail.answered /\ x \notin trail.kept
          /\ \A d \in Slots : ~Has(delivery[d], x)
          /\ Once(queue, x) /\ trail.taken[x] = 0
      BY <2>3, FreshIsNowhere
    <3>2. \A d \in Slots : ~Has(delivery'[d], x) /\ ~Took(delivery'[d], x)
      BY <2>2, <3>1 DEF Has, Took
    <3>3. Known(x)' /\ Remains(x)'
      BY <1>2, <1>3, <2>1, <2>3 DEF Known, Remains
    <3>4. Alone(x)'
      BY <1>2, <1>3, <3>1, <3>2 DEF Alone
    <3> QED
      BY <3>3, <3>4 DEF Follows
  <2>4. CASE x # p
    <3>1. Known(x)'
      BY <1>2, <1>3, <2>1, <2>2, <2>4 DEF Follows, Known
    <3>2. Remains(x)'
      BY <1>2, <1>3, <2>1, <2>2, <2>4 DEF Follows, Remains
    <3>3. x \notin trail'.kept => Alone(x)'
      BY <1>2, <1>3, <2>1, <2>2, <2>4 DEF Follows, Alone
    <3> QED
      BY <3>1, <3>2, <3>3 DEF Follows
  <2> QED
    BY <2>3, <2>4
<1>8. Shapes'
  BY <1>2, <1>3, <1>4, <1>5, <1>6 DEF PromptInv, Shapes
<1> QED
  BY <1>7, <1>8 DEF PromptInv

(* A pending prompt is removed, and one that is edited becomes another.    *)
LEMMA PendingStep ==
  ASSUME PromptInv,
         \E p, q \in Prompts : RemovePendingPrompt(p) \/ UpdatePendingPrompt(p, q)
  PROVE  PromptInv'
<1>1. DeliveryOK /\ HistoryOK /\ DispatchOK /\ TrailOK /\ queue \in Seq(Prompts)
  BY DEF PromptInv, Shapes
<1>2. PICK i \in DOMAIN queue :
        /\ draft' = draft /\ delivery' = delivery /\ history' = history /\ dispatch' = dispatch
        /\ \/ /\ queue' = RemoveAt(queue, i)
              /\ trail' = [trail EXCEPT !.gone = @ \cup {queue[i]}]
           \/ \E y \in Prompts :
                /\ Fresh(y) /\ queue' = [queue EXCEPT ![i] = y]
                /\ trail' = [trail EXCEPT !.typed = @ \cup {y}, !.gone = @ \cup {queue[i]}]
  BY DEF RemovePendingPrompt, UpdatePendingPrompt, Dequeued
<1>3. DeliveryOK' /\ \A d \in Slots : Same(d)
  BY <1>1, <1>2, AllStay
<1>4. DispatchOK'
  BY <1>1, <1>2, <1>3, DispatchStays
<1>5. CASE /\ queue' = RemoveAt(queue, i)
           /\ trail' = [trail EXCEPT !.gone = @ \cup {queue[i]}]
  <2>1. /\ TrailOK' /\ trail'.taken = trail.taken /\ trail'.kept = trail.kept
        /\ trail'.answered = trail.answered /\ trail'.typed = trail.typed
        /\ trail'.gone = trail.gone \cup {queue[i]}
    BY <1>1, <1>5 DEF TrailOK
  <2>2. /\ queue' \in Seq(Prompts)
        /\ \A x : In(queue', x) => In(queue, x)
        /\ \A x : In(queue, x) /\ x # queue[i] => In(queue', x)
        /\ \A x : Once(queue, x) => Once(queue', x)
    BY <1>1, <1>5, Removed
  <2>3. ASSUME NEW x \in Prompts PROVE Follows(x)'
    <3>1. Follows(x)
      BY DEF PromptInv
    <3>2. Known(x)'
      BY <1>2, <2>1, <2>2, <3>1 DEF Follows, Known
    <3>3. Remains(x)'
      BY <1>2, <2>1, <2>2, <3>1 DEF Follows, Remains
    <3>4. x \notin trail'.kept => Alone(x)'
      BY <1>2, <2>1, <2>2, <3>1 DEF Follows, Alone
    <3> QED
      BY <3>2, <3>3, <3>4 DEF Follows
  <2>4. HistoryOK'
    BY <1>1, <1>2, <2>1 DEF HistoryOK
  <2>5. Shapes'
    BY <1>2, <1>3, <1>4, <2>1, <2>2, <2>4 DEF PromptInv, Shapes
  <2> QED
    BY <2>3, <2>5 DEF PromptInv
<1>6. ASSUME NEW y \in Prompts, Fresh(y), queue' = [queue EXCEPT ![i] = y],
             trail' = [trail EXCEPT !.typed = @ \cup {y}, !.gone = @ \cup {queue[i]}]
      PROVE  PromptInv'
  <2>1. /\ TrailOK' /\ trail'.taken = trail.taken /\ trail'.kept = trail.kept
        /\ trail'.answered = trail.answered /\ trail'.typed = trail.typed \cup {y}
        /\ trail'.gone = trail.gone \cup {queue[i]}
    BY <1>1, <1>6 DEF TrailOK
  <2>2. /\ ~In(queue, y) /\ draft # y /\ y \notin trail.answered /\ y \notin trail.kept
        /\ \A d \in Slots : ~Has(delivery[d], y)
        /\ Once(queue, y) /\ trail.taken[y] = 0
    BY <1>6, FreshIsNowhere
  <2>3. /\ queue' \in Seq(Prompts)
        /\ \A x : In(queue', x) => In(queue, x) \/ x = y
        /\ \A x : In(queue, x) /\ x # queue[i] => In(queue', x)
        /\ In(queue', y)
        /\ \A x : Once(queue, x) => Once(queue', x)
    <3> DEFINE r == [queue EXCEPT ![i] = y]
    <3>1. /\ r \in Seq(Prompts)
          /\ \A x : In(r, x) => In(queue, x) \/ x = y
          /\ \A x : In(queue, x) /\ x # queue[i] => In(r, x)
          /\ In(r, y)
          /\ \A x : Once(queue, x) /\ (x = y => ~In(queue, x)) => Once(r, x)
      BY <1>1, <1>6, Replaced
    <3> HIDE DEF r
    <3>2. queue' = r
      BY <1>6 DEF r
    <3> QED
      BY <2>2, <3>1, <3>2
  <2>4. ASSUME NEW x \in Prompts PROVE Follows(x)'
    <3>1. Follows(x)
      BY DEF PromptInv
    <3>2. Known(x)'
      BY <1>2, <2>1, <2>3, <3>1 DEF Follows, Known
    <3>3. Remains(x)'
      BY <1>2, <2>1, <2>3, <3>1 DEF Follows, Remains
    <3>4. CASE x = y
      <4>1. \A d \in Slots : ~Took(delivery[d], x)
        BY <2>2, <3>4 DEF Took, Has
      <4>2. Alone(x)'
        BY <1>2, <2>1, <2>2, <2>3, <3>4, <4>1 DEF Alone
      <4> QED
        BY <3>2, <3>3, <4>2 DEF Follows
    <3>5. CASE x # y
      <4>1. x \notin trail'.kept => Alone(x)'
        BY <1>2, <2>1, <2>3, <3>1, <3>5 DEF Follows, Alone
      <4> QED
        BY <3>2, <3>3, <4>1 DEF Follows
    <3> QED
      BY <3>4, <3>5
  <2>5. HistoryOK'
    BY <1>1, <1>2, <2>1 DEF HistoryOK
  <2>6. Shapes'
    BY <1>2, <1>3, <1>4, <2>1, <2>3, <2>5 DEF PromptInv, Shapes
  <2> QED
    BY <2>4, <2>6 DEF PromptInv
<1> QED
  BY <1>2, <1>5, <1>6

(* A pending prompt changes places with the draft.                         *)
LEMMA MoveToDraftStep ==
  ASSUME PromptInv, NEW p \in Prompts, MovePendingPromptToDraft(p)
  PROVE  PromptInv'
<1>1. DeliveryOK /\ HistoryOK /\ DispatchOK /\ TrailOK /\ queue \in Seq(Prompts) /\ draft \in Texts
  BY DEF PromptInv, Shapes
<1>2. PICK i \in DOMAIN queue :
        queue[i] = p /\ queue' = IF draft = NoPrompt THEN RemoveAt(queue, i) ELSE [queue EXCEPT ![i] = draft]
  BY DEF MovePendingPromptToDraft
<1>3. /\ draft' = p /\ delivery' = delivery /\ history' = history /\ dispatch' = dispatch
      /\ trail' = [trail EXCEPT !.kept = @ \cup StillShown]
  BY DEF MovePendingPromptToDraft
<1>4. /\ TrailOK' /\ trail'.taken = trail.taken /\ trail'.kept = trail.kept \cup StillShown
      /\ trail'.answered = trail.answered /\ trail'.typed = trail.typed
      /\ trail'.gone = trail.gone
  BY <1>1, <1>3 DEF TrailOK
<1>5. DeliveryOK' /\ \A d \in Slots : Same(d)
  BY <1>1, <1>3, AllStay
<1>6. DispatchOK' /\ HistoryOK'
  BY <1>1, <1>3, <1>4, <1>5, DispatchStays DEF HistoryOK
<1>7. In(queue, p)
  BY <1>2 DEF In
<1>8. /\ queue' \in Seq(Prompts)
      /\ \A x \in Prompts : In(queue', x) => In(queue, x) \/ x = draft
      /\ \A x \in Prompts : In(queue, x) /\ x # p => In(queue', x)
      /\ draft \in Prompts => In(queue', draft)
      /\ \A x \in Prompts : Once(queue, x) /\ (x = draft => ~In(queue, x)) => Once(queue', x)
      /\ Once(queue, p) /\ draft # p => ~In(queue', p)
  <2>1. CASE draft = NoPrompt
    BY <1>1, <1>2, <2>1, Removed, PromptsAreSome
  <2>2. CASE draft # NoPrompt
    <3>1. draft \in Prompts
      BY <1>1, <2>2 DEF Texts
    <3> QED
      BY <1>1, <1>2, <2>2, <3>1, Replaced
  <2> QED
    BY <2>1, <2>2
<1>9. StillShown \subseteq {draft}
  BY DEF StillShown
<1>10. ASSUME NEW x \in Prompts PROVE Follows(x)'
  <2>1. Follows(x)
    BY DEF PromptInv
  <2>2. Known(x)'
    BY <1>3, <1>4, <1>7, <1>8, <1>9, <2>1 DEF Follows, Known
  <2>3. Remains(x)'
    BY <1>3, <1>4, <1>8, <2>1 DEF Follows, Remains
  <2>4. ASSUME x \notin trail'.kept PROVE Alone(x)'
    <3>1. Alone(x) /\ x \notin StillShown
      BY <1>4, <2>1, <2>4 DEF Follows
    <3>2. CASE x = p
      <4>1. /\ draft # x /\ Once(queue, x) /\ x \notin trail.answered
            /\ \A d \in Slots : ~Has(delivery[d], x)
        BY <1>7, <3>1, <3>2 DEF Alone
      <4>2. ~In(queue', x) /\ Once(queue', x)
        BY <1>8, <3>2, <4>1
      <4> QED
        BY <1>3, <1>4, <3>1, <4>1, <4>2 DEF Alone
    <3>3. CASE x # p /\ x = draft
      <4>1. ~In(queue, x) /\ x \notin trail.answered /\ \A d \in Slots : ~Has(delivery[d], x)
        BY <3>1, <3>3, ShownAlone
      <4>2. Once(queue', x)
        BY <1>8, <3>1, <4>1 DEF Alone
      <4> QED
        BY <1>3, <1>4, <3>1, <3>3, <4>1, <4>2 DEF Alone
    <3>4. CASE x # p /\ x # draft
      <4>1. Once(queue', x) /\ (In(queue', x) => In(queue, x))
        BY <1>8, <3>1, <3>4 DEF Alone
      <4> QED
        BY <1>3, <1>4, <3>1, <3>4, <4>1 DEF Alone
    <3> QED
      BY <3>2, <3>3, <3>4
  <2> QED
    BY <2>2, <2>3, <2>4 DEF Follows
<1>11. Shapes'
  BY <1>3, <1>4, <1>5, <1>6, <1>8 DEF Shapes, Texts
<1> QED
  BY <1>10, <1>11 DEF PromptInv

(* The text of a replay is put into the composer, which keeps it.          *)
LEMMA ReplayStep ==
  ASSUME PromptInv, NEW p \in Prompts, ReplayReturns(p)
  PROVE  PromptInv'
<1>1. DeliveryOK /\ HistoryOK /\ DispatchOK /\ TrailOK /\ draft \in Texts
  BY DEF PromptInv, Shapes
<1>2. /\ Fresh(p) /\ draft' = p /\ queue' = queue /\ dispatch' = dispatch
      /\ delivery' = StaleReads(delivery)
      /\ history' = [history EXCEPT !.at = "reload", !.current = TRUE, !.prompt = p]
      /\ trail' = [trail EXCEPT !.typed = @ \cup {p}, !.kept = @ \cup {p},
                                !.gone = @ \cup ({draft} \ {NoPrompt})]
  BY DEF ReplayReturns, HistoryReturns
<1>3. /\ TrailOK' /\ trail'.taken = trail.taken /\ trail'.kept = trail.kept \cup {p}
      /\ trail'.answered = trail.answered /\ trail'.typed = trail.typed \cup {p}
      /\ trail'.gone = trail.gone \cup ({draft} \ {NoPrompt})
  BY <1>1, <1>2 DEF TrailOK
<1>4. DeliveryOK' /\ \A d \in Slots : Same(d)
  BY <1>1, <1>2, AllStay
<1>5. DispatchOK'
  BY <1>1, <1>2, <1>4, DispatchStays
<1>6. HistoryOK'
  <2>1. DOMAIN history' = DOMAIN history /\ history'.prompt = p
    BY <1>1, <1>2 DEF HistoryOK
  <2> QED
    BY <1>1, <1>3, <2>1 DEF HistoryOK
<1>7. ASSUME NEW x \in Prompts PROVE Follows(x)'
  <2>1. Follows(x) /\ x # NoPrompt
    BY PromptsAreSome DEF PromptInv
  <2>2. \A d \in Slots : /\ Has(delivery'[d], x) <=> Has(delivery[d], x)
                         /\ Sends(delivery'[d], x) <=> Sends(delivery[d], x)
                         /\ Took(delivery'[d], x) <=> Took(delivery[d], x)
                         /\ delivery'[d].at = "load" <=> delivery[d].at = "load"
    BY <1>4, SameFollows
  <2>3. Known(x)'
    BY <1>2, <1>3, <2>1, <2>2 DEF Follows, Known
  <2>4. Remains(x)'
    BY <1>2, <1>3, <2>1, <2>2 DEF Follows, Remains
  <2>5. x \notin trail'.kept => Alone(x)'
    BY <1>2, <1>3, <2>1, <2>2 DEF Follows, Alone
  <2> QED
    BY <2>3, <2>4, <2>5 DEF Follows
<1>8. Shapes'
  BY <1>2, <1>3, <1>4, <1>5, <1>6 DEF PromptInv, Shapes, Texts
<1> QED
  BY <1>7, <1>8 DEF PromptInv

(* The task is deleted, and what waits in it goes.                         *)
LEMMA DeleteStep == ASSUME PromptInv, RemoveThreadState PROVE PromptInv'
<1>1. DeliveryOK /\ HistoryOK /\ DispatchOK /\ TrailOK /\ draft \in Texts
  BY DEF PromptInv, Shapes
<1>2. /\ draft' = NoPrompt /\ queue' = <<>> /\ dispatch' = dispatch /\ delivery' = delivery
      /\ history' = NoHistory /\ trail' = [trail EXCEPT !.gone = @ \cup InComposer]
  BY DEF RemoveThreadState
<1>3. /\ TrailOK' /\ trail'.taken = trail.taken /\ trail'.kept = trail.kept
      /\ trail'.answered = trail.answered /\ trail'.typed = trail.typed
      /\ trail'.gone = trail.gone \cup InComposer
  BY <1>1, <1>2 DEF TrailOK
<1>4. DeliveryOK' /\ \A d \in Slots : Same(d)
  BY <1>1, <1>2, AllStay
<1>5. DispatchOK' /\ HistoryOK'
  BY <1>1, <1>2, <1>4, DispatchStays DEF HistoryOK, NoHistory
<1>6. /\ queue' \in Seq(Prompts) /\ \A x : ~In(queue', x) /\ Once(queue', x)
  <2>1. DOMAIN <<>> = {}
    OBVIOUS
  <2> QED
    BY <1>2, <2>1 DEF In, Once
<1>7. ASSUME NEW x \in Prompts PROVE Follows(x)'
  <2>1. Follows(x) /\ x # NoPrompt
    BY PromptsAreSome DEF PromptInv
  <2>2. In(queue, x) \/ draft = x => x \in InComposer
    BY <2>1 DEF In, InComposer, ToSet
  <2>3. Known(x)'
    BY <1>2, <1>3, <1>6, <2>1 DEF Follows, Known
  <2>4. Remains(x)'
    BY <1>2, <1>3, <1>6, <2>1, <2>2 DEF Follows, Remains
  <2>5. x \notin trail'.kept => Alone(x)'
    BY <1>2, <1>3, <1>6, <2>1 DEF Follows, Alone
  <2> QED
    BY <2>3, <2>4, <2>5 DEF Follows
<1>8. Shapes'
  BY <1>2, <1>3, <1>4, <1>5, <1>6 DEF Shapes, Texts
<1> QED
  BY <1>7, <1>8 DEF PromptInv

-----------------------------------------------------------------------------
(* The steps of a delivery that move its prompt.                           *)

(* What is said of the deliveries but for one.                             *)
LEMMA OthersFollow ==
  ASSUME NEW d, \A e \in Slots : e # d => Same(e), NEW p
  PROVE  \A e \in Slots : e # d => /\ Has(delivery'[e], p) <=> Has(delivery[e], p)
                                   /\ Sends(delivery'[e], p) <=> Sends(delivery[e], p)
                                   /\ Took(delivery'[e], p) <=> Took(delivery[e], p)
                                   /\ delivery'[e].at = "load" <=> delivery[e].at = "load"
BY DEF Same, Has, Sends, Took

(* A delivery of the composer is not that of the queue, so the dispatch    *)
(* stays as it was.                                                        *)
LEMMA QueueStays ==
  ASSUME DispatchOK, NEW d, d # FromQueue, \A e \in Slots : e # d => Same(e), dispatch' = dispatch
  PROVE  DispatchOK'
<1>1. Same(FromQueue)
  BY DEF Slots
<1> QED
  BY <1>1, DispatchStays

(* A delivery that is free or loads has no prompt but what it loads for.   *)
LEMMA EarlyRow ==
  ASSUME DeliveryOK, NEW d \in Slots, At(d, "free") \/ At(d, "load"), NEW x \in Prompts
  PROVE  /\ ~Sends(delivery[d], x) /\ ~Took(delivery[d], x)
         /\ Has(delivery[d], x) => At(d, "load") /\ delivery[d].prompt = x
<1>1. RowOK(delivery[d]) /\ x # NoPrompt
  BY PromptsAreSome DEF DeliveryOK
<1>2. CASE At(d, "free")
  BY <1>1, <1>2 DEF RowOK, Has, Sends, Took, At
<1>3. CASE At(d, "load")
  BY <1>1, <1>3 DEF RowOK, Has, Sends, Took, At
<1> QED
  BY <1>2, <1>3

(* The row of a free delivery has no prompt.                               *)
LEMMA FreeRow ==
  ASSUME NEW x \in Prompts
  PROVE  ~Has(NoDelivery, x) /\ ~Sends(NoDelivery, x) /\ ~Took(NoDelivery, x)
BY OtherRows, PromptsAreSome DEF Has, Sends, Took

(* What is sent from the composer is nowhere else.                         *)
LEMMA SentAlone ==
  ASSUME PromptInv, NEW d \in Slots, NEW p \in Prompts, Alone(p),
         \/ At(d, "free") /\ p = draft /\ p \notin StillShown
         \/ At(d, "load") /\ p = delivery[d].prompt
  PROVE  /\ ~In(queue, p) /\ p \notin trail.answered
         /\ \A e \in Slots : e # d => ~Has(delivery[e], p)
<1>1. CASE At(d, "free") /\ p = draft /\ p \notin StillShown
  BY <1>1, ShownAlone
<1>2. CASE At(d, "load") /\ p = delivery[d].prompt
  <2>1. Has(delivery[d], p)
    BY <1>2 DEF Has
  <2> QED
    BY <2>1 DEF Alone
<1> QED
  BY <1>1, <1>2

(* A delivery that sends nothing yet ends.                                 *)
LEMMA DroppedStep ==
  ASSUME PromptInv, NEW d \in Deliveries, At(d, "free") \/ At(d, "load"),
         queue' = queue, draft' = draft, trail' = trail, Free(d),
         history' = history, dispatch' = dispatch
  PROVE  PromptInv'
<1>1. DeliveryOK /\ HistoryOK /\ DispatchOK /\ d \in Slots /\ d # FromQueue
  BY PromptAssumption DEF PromptInv, Shapes, Slots
<1>2. /\ DeliveryOK' /\ delivery'[d] = NoDelivery
      /\ \A e \in Slots : e # d => delivery'[e] = delivery[e] /\ Same(e)
  BY <1>1, OneMoves, OtherRows DEF Free
<1>3. ASSUME NEW x \in Prompts PROVE Follows(x)'
  <2>1. Follows(x) /\ ~Sends(delivery[d], x) /\ ~Took(delivery[d], x)
    BY <1>1, EarlyRow DEF PromptInv
  <2>2. /\ \A e \in Slots : e # d => /\ Has(delivery'[e], x) <=> Has(delivery[e], x)
                                     /\ Sends(delivery'[e], x) <=> Sends(delivery[e], x)
                                     /\ Took(delivery'[e], x) <=> Took(delivery[e], x)
                                     /\ delivery'[e].at = "load" <=> delivery[e].at = "load"
        /\ ~Has(delivery'[d], x) /\ ~Sends(delivery'[d], x) /\ ~Took(delivery'[d], x)
    BY <1>2, OthersFollow, FreeRow
  <2>3. Known(x)'
    BY <2>1, <2>2 DEF Follows, Known
  <2>4. Remains(x)'
    BY <2>1, <2>2 DEF Follows, Remains
  <2>5. x \notin trail'.kept => Alone(x)'
    BY <2>1, <2>2 DEF Follows, Alone
  <2> QED
    BY <2>3, <2>4, <2>5 DEF Follows
<1>4. DispatchOK' /\ HistoryOK'
  BY <1>1, <1>2, QueueStays DEF HistoryOK
<1>5. Shapes'
  BY <1>2, <1>4 DEF PromptInv, Shapes, TrailOK
<1> QED
  BY <1>3, <1>5 DEF PromptInv

(* The composer sends its text: to the queue, or in a delivery.            *)
LEMMA SubmitStep ==
  ASSUME PromptInv, NEW d \in Deliveries, NEW p \in Prompts, Submit(d, p),
         (At(d, "free") /\ p = draft) \/ (At(d, "load") /\ p = delivery[d].prompt),
         history' = history, dispatch' = dispatch
  PROVE  PromptInv'
<1>1. DeliveryOK /\ HistoryOK /\ DispatchOK /\ TrailOK /\ queue \in Seq(Prompts) /\ draft \in Texts
  BY DEF PromptInv, Shapes
<1>2. d \in Slots /\ d # FromQueue
  BY PromptAssumption DEF Slots
<1>3. ASSUME NEW x \in Prompts
      PROVE  /\ Follows(x) /\ x # NoPrompt
             /\ ~Sends(delivery[d], x) /\ ~Took(delivery[d], x)
             /\ Has(delivery[d], x) => At(d, "load") /\ delivery[d].prompt = x
             /\ Has(delivery[d], x) => x = p
  BY <1>1, <1>2, EarlyRow, PromptsAreSome DEF PromptInv, At
<1>4. p \in trail.typed
  <2>1. draft = p \/ Has(delivery[d], p)
    BY DEF Has
  <2> QED
    BY <1>2, <1>3, <2>1 DEF Follows, Known
<1>5. StillShown \subseteq {draft}
  BY DEF StillShown
<1>6. CASE summary.status = "running"
  <2>1. /\ queue' = Append(queue, p) /\ draft' = NoPrompt /\ Free(d)
        /\ trail' = [trail EXCEPT !.gone = @ \cup ({draft} \ {p, NoPrompt}),
                                  !.kept = @ \cup StillShown]
    BY <1>6 DEF Submit, Composer
  <2>2. /\ TrailOK' /\ trail'.taken = trail.taken /\ trail'.kept = trail.kept \cup StillShown
        /\ trail'.answered = trail.answered /\ trail'.typed = trail.typed
        /\ trail'.gone = trail.gone \cup ({draft} \ {p, NoPrompt})
    BY <1>1, <2>1 DEF TrailOK
  <2>3. /\ DeliveryOK' /\ delivery'[d] = NoDelivery
        /\ \A e \in Slots : e # d => delivery'[e] = delivery[e] /\ Same(e)
    BY <1>1, <1>2, <2>1, OneMoves, OtherRows DEF Free
  <2>4. /\ queue' \in Seq(Prompts)
        /\ \A x : In(queue', x) <=> In(queue, x) \/ x = p
        /\ \A x : Once(queue, x) /\ (x = p => ~In(queue, x)) => Once(queue', x)
    BY <1>1, <2>1, Appended
  <2>5. ASSUME NEW x \in Prompts PROVE Follows(x)'
    <3>1. /\ \A e \in Slots : e # d => /\ Has(delivery'[e], x) <=> Has(delivery[e], x)
                                       /\ Sends(delivery'[e], x) <=> Sends(delivery[e], x)
                                       /\ Took(delivery'[e], x) <=> Took(delivery[e], x)
                                       /\ delivery'[e].at = "load" <=> delivery[e].at = "load"
          /\ ~Has(delivery'[d], x) /\ ~Sends(delivery'[d], x) /\ ~Took(delivery'[d], x)
      BY <2>3, OthersFollow, FreeRow
    <3>2. Known(x)'
      BY <1>2, <1>3, <1>4, <1>5, <2>1, <2>2, <2>4, <3>1 DEF Follows, Known
    <3>3. Remains(x)'
      BY <1>2, <1>3, <2>1, <2>2, <2>4, <3>1 DEF Follows, Remains
    <3>4. ASSUME x \notin trail'.kept PROVE Alone(x)'
      <4>1. Alone(x) /\ x \notin StillShown
        BY <1>3, <2>2, <3>4 DEF Follows
      <4>2. CASE x = p
        <5>1. /\ ~In(queue, x) /\ x \notin trail.answered
              /\ \A e \in Slots : e # d => ~Has(delivery[e], x)
          BY <1>2, <4>1, <4>2, SentAlone
        <5>2. \A e \in Slots : ~Has(delivery'[e], x) /\ ~Took(delivery'[e], x)
          BY <3>1, <5>1 DEF Has, Took
        <5>3. \A e \in Slots : ~Took(delivery[e], x)
          BY <1>3, <5>1 DEF Has, Took
        <5> QED
          BY <1>3, <2>1, <2>2, <2>4, <4>1, <4>2, <5>1, <5>2, <5>3 DEF Alone
      <4>3. CASE x # p
        <5>1. \A e \in Slots : /\ Has(delivery'[e], x) <=> Has(delivery[e], x)
                               /\ Took(delivery'[e], x) <=> Took(delivery[e], x)
          BY <1>3, <3>1, <4>3
        <5> QED
          BY <1>3, <2>1, <2>2, <2>4, <4>1, <4>3, <5>1 DEF Alone
      <4> QED
        BY <4>2, <4>3
    <3> QED
      BY <3>2, <3>3, <3>4 DEF Follows
  <2>6. DispatchOK' /\ HistoryOK'
    BY <1>1, <1>2, <2>2, <2>3, QueueStays DEF HistoryOK
  <2>7. Shapes'
    BY <2>1, <2>2, <2>3, <2>4, <2>6 DEF Shapes, Texts
  <2> QED
    BY <2>5, <2>7 DEF PromptInv
<1>7. CASE summary.status # "running" /\ summary.operation # "none"
  <2>1. queue' = queue /\ draft' = draft /\ trail' = trail /\ Free(d)
    BY <1>7 DEF Submit
  <2> QED
    BY <2>1, DroppedStep
<1>8. CASE summary.status # "running" /\ summary.operation = "none"
  <2> DEFINE r == Begun("draft", p, summary)
             k == StillShown \ {delivery[d].prompt}
  <2>1. /\ queue' = queue /\ draft' = NoPrompt /\ delivery' = [delivery EXCEPT ![d] = r]
        /\ trail' = [trail EXCEPT !.gone = @ \cup ({draft} \ {p, NoPrompt}), !.kept = @ \cup k]
    BY <1>8 DEF Submit, Composer
  <2>2. /\ RowOK(r) /\ r.kind = "draft" /\ r.prompt = p /\ r.original = draft
        /\ r.at \notin {"free", "load", "taken"}
    BY <1>1, BegunRow DEF Texts
  <2> HIDE DEF r
  <2>3. /\ TrailOK' /\ trail'.taken = trail.taken /\ trail'.kept = trail.kept \cup k
        /\ trail'.answered = trail.answered /\ trail'.typed = trail.typed
        /\ trail'.gone = trail.gone \cup ({draft} \ {p, NoPrompt})
    BY <1>1, <2>1 DEF TrailOK
  <2>4. /\ DeliveryOK' /\ delivery'[d] = r
        /\ \A e \in Slots : e # d => delivery'[e] = delivery[e] /\ Same(e)
    BY <1>1, <1>2, <2>1, <2>2, OneMoves
  <2>5. ASSUME NEW x \in Prompts PROVE Follows(x)'
    <3>1. /\ \A e \in Slots : e # d => /\ Has(delivery'[e], x) <=> Has(delivery[e], x)
                                       /\ Sends(delivery'[e], x) <=> Sends(delivery[e], x)
                                       /\ Took(delivery'[e], x) <=> Took(delivery[e], x)
                                       /\ delivery'[e].at = "load" <=> delivery[e].at = "load"
      BY <2>4, OthersFollow
    <3>2. /\ Has(delivery'[d], x) <=> x = p \/ x = draft
          /\ Sends(delivery'[d], x) <=> x = p
          /\ ~Took(delivery'[d], x) /\ delivery'[d].at # "load"
      BY <2>2, <2>4 DEF Has, Sends, Took
    <3>3. Known(x)'
      BY <1>2, <1>3, <1>4, <1>5, <2>1, <2>3, <3>1, <3>2 DEF Follows, Known
    <3>4. Remains(x)'
      BY <1>2, <1>3, <2>1, <2>3, <3>1, <3>2 DEF Follows, Remains
    <3>5. ASSUME x \notin trail'.kept PROVE Alone(x)'
      <4>1. Alone(x) /\ x \notin k
        BY <1>3, <2>3, <3>5 DEF Follows
      <4>2. CASE x = p \/ x = draft
        <5>1. /\ ~In(queue, x) /\ x \notin trail.answered
              /\ \A e \in Slots : e # d => ~Has(delivery[e], x)
          <6>1. CASE x = p /\ At(d, "load") /\ p = delivery[d].prompt
            BY <1>2, <4>1, <6>1, SentAlone
          <6>2. CASE x = p /\ At(d, "free") /\ p = draft
            <7>1. delivery[d].prompt = NoPrompt
              BY <1>1, <1>2, <6>2 DEF DeliveryOK, RowOK, At
            <7>2. x \notin StillShown
              BY <1>3, <4>1, <7>1
            <7> QED
              BY <1>2, <4>1, <6>2, <7>2, SentAlone
          <6>3. CASE x # p /\ x = draft
            <7>1. x \notin StillShown
              BY <4>1, <6>3
            <7> QED
              BY <4>1, <6>3, <7>1, ShownAlone
          <6> QED
            BY <4>2, <6>1, <6>2, <6>3
        <5>2. \A e \in Slots : /\ Has(delivery'[e], x) => e = d
                               /\ ~Took(delivery'[e], x) /\ ~Took(delivery[e], x)
          BY <1>3, <3>1, <3>2, <5>1 DEF Has, Took
        <5> QED
          BY <1>3, <2>1, <2>3, <4>1, <5>1, <5>2 DEF Alone
      <4>3. CASE x # p /\ x # draft
        <5>1. \A e \in Slots : /\ Has(delivery'[e], x) <=> Has(delivery[e], x)
                               /\ Took(delivery'[e], x) <=> Took(delivery[e], x)
          BY <1>3, <3>1, <3>2, <4>3
        <5> QED
          BY <1>3, <2>1, <2>3, <4>1, <4>3, <5>1 DEF Alone
      <4> QED
        BY <4>2, <4>3
    <3> QED
      BY <3>3, <3>4, <3>5 DEF Follows
  <2>6. DispatchOK' /\ HistoryOK'
    BY <1>1, <1>2, <2>3, <2>4, QueueStays DEF HistoryOK
  <2>7. Shapes'
    BY <1>1, <2>1, <2>3, <2>4, <2>6 DEF Shapes, Texts
  <2> QED
    BY <2>5, <2>7 DEF PromptInv
<1> QED
  BY <1>6, <1>7, <1>8

(* The text of the composer is sent once the transcript is there, which is *)
(* loaded first.                                                           *)
LEMMA SendStep ==
  ASSUME PromptInv, NEW d \in Deliveries,
         SendActivePrompt(d) \/ TranscriptLoads(d) \/ TranscriptFails(d)
  PROVE  PromptInv'
<1>1. /\ DeliveryOK /\ HistoryOK /\ DispatchOK /\ TrailOK /\ draft \in Texts
      /\ d \in Slots /\ d # FromQueue
  BY PromptAssumption DEF PromptInv, Shapes, Slots
<1>2. CASE SendActivePrompt(d) /\ Submit(d, draft) /\ history' = history
  <2>1. At(d, "free") /\ draft \in Prompts /\ dispatch' = dispatch
    BY <1>1, <1>2 DEF SendActivePrompt, Texts
  <2> QED
    BY <1>2, <2>1, SubmitStep
<1>3. CASE TranscriptLoads(d)
  <2>1. At(d, "load") /\ history' = history /\ dispatch' = dispatch
    BY <1>3 DEF TranscriptLoads
  <2>2. delivery[d].prompt \in Prompts
    BY <1>1, <2>1 DEF DeliveryOK, RowOK, At
  <2>3. \/ Submit(d, delivery[d].prompt)
        \/ Free(d) /\ queue' = queue /\ draft' = draft /\ trail' = trail
    BY <1>3 DEF TranscriptLoads
  <2> QED
    BY <2>1, <2>2, <2>3, SubmitStep, DroppedStep
<1>4. CASE TranscriptFails(d)
  BY <1>4, DroppedStep DEF TranscriptFails
<1>5. CASE SendActivePrompt(d) /\ ~(Submit(d, draft) /\ history' = history)
  <2> DEFINE r == [NoDelivery EXCEPT !.kind = "draft", !.prompt = draft, !.at = "load",
                                    !.current = TRUE]
             s == StaleReads(delivery)
  <2>1. /\ At(d, "free") /\ draft \in Prompts /\ dispatch' = dispatch
        /\ draft' = draft /\ queue' = queue /\ history' = StaleHistory
        /\ delivery' = [s EXCEPT ![d] = r]
        /\ trail' = [trail EXCEPT !.kept = @ \cup StillShown]
    BY <1>1, <1>5 DEF SendActivePrompt, Texts
  <2>2. RowOK(r) /\ r.prompt = draft /\ r.kind = "draft" /\ r.at = "load" /\ r.original = NoPrompt
    BY <2>1, OtherRows
  <2>3. /\ DOMAIN s = Slots
        /\ \A e \in Slots : /\ RowOK(s[e]) /\ s[e].prompt = delivery[e].prompt
                            /\ s[e].kind = delivery[e].kind
                            /\ s[e].original = delivery[e].original /\ s[e].at = delivery[e].at
    BY <1>1, StaleStays
  <2> HIDE DEF r, s
  <2>4. DOMAIN delivery' = Slots /\ delivery'[d] = r /\ \A e \in Slots : e # d => delivery'[e] = s[e]
    BY <1>1, <2>1, <2>3
  <2>5. DeliveryOK' /\ \A e \in Slots : e # d => Same(e)
    BY <2>2, <2>3, <2>4 DEF DeliveryOK, Same
  <2>6. /\ TrailOK' /\ trail'.taken = trail.taken /\ trail'.kept = trail.kept \cup StillShown
        /\ trail'.answered = trail.answered /\ trail'.typed = trail.typed
        /\ trail'.gone = trail.gone
    BY <1>1, <2>1 DEF TrailOK
  <2>7. ASSUME NEW x \in Prompts PROVE Follows(x)'
    <3>1. /\ Follows(x) /\ x # NoPrompt /\ StillShown \subseteq {draft}
          /\ ~Has(delivery[d], x) /\ ~Sends(delivery[d], x) /\ ~Took(delivery[d], x)
      BY <1>1, <2>1, EarlyRow, PromptsAreSome DEF PromptInv, StillShown, At
    <3>2. /\ \A e \in Slots : e # d => /\ Has(delivery'[e], x) <=> Has(delivery[e], x)
                                       /\ Sends(delivery'[e], x) <=> Sends(delivery[e], x)
                                       /\ Took(delivery'[e], x) <=> Took(delivery[e], x)
                                       /\ delivery'[e].at = "load" <=> delivery[e].at = "load"
          /\ Has(delivery'[d], x) <=> x = draft
          /\ ~Sends(delivery'[d], x) /\ ~Took(delivery'[d], x) /\ delivery'[d].at = "load"
      <4>1. \A e \in Slots : e # d => /\ Has(delivery'[e], x) <=> Has(delivery[e], x)
                                      /\ Sends(delivery'[e], x) <=> Sends(delivery[e], x)
                                      /\ Took(delivery'[e], x) <=> Took(delivery[e], x)
                                      /\ delivery'[e].at = "load" <=> delivery[e].at = "load"
        BY <2>5, OthersFollow
      <4>2. /\ Has(delivery'[d], x) <=> x = draft
            /\ ~Sends(delivery'[d], x) /\ ~Took(delivery'[d], x) /\ delivery'[d].at = "load"
        BY <2>2, <2>4, <3>1 DEF Has, Sends, Took
      <4> QED
        BY <4>1, <4>2
    <3>3. Known(x)'
      BY <1>1, <2>1, <2>6, <3>1, <3>2 DEF Follows, Known
    <3>4. Remains(x)'
      BY <1>1, <2>1, <2>6, <3>1, <3>2 DEF Follows, Remains
    <3>5. ASSUME x \notin trail'.kept PROVE Alone(x)'
      <4>1. Alone(x) /\ x \notin StillShown
        BY <2>6, <3>1, <3>5 DEF Follows
      <4>2. CASE x = draft
        <5>1. \A e \in Slots : ~Has(delivery[e], x)
          BY <4>1, <4>2, ShownAlone
        <5>2. \A e \in Slots : /\ Has(delivery'[e], x) => e = d
                               /\ ~Took(delivery'[e], x) /\ ~Took(delivery[e], x)
          BY <3>1, <3>2, <5>1 DEF Has, Took
        <5>3. ~In(queue, x) /\ x \notin trail.answered
          BY <4>1, <4>2, ShownAlone
        <5> QED
          BY <2>1, <2>6, <3>2, <4>1, <5>2, <5>3 DEF Alone
      <4>3. CASE x # draft
        <5>1. \A e \in Slots : /\ Has(delivery'[e], x) <=> Has(delivery[e], x)
                               /\ Took(delivery'[e], x) <=> Took(delivery[e], x)
          BY <3>1, <3>2, <4>3
        <5> QED
          BY <2>1, <2>6, <4>1, <4>3, <5>1 DEF Alone
      <4> QED
        BY <4>2, <4>3
    <3> QED
      BY <3>3, <3>4, <3>5 DEF Follows
  <2>8. DispatchOK'
    BY <1>1, <2>1, <2>5, QueueStays
  <2>9. HistoryOK'
    BY <1>1, <2>1, <2>6 DEF HistoryOK, StaleHistory
  <2>10. Shapes'
    BY <1>1, <2>1, <2>5, <2>6, <2>8, <2>9 DEF PromptInv, Shapes
  <2> QED
    BY <2>7, <2>10 DEF PromptInv
<1> QED
  BY <1>2, <1>3, <1>4, <1>5

(* A delivery that is not of the draft begins with its prompt alone.       *)
LEMMA BegunFollows ==
  ASSUME DeliveryOK, draft \in Texts, NEW d \in Slots, NEW p \in Prompts, NEW k, k # "draft", NEW t,
         delivery' = [delivery EXCEPT ![d] = Begun(k, p, t)]
  PROVE  /\ DeliveryOK' /\ \A e \in Slots : e # d => Same(e)
         /\ \A x \in Prompts : /\ Has(delivery'[d], x) <=> x = p
                               /\ Sends(delivery'[d], x) <=> x = p
                               /\ ~Took(delivery'[d], x)
<1> DEFINE r == Begun(k, p, t)
<1>1. RowOK(r) /\ r.kind = k /\ r.prompt = p /\ r.at \notin {"free", "load", "taken"}
  BY BegunRow
<1> HIDE DEF r
<1>2. delivery' = [delivery EXCEPT ![d] = r]
  BY DEF r
<1>3. DeliveryOK' /\ delivery'[d] = r /\ \A e \in Slots : e # d => Same(e)
  BY <1>1, <1>2, OneMoves
<1> QED
  BY <1>1, <1>3 DEF Has, Sends, Took

(* A goal command is typed, and waits or is sent.                          *)
LEMMA GoalStep ==
  ASSUME PromptInv, NEW d \in Deliveries, NEW p \in Prompts, SendGoalCommand(d, p)
  PROVE  PromptInv'
<1>1. /\ DeliveryOK /\ HistoryOK /\ DispatchOK /\ TrailOK /\ draft \in Texts
      /\ queue \in Seq(Prompts) /\ d \in Slots /\ d # FromQueue
  BY PromptAssumption DEF PromptInv, Shapes, Slots
<1>2. /\ At(d, "free") /\ Fresh(p) /\ draft' = draft /\ history' = history /\ dispatch' = dispatch
      /\ trail' = [trail EXCEPT !.typed = @ \cup {p}]
  BY DEF SendGoalCommand
<1>3. /\ TrailOK' /\ trail'.taken = trail.taken /\ trail'.kept = trail.kept
      /\ trail'.answered = trail.answered /\ trail'.typed = trail.typed \cup {p}
      /\ trail'.gone = trail.gone
  BY <1>1, <1>2 DEF TrailOK
<1>4. HistoryOK'
  BY <1>1, <1>2, <1>3 DEF HistoryOK
<1>5. /\ ~In(queue, p) /\ draft # p /\ p \notin trail.answered /\ p \notin trail.kept
      /\ \A e \in Slots : ~Has(delivery[e], p) /\ ~Took(delivery[e], p)
      /\ Once(queue, p) /\ trail.taken[p] = 0
  BY <1>2, FreshIsNowhere DEF Has, Took
<1>6. CASE queue' = Append(queue, p) /\ delivery' = delivery
  <2>1. DeliveryOK' /\ DispatchOK'
    BY <1>1, <1>2, <1>6, AllStay, DispatchStays
  <2>2. /\ queue' \in Seq(Prompts)
        /\ \A x : In(queue', x) <=> In(queue, x) \/ x = p
        /\ \A x : Once(queue, x) => Once(queue', x)
    <3> DEFINE r == Append(queue, p)
    <3>1. /\ r \in Seq(Prompts)
          /\ \A x : In(r, x) <=> In(queue, x) \/ x = p
          /\ \A x : Once(queue, x) /\ (x = p => ~In(queue, x)) => Once(r, x)
      BY <1>1, Appended
    <3> HIDE DEF r
    <3>2. queue' = r
      BY <1>6 DEF r
    <3> QED
      BY <1>5, <3>1, <3>2
  <2>3. ASSUME NEW x \in Prompts PROVE Follows(x)'
    <3>1. Follows(x)
      BY DEF PromptInv
    <3>2. Known(x)'
      BY <1>2, <1>3, <1>6, <2>2, <3>1 DEF Follows, Known
    <3>3. Remains(x)'
      BY <1>2, <1>3, <1>6, <2>2, <3>1 DEF Follows, Remains
    <3>4. CASE x = p
      <4>1. Alone(x)'
        BY <1>2, <1>3, <1>5, <1>6, <2>2, <3>4 DEF Alone
      <4> QED
        BY <3>2, <3>3, <4>1 DEF Follows
    <3>5. CASE x # p
      <4>1. x \notin trail'.kept => Alone(x)'
        BY <1>2, <1>3, <1>6, <2>2, <3>1, <3>5 DEF Follows, Alone
      <4> QED
        BY <3>2, <3>3, <4>1 DEF Follows
    <3> QED
      BY <3>4, <3>5
  <2>4. Shapes'
    BY <1>1, <1>2, <1>3, <1>4, <2>1, <2>2 DEF Shapes
  <2> QED
    BY <2>3, <2>4 DEF PromptInv
<1>7. CASE queue' = queue /\ delivery' = [delivery EXCEPT ![d] = Begun("goal", p, summary)]
  <2>1. /\ DeliveryOK' /\ \A e \in Slots : e # d => Same(e)
        /\ \A x \in Prompts : /\ Has(delivery'[d], x) <=> x = p
                              /\ Sends(delivery'[d], x) <=> x = p
                              /\ ~Took(delivery'[d], x)
    BY <1>1, <1>7, BegunFollows DEF Texts
  <2>2. DispatchOK'
    BY <1>1, <1>2, <2>1, QueueStays
  <2>3. ASSUME NEW x \in Prompts PROVE Follows(x)'
    <3>1. /\ Follows(x)
          /\ ~Has(delivery[d], x) /\ ~Sends(delivery[d], x) /\ ~Took(delivery[d], x)
      BY <1>1, <1>2, EarlyRow DEF PromptInv, At
    <3>2. /\ \A e \in Slots : e # d => /\ Has(delivery'[e], x) <=> Has(delivery[e], x)
                                       /\ Sends(delivery'[e], x) <=> Sends(delivery[e], x)
                                       /\ Took(delivery'[e], x) <=> Took(delivery[e], x)
                                       /\ delivery'[e].at = "load" <=> delivery[e].at = "load"
      BY <2>1, OthersFollow
    <3>3. Known(x)'
      BY <1>1, <1>2, <1>3, <1>7, <2>1, <3>1, <3>2 DEF Follows, Known
    <3>4. Remains(x)'
      BY <1>1, <1>2, <1>3, <1>7, <2>1, <3>1, <3>2 DEF Follows, Remains
    <3>5. CASE x = p
      <4>1. \A e \in Slots : (Has(delivery'[e], x) => e = d) /\ ~Took(delivery'[e], x)
        BY <1>5, <2>1, <3>2, <3>5
      <4>2. Alone(x)'
        BY <1>2, <1>3, <1>5, <1>7, <3>5, <4>1 DEF Alone
      <4> QED
        BY <3>3, <3>4, <4>2 DEF Follows
    <3>6. CASE x # p
      <4>1. \A e \in Slots : /\ Has(delivery'[e], x) <=> Has(delivery[e], x)
                             /\ Took(delivery'[e], x) <=> Took(delivery[e], x)
                             /\ Has(delivery[e], x) =>
                                  (delivery'[e].at = "load" <=> delivery[e].at = "load")
        BY <2>1, <3>1, <3>2, <3>6
      <4>2. x \notin trail'.kept => Alone(x)'
        BY <1>2, <1>3, <1>7, <3>1, <3>6, <4>1 DEF Follows, Alone
      <4> QED
        BY <3>3, <3>4, <4>2 DEF Follows
    <3> QED
      BY <3>5, <3>6
  <2>4. Shapes'
    BY <1>1, <1>2, <1>3, <1>4, <1>7, <2>1, <2>2 DEF Shapes
  <2> QED
    BY <2>3, <2>4 DEF PromptInv
<1> QED
  BY <1>6, <1>7 DEF SendGoalCommand

(* A pending prompt is taken out of the queue and sent.                    *)
LEMMA DequeueStep ==
  ASSUME PromptInv, NEW d \in Slots, At(d, "free"), NEW i \in DOMAIN queue, NEW k, k # "draft",
         queue' = RemoveAt(queue, i), delivery' = [delivery EXCEPT ![d] = Begun(k, queue[i], summary)],
         draft' = draft, trail' = trail, history' = history,
         \/ dispatch' = dispatch /\ d # FromQueue
         \/ dispatch' = [at |-> "delivering", reload |-> 0]
  PROVE  PromptInv'
<1> DEFINE p == queue[i]
<1>1. /\ DeliveryOK /\ HistoryOK /\ DispatchOK /\ TrailOK /\ draft \in Texts
      /\ queue \in Seq(Prompts)
  BY DEF PromptInv, Shapes
<1>2. p \in Prompts /\ p \in Texts /\ In(queue, p)
  BY <1>1 DEF In, Texts
<1>3. /\ DeliveryOK' /\ \A e \in Slots : e # d => Same(e)
      /\ \A x \in Prompts : /\ Has(delivery'[d], x) <=> x = p
                            /\ Sends(delivery'[d], x) <=> x = p
                            /\ ~Took(delivery'[d], x)
  BY <1>1, <1>2, BegunFollows
<1>4. /\ queue' \in Seq(Prompts)
      /\ \A x : In(queue', x) => In(queue, x)
      /\ \A x : In(queue, x) /\ x # p => In(queue', x)
      /\ \A x : Once(queue, x) => Once(queue', x) /\ ~(x = p /\ In(queue', x))
  BY <1>1, Removed
<1> HIDE DEF p
<1>5. ASSUME NEW x \in Prompts PROVE Follows(x)'
  <2>1. /\ Follows(x)
        /\ ~Has(delivery[d], x) /\ ~Sends(delivery[d], x) /\ ~Took(delivery[d], x)
    BY <1>1, EarlyRow DEF PromptInv, At
  <2>2. /\ \A e \in Slots : e # d => /\ Has(delivery'[e], x) <=> Has(delivery[e], x)
                                     /\ Sends(delivery'[e], x) <=> Sends(delivery[e], x)
                                     /\ Took(delivery'[e], x) <=> Took(delivery[e], x)
                                     /\ delivery'[e].at = "load" <=> delivery[e].at = "load"
    BY <1>3, OthersFollow
  <2>3. Known(x)'
    BY <1>2, <1>3, <1>4, <2>1, <2>2 DEF Follows, Known
  <2>4. Remains(x)'
    BY <1>2, <1>3, <1>4, <2>1, <2>2 DEF Follows, Remains
  <2>5. CASE x = p
    <3>1. ASSUME Alone(x) PROVE Alone(x)'
      <4>1. /\ draft # x /\ x \notin trail.answered
            /\ \A e \in Slots : ~Has(delivery[e], x) /\ ~Took(delivery[e], x)
        BY <1>2, <2>5, <3>1 DEF Alone, Has, Took
      <4>2. \A e \in Slots : (Has(delivery'[e], x) => e = d) /\ ~Took(delivery'[e], x)
        BY <1>3, <2>2, <4>1
      <4>3. ~In(queue', x) /\ Once(queue', x)
        BY <1>4, <2>5, <3>1 DEF Alone
      <4> QED
        BY <3>1, <4>1, <4>2, <4>3 DEF Alone
    <3> QED
      BY <2>1, <2>3, <2>4, <3>1 DEF Follows
  <2>6. CASE x # p
    <3>1. \A e \in Slots : /\ Has(delivery'[e], x) <=> Has(delivery[e], x)
                           /\ Took(delivery'[e], x) <=> Took(delivery[e], x)
                           /\ Has(delivery[e], x) =>
                                (delivery'[e].at = "load" <=> delivery[e].at = "load")
      BY <1>3, <2>1, <2>2, <2>6
    <3>2. x \notin trail'.kept => Alone(x)'
      BY <1>4, <2>1, <2>6, <3>1 DEF Follows, Alone
    <3> QED
      BY <2>3, <2>4, <3>2 DEF Follows
  <2> QED
    BY <2>5, <2>6
<1>6. DispatchOK'
  <2>1. CASE dispatch' = dispatch /\ d # FromQueue
    BY <1>1, <1>3, <2>1, QueueStays
  <2>2. CASE dispatch' = [at |-> "delivering", reload |-> 0]
    BY <2>2 DEF DispatchOK
  <2> QED
    BY <2>1, <2>2
<1>7. HistoryOK' /\ TrailOK'
  BY <1>1 DEF HistoryOK, TrailOK
<1>8. Shapes'
  BY <1>1, <1>3, <1>4, <1>6, <1>7 DEF Shapes
<1> QED
  BY <1>5, <1>8 DEF PromptInv

(* The user steers with one, or the dispatch takes the first.              *)
LEMMA QueueStep ==
  ASSUME PromptInv,
         \/ \E d \in Deliveries, p \in Prompts : SteerPendingPrompt(d, p)
         \/ DispatchShift
  PROVE  PromptInv'
<1>1. DeliveryOK /\ HistoryOK /\ DispatchOK /\ queue \in Seq(Prompts)
  BY DEF PromptInv, Shapes
<1>2. CASE \E d \in Deliveries, p \in Prompts : SteerPendingPrompt(d, p)
  <2> PICK d \in Deliveries, p \in Prompts : SteerPendingPrompt(d, p)
    BY <1>2
  <2>1. d \in Slots /\ d # FromQueue
    BY PromptAssumption DEF Slots
  <2>2. PICK i \in DOMAIN queue : queue[i] = p /\ queue' = RemoveAt(queue, i)
    BY DEF SteerPendingPrompt, Dequeued
  <2>3. /\ At(d, "free") /\ delivery' = [delivery EXCEPT ![d] = Begun("steer", queue[i], summary)]
        /\ draft' = draft /\ trail' = trail /\ history' = history /\ dispatch' = dispatch
    BY <2>2 DEF SteerPendingPrompt
  <2> QED
    BY <2>1, <2>2, <2>3, DequeueStep
<1>3. CASE DispatchShift /\ MayDispatch
  <2>1. FromQueue \in Slots /\ At(FromQueue, "free")
    BY <1>1, <1>3 DEF DispatchShift, DispatchOK, Slots
  <2>2. 1 \in DOMAIN queue /\ Tail(queue) = RemoveAt(queue, 1) /\ Head(queue) = queue[1]
    BY <1>1, <1>3, TailRemoves DEF MayDispatch
  <2>3. /\ queue' = RemoveAt(queue, 1)
        /\ delivery' = [delivery EXCEPT ![FromQueue] = Begun("queue", queue[1], summary)]
        /\ dispatch' = [at |-> "delivering", reload |-> 0]
        /\ draft' = draft /\ trail' = trail /\ history' = history
    BY <1>3, <2>2 DEF DispatchShift, Rest
  <2> QED
    BY <2>1, <2>2, <2>3, DequeueStep
<1>4. CASE DispatchShift /\ ~MayDispatch
  <2>1. /\ dispatch' = [at |-> "next", reload |-> 0] /\ delivery' = delivery /\ queue' = queue
        /\ draft' = draft /\ trail' = trail /\ history' = history /\ dispatch.at = "shift"
    BY <1>4 DEF DispatchShift
  <2>2. DispatchOK'
    BY <1>1, <2>1 DEF DispatchOK, At
  <2> QED
    BY <1>1, <2>1, <2>2, AllStay, HistoryStays, NothingMoves
<1> QED
  BY <1>2, <1>3, <1>4

(* A replay delivers its text once the transcript is read again.           *)
LEMMA ReplayEndsStep ==
  ASSUME PromptInv, NEW d \in Deliveries, HistoryEnds(d)
  PROVE  PromptInv'
<1>1. /\ DeliveryOK /\ HistoryOK /\ DispatchOK /\ TrailOK /\ draft \in Texts
      /\ queue \in Seq(Prompts) /\ d \in Slots /\ d # FromQueue
  BY PromptAssumption DEF PromptInv, Shapes, Slots
<1>2. /\ At(d, "free") /\ history.at = "reload" /\ history' = NoHistory
      /\ draft' = draft /\ queue' = queue /\ trail' = trail /\ dispatch' = dispatch
  BY DEF HistoryEnds
<1>3. HistoryOK' /\ TrailOK'
  BY <1>1, <1>2, HistoryStays DEF TrailOK
<1>4. CASE delivery' = delivery
  BY <1>1, <1>2, <1>3, <1>4, AllStay, DispatchStays, NothingMoves
<1>5. CASE history.kind = "replay"
           /\ delivery' = [delivery EXCEPT ![d] = Begun("replay", history.prompt, summary')]
  <2> DEFINE p == history.prompt
  <2>1. p \in Prompts /\ p \in trail.kept /\ p \in Texts
    BY <1>1, <1>2, <1>5 DEF HistoryOK, Texts
  <2>2. /\ DeliveryOK' /\ \A e \in Slots : e # d => Same(e)
        /\ \A x \in Prompts : /\ Has(delivery'[d], x) <=> x = p
                              /\ Sends(delivery'[d], x) <=> x = p
                              /\ ~Took(delivery'[d], x)
    BY <1>1, <1>5, <2>1, BegunFollows
  <2> HIDE DEF p
  <2>3. DispatchOK'
    BY <1>1, <1>2, <2>2, QueueStays
  <2>4. ASSUME NEW x \in Prompts PROVE Follows(x)'
    <3>1. /\ Follows(x)
          /\ ~Has(delivery[d], x) /\ ~Sends(delivery[d], x) /\ ~Took(delivery[d], x)
      BY <1>1, <1>2, EarlyRow DEF PromptInv, At
    <3>2. /\ \A e \in Slots : e # d => /\ Has(delivery'[e], x) <=> Has(delivery[e], x)
                                       /\ Sends(delivery'[e], x) <=> Sends(delivery[e], x)
                                       /\ Took(delivery'[e], x) <=> Took(delivery[e], x)
                                       /\ delivery'[e].at = "load" <=> delivery[e].at = "load"
      BY <2>2, OthersFollow
    <3>3. Known(x)'
      BY <1>2, <2>1, <2>2, <3>1, <3>2 DEF Follows, Known
    <3>4. Remains(x)'
      BY <1>2, <2>2, <3>1, <3>2 DEF Follows, Remains
    <3>5. ASSUME x \notin trail'.kept PROVE Alone(x)'
      <4>1. x # p /\ Alone(x)
        BY <1>2, <2>1, <3>1, <3>5 DEF Follows
      <4>2. \A e \in Slots : /\ Has(delivery'[e], x) <=> Has(delivery[e], x)
                             /\ Took(delivery'[e], x) <=> Took(delivery[e], x)
                             /\ Has(delivery[e], x) =>
                                  (delivery'[e].at = "load" <=> delivery[e].at = "load")
        BY <2>2, <3>1, <3>2, <4>1
      <4> QED
        BY <1>2, <4>1, <4>2 DEF Alone
    <3> QED
      BY <3>3, <3>4, <3>5 DEF Follows
  <2>5. Shapes'
    BY <1>1, <1>2, <1>3, <2>2, <2>3 DEF Shapes
  <2> QED
    BY <2>4, <2>5 DEF PromptInv
<1> QED
  BY <1>4, <1>5 DEF HistoryEnds

(* Pi takes the prompt of a delivery, or the store is told that it failed. *)
LEMMA HandedStep ==
  ASSUME PromptInv, NEW d \in Slots, NEW x, NEW v, Moves(d, x),
         \/ At(d, "call") /\ x = "taken" /\ v = trail.taken[delivery[d].prompt] + 1
         \/ At(d, "taken") /\ x = "failed" /\ v = trail.taken[delivery[d].prompt] - 1,
         trail' = [trail EXCEPT !.taken = [trail.taken EXCEPT ![delivery[d].prompt] = v]],
         queue' = queue, draft' = draft, history' = history, dispatch' = dispatch
  PROVE  PromptInv'
<1> DEFINE p == delivery[d].prompt
           r == [delivery[d] EXCEPT !.at = x]
<1>1. /\ DeliveryOK /\ HistoryOK /\ DispatchOK /\ TrailOK /\ RowOK(delivery[d])
      /\ x \notin {"free", "load"} /\ delivery[d].at \notin {"free", "load"}
  BY DEF PromptInv, Shapes, DeliveryOK, At
<1>2. /\ RowOK(r) /\ r.prompt = delivery[d].prompt /\ r.kind = delivery[d].kind
      /\ r.original = delivery[d].original /\ r.at = x
  BY <1>1, AtPlace
<1>3. delivery' = [delivery EXCEPT ![d] = r]
  BY DEF Moves
<1> HIDE DEF r
<1>4. /\ DeliveryOK' /\ delivery'[d] = r
      /\ \A e \in Slots : e # d => delivery'[e] = delivery[e] /\ Same(e)
  BY <1>1, <1>2, <1>3, OneMoves
<1>5. /\ TrailOK' /\ trail'.kept = trail.kept /\ trail'.answered = trail.answered
      /\ trail'.typed = trail.typed /\ trail'.gone = trail.gone
      /\ \A q \in Prompts : trail'.taken[q] = IF q = p THEN v ELSE trail.taken[q]
  BY <1>1 DEF TrailOK
<1>6. DispatchOK'
  <2>1. CASE d = FromQueue
    BY <1>1, <2>1 DEF DispatchOK, At
  <2>2. CASE d # FromQueue
    BY <1>1, <1>4, <2>2, QueueStays
  <2> QED
    BY <2>1, <2>2
<1>7. HistoryOK'
  BY <1>1, <1>5 DEF HistoryOK
<1>8. ASSUME NEW q \in Prompts PROVE Follows(q)'
  <2>1. Follows(q)
    BY DEF PromptInv
  <2>2. \A e \in Slots : /\ Has(delivery'[e], q) <=> Has(delivery[e], q)
                         /\ Sends(delivery'[e], q) <=> Sends(delivery[e], q)
                         /\ e # d => (Took(delivery'[e], q) <=> Took(delivery[e], q))
                         /\ delivery'[e].at = "load" <=> delivery[e].at = "load"
    BY <1>1, <1>2, <1>4 DEF Has, Sends, Took
  <2>3. /\ Took(delivery[d], q) <=> delivery[d].at = "taken" /\ q = p
        /\ Took(delivery'[d], q) <=> x = "taken" /\ q = p
    BY <1>2, <1>4 DEF Took
  <2>4. Known(q)'
    BY <1>5, <2>1, <2>2 DEF Follows, Known
  <2>5. Remains(q)'
    BY <1>5, <2>1, <2>2 DEF Follows, Remains
  <2>6. ASSUME q \notin trail'.kept PROVE Alone(q)'
    <3>1. Alone(q)
      BY <1>5, <2>1, <2>6 DEF Follows
    <3>2. trail'.taken[q] = IF q \in trail'.answered \/ \E e \in Slots : Took(delivery'[e], q)
                            THEN 1 ELSE 0
      <4>1. CASE q # p
        BY <1>5, <2>2, <2>3, <3>1, <4>1 DEF Alone
      <4>2. CASE q = p
        <5>1. Has(delivery[d], q)
          BY <4>2 DEF Has
        <5>2. q \notin trail.answered /\ \A e \in Slots : e # d => ~Took(delivery[e], q)
          BY <3>1, <5>1 DEF Alone, Has, Took
        <5>3. CASE At(d, "call") /\ x = "taken" /\ v = trail.taken[p] + 1
          <6>1. trail.taken[q] = 0
            BY <2>3, <3>1, <5>2, <5>3 DEF Alone, At
          <6>2. v = 1
            BY <4>2, <5>3, <6>1
          <6> QED
            BY <1>5, <2>3, <4>2, <5>3, <6>2
        <5>4. CASE At(d, "taken") /\ x = "failed" /\ v = trail.taken[p] - 1
          <6>1. trail.taken[q] = 1
            BY <2>3, <3>1, <4>2, <5>4 DEF Alone, At
          <6>2. v = 0
            BY <4>2, <5>4, <6>1
          <6>3. \A e \in Slots : ~Took(delivery'[e], q)
            BY <2>2, <2>3, <5>2, <5>4
          <6> QED
            BY <1>5, <4>2, <5>2, <6>2, <6>3
        <5> QED
          BY <5>3, <5>4
      <4> QED
        BY <4>1, <4>2
    <3> QED
      BY <1>5, <2>2, <3>1, <3>2 DEF Alone
  <2> QED
    BY <2>4, <2>5, <2>6 DEF Follows
<1>9. Shapes'
  BY <1>4, <1>5, <1>6, <1>7 DEF PromptInv, Shapes
<1> QED
  BY <1>8, <1>9 DEF PromptInv

(* The two steps of a delivery at which Pi has the prompt (sendPrompt).    *)
LEMMA TakenStep ==
  ASSUME PromptInv, \E d \in Slots : PiTakes(d) \/ (SendFails(d) /\ At(d, "taken"))
  PROVE  PromptInv'
<1> PICK d \in Slots : PiTakes(d) \/ (SendFails(d) /\ At(d, "taken"))
  OBVIOUS
<1>1. TrailOK
  BY DEF PromptInv, Shapes
<1>2. CASE PiTakes(d)
  <2>1. trail' = [trail EXCEPT !.taken = [trail.taken EXCEPT ![delivery[d].prompt] =
                                            trail.taken[delivery[d].prompt] + 1]]
    BY <1>1, <1>2 DEF PiTakes, TrailOK
  <2> QED
    BY <1>2, <2>1, HandedStep DEF PiTakes
<1>3. CASE SendFails(d) /\ At(d, "taken")
  <2>1. trail' = [trail EXCEPT !.taken = [trail.taken EXCEPT ![delivery[d].prompt] =
                                            trail.taken[delivery[d].prompt] - 1]]
    BY <1>1, <1>3 DEF SendFails, TrailOK
  <2> QED
    BY <1>3, <2>1, HandedStep DEF SendFails
<1> QED
  BY <1>2, <1>3

(* A scheduled task whose thinking level is set sends its prompt.          *)
LEMMA TaskStep == ASSUME PromptInv, NEW d \in Deliveries, TaskSettled(d) PROVE PromptInv'
<1> DEFINE p == delivery[d].prompt
<1>1. /\ DeliveryOK /\ HistoryOK /\ DispatchOK /\ TrailOK /\ draft \in Texts
      /\ queue \in Seq(Prompts) /\ d \in Slots /\ d # FromQueue
  BY PromptAssumption DEF PromptInv, Shapes, Slots
<1>2. /\ delivery[d].at = "task level" /\ p \in Prompts
      /\ delivery' = [delivery EXCEPT ![d] = Begun("task", p, summary)]
      /\ draft' = draft /\ queue' = queue /\ trail' = trail /\ dispatch' = dispatch
      /\ history' = history
  BY <1>1 DEF TaskSettled, At, DeliveryOK, RowOK
<1>3. /\ DeliveryOK' /\ \A e \in Slots : e # d => Same(e)
      /\ \A x \in Prompts : /\ Has(delivery'[d], x) <=> x = p
                            /\ Sends(delivery'[d], x) <=> x = p
                            /\ ~Took(delivery'[d], x)
  BY <1>1, <1>2, BegunFollows
<1>4. \A x : /\ Sends(delivery[d], x) <=> x = p
             /\ x = p => Has(delivery[d], x)
             /\ ~Took(delivery[d], x)
  BY <1>2 DEF Sends, Has, Took
<1> HIDE DEF p
<1>5. DispatchOK' /\ HistoryOK' /\ TrailOK'
  BY <1>1, <1>2, <1>3, QueueStays DEF HistoryOK, TrailOK
<1>6. ASSUME NEW x \in Prompts PROVE Follows(x)'
  <2>1. Follows(x)
    BY DEF PromptInv
  <2>2. /\ \A e \in Slots : e # d => /\ Has(delivery'[e], x) <=> Has(delivery[e], x)
                                     /\ Sends(delivery'[e], x) <=> Sends(delivery[e], x)
                                     /\ Took(delivery'[e], x) <=> Took(delivery[e], x)
                                     /\ delivery'[e].at = "load" <=> delivery[e].at = "load"
    BY <1>3, OthersFollow
  <2>3. Known(x)'
    BY <1>1, <1>2, <1>3, <1>4, <2>1, <2>2 DEF Follows, Known
  <2>4. Remains(x)'
    BY <1>1, <1>2, <1>3, <1>4, <2>1, <2>2 DEF Follows, Remains
  <2>5. ASSUME x \notin trail'.kept PROVE Alone(x)'
    <3>1. Alone(x)
      BY <1>2, <2>1, <2>5 DEF Follows
    <3>2. \A e \in Slots : /\ Has(delivery'[e], x) => Has(delivery[e], x)
                           /\ Took(delivery'[e], x) <=> Took(delivery[e], x)
                           /\ e # d => (delivery'[e].at = "load" <=> delivery[e].at = "load")
      BY <1>3, <1>4, <2>2
    <3>3. draft = x => ~Has(delivery[d], x)
      BY <1>1, <1>2, <3>1 DEF Alone
    <3> QED
      BY <1>2, <3>1, <3>2, <3>3 DEF Alone
  <2> QED
    BY <2>3, <2>4, <2>5 DEF Follows
<1>7. Shapes'
  BY <1>1, <1>2, <1>3, <1>5 DEF Shapes
<1> QED
  BY <1>6, <1>7 DEF PromptInv

(* A delivery is over: what becomes of the dispatch.                       *)
LEMMA OverRow ==
  ASSUME DeliveryOK, DispatchOK, NEW d \in Slots, Free(d), DispatchGoesOn(d)
  PROVE  /\ DeliveryOK' /\ DispatchOK' /\ delivery'[d] = NoDelivery
         /\ \A e \in Slots : e # d => delivery'[e] = delivery[e] /\ Same(e)
<1>1. /\ DeliveryOK' /\ delivery'[d] = NoDelivery
      /\ \A e \in Slots : e # d => delivery'[e] = delivery[e] /\ Same(e)
  BY OneMoves, OtherRows DEF Free
<1>2. CASE d = FromQueue
  BY <1>1, <1>2, OtherRows DEF DispatchGoesOn, DispatchOK, At
<1>3. CASE d # FromQueue
  BY <1>1, <1>3, QueueStays DEF DispatchGoesOn
<1> QED
  BY <1>1, <1>2, <1>3

(* The host has accepted the prompt of a delivery.                         *)
LEMMA SentStep == ASSUME PromptInv, NEW d \in Slots, PromptSent(d) PROVE PromptInv'
<1> DEFINE p == delivery[d].prompt
<1>1. /\ DeliveryOK /\ HistoryOK /\ DispatchOK /\ TrailOK /\ draft \in Texts
      /\ queue \in Seq(Prompts)
  BY DEF PromptInv, Shapes
<1>2. /\ delivery[d].at = "taken" /\ queue' = queue /\ history' = history
      /\ trail' = [trail EXCEPT !.answered = @ \cup {p}]
      /\ draft' = draft \/ (draft = p /\ draft' = NoPrompt)
  BY DEF PromptSent, At
<1>3. /\ DeliveryOK' /\ DispatchOK' /\ delivery'[d] = NoDelivery
      /\ \A e \in Slots : e # d => delivery'[e] = delivery[e] /\ Same(e)
  BY <1>1, OverRow DEF PromptSent
<1>4. /\ TrailOK' /\ trail'.taken = trail.taken /\ trail'.kept = trail.kept
      /\ trail'.answered = trail.answered \cup {p} /\ trail'.typed = trail.typed
      /\ trail'.gone = trail.gone
  BY <1>1, <1>2 DEF TrailOK
<1>5. HistoryOK' /\ draft' \in Texts
  BY <1>1, <1>2, <1>4 DEF HistoryOK, Texts
<1>6. \A x : /\ Sends(delivery[d], x) <=> x = p
             /\ Took(delivery[d], x) <=> x = p
             /\ x = p => Has(delivery[d], x)
  BY <1>2 DEF Sends, Has, Took
<1> HIDE DEF p
<1>7. ASSUME NEW x \in Prompts PROVE Follows(x)'
  <2>1. Follows(x) /\ x # NoPrompt
    BY PromptsAreSome DEF PromptInv
  <2>2. /\ \A e \in Slots : e # d => /\ Has(delivery'[e], x) <=> Has(delivery[e], x)
                                     /\ Sends(delivery'[e], x) <=> Sends(delivery[e], x)
                                     /\ Took(delivery'[e], x) <=> Took(delivery[e], x)
                                     /\ delivery'[e].at = "load" <=> delivery[e].at = "load"
        /\ ~Has(delivery'[d], x) /\ ~Sends(delivery'[d], x) /\ ~Took(delivery'[d], x)
    BY <1>3, OthersFollow, FreeRow
  <2>3. draft' = x => draft = x
    BY <1>2, <2>1
  <2>4. Known(x)'
    BY <1>2, <1>4, <1>6, <2>1, <2>2, <2>3 DEF Follows, Known
  <2>5. Remains(x)'
    BY <1>2, <1>4, <1>6, <2>1, <2>2 DEF Follows, Remains
  <2>6. ASSUME x \notin trail'.kept PROVE Alone(x)'
    <3>1. Alone(x)
      BY <1>4, <2>1, <2>6 DEF Follows
    <3>2. CASE x = p
      <4>1. /\ Has(delivery[d], x) /\ Took(delivery[d], x)
        BY <1>6, <3>2
      <4>2. /\ x # draft /\ ~In(queue, x) /\ trail.taken[x] = 1
            /\ \A e \in Slots : ~Has(delivery'[e], x)
        BY <1>2, <2>2, <3>1, <4>1 DEF Alone
      <4> QED
        BY <1>2, <1>4, <2>3, <3>1, <3>2, <4>2 DEF Alone
    <3>3. CASE x # p
      <4>1. \A e \in Slots : /\ Has(delivery'[e], x) => Has(delivery[e], x)
                             /\ Took(delivery'[e], x) <=> Took(delivery[e], x)
                             /\ Has(delivery'[e], x) =>
                                  (delivery'[e].at = "load" <=> delivery[e].at = "load")
        BY <1>6, <2>2, <3>3
      <4> QED
        BY <1>2, <1>4, <2>3, <3>1, <3>3, <4>1 DEF Alone
    <3> QED
      BY <3>2, <3>3
  <2> QED
    BY <2>4, <2>5, <2>6 DEF Follows
<1>8. Shapes'
  BY <1>1, <1>2, <1>3, <1>4, <1>5 DEF Shapes
<1> QED
  BY <1>7, <1>8 DEF PromptInv

(* A prompt that was not delivered goes back where it came from, or is     *)
(* gone.                                                                   *)
LEMMA BackStep == ASSUME PromptInv, NEW d \in Slots, Undelivered(d) PROVE PromptInv'
<1> DEFINE p == delivery[d].prompt
           k == delivery[d].kind
           o == delivery[d].original
           Queues == k \in {"queue", "steer"} /\ summary.exists
           Back == k = "draft" /\ draft = NoPrompt
           Ends == k = "task" /\ summary.exists /\ ~summary.started
           Stays == /\ summary.exists
                    /\ \/ k \in {"queue", "steer"}
                       \/ Back /\ ~(At(d, "failed") \/ k = "task") /\ o = p
<1>1. /\ DeliveryOK /\ HistoryOK /\ DispatchOK /\ TrailOK /\ draft \in Texts
      /\ queue \in Seq(Prompts)
  BY DEF PromptInv, Shapes
<1>2. /\ delivery[d].at \in {"failed", "refused"} /\ history' = history
      /\ queue' = (IF Ends THEN <<>> ELSE PutBack(d))
      /\ draft' = (IF Ends THEN NoPrompt ELSE IF Back THEN o ELSE draft)
      /\ trail' = [trail EXCEPT !.gone = @ \cup (IF Ends THEN InComposer ELSE {})
                                           \cup (IF Stays THEN {} ELSE {p})]
  BY DEF Undelivered
<1>3. p \in Prompts /\ o \in Texts
  BY <1>1, <1>2 DEF DeliveryOK, RowOK
<1>4. /\ DeliveryOK' /\ DispatchOK' /\ delivery'[d] = NoDelivery
      /\ \A e \in Slots : e # d => delivery'[e] = delivery[e] /\ Same(e)
  BY <1>1, OverRow DEF Undelivered
<1>5. /\ TrailOK' /\ trail'.taken = trail.taken /\ trail'.kept = trail.kept
      /\ trail'.answered = trail.answered /\ trail'.typed = trail.typed
      /\ trail'.gone = trail.gone \cup (IF Ends THEN InComposer ELSE {})
                                  \cup (IF Stays THEN {} ELSE {p})
  BY <1>1, <1>2 DEF TrailOK
<1>6. HistoryOK' /\ draft' \in Texts
  BY <1>1, <1>2, <1>3, <1>5 DEF HistoryOK, Texts
<1>7. \A x : /\ Sends(delivery[d], x) <=> x = p
             /\ Has(delivery[d], x) <=> x = p \/ (k = "draft" /\ o = x)
             /\ ~Took(delivery[d], x)
  BY <1>2 DEF Sends, Has, Took
<1>8. /\ queue' \in Seq(Prompts)
      /\ \A x : In(queue', x) => In(queue, x) \/ (x = p /\ Queues)
      /\ Queues => In(queue', p)
      /\ \A x : Once(queue, x) /\ (x = p => ~In(queue, x)) => Once(queue', x)
      /\ \A x : In(queue, x) /\ ~Ends => In(queue', x)
  <2>1. CASE Ends
    <3>1. queue' = <<>> /\ DOMAIN queue' = {} /\ ~Queues
      BY <1>2, <2>1
    <3> QED
      BY <2>1, <3>1 DEF In, Once
  <2>2. CASE ~Ends /\ Queues
    <3> DEFINE r == <<p>> \o queue
    <3>1. /\ r \in Seq(Prompts)
          /\ \A x : In(r, x) <=> In(queue, x) \/ x = p
          /\ \A x : Once(queue, x) /\ (x = p => ~In(queue, x)) => Once(r, x)
      BY <1>1, <1>3, Prepended
    <3>2. queue' = r
      BY <1>2, <2>2 DEF PutBack
    <3> HIDE DEF r, p, k, o
    <3> QED
      BY <2>2, <3>1, <3>2
  <2>3. CASE ~Ends /\ ~Queues
    <3>1. queue' = queue
      BY <1>2, <2>3 DEF PutBack
    <3> HIDE DEF p, k, o
    <3> QED
      BY <1>1, <2>3, <3>1
  <2> QED
    BY <2>1, <2>2, <2>3
<1>9. /\ \A x \in Prompts : draft' = x => draft = x \/ (k = "draft" /\ o = x)
      /\ \A x \in Prompts : draft = x /\ ~Ends => draft' = x
      /\ Stays /\ ~Queues => draft' = p
      /\ Queues => k # "draft"
  BY <1>2, PromptsAreSome
<1>10. \A x \in Prompts : Ends /\ (In(queue, x) \/ draft = x) => x \in trail'.gone
  <2> SUFFICES ASSUME NEW x \in Prompts, Ends, In(queue, x) \/ draft = x PROVE x \in InComposer
    BY <1>5
  <2>1. x # NoPrompt
    BY PromptsAreSome
  <2> QED
    BY <2>1 DEF In, InComposer, ToSet
<1>11. /\ trail.gone \subseteq trail'.gone
       /\ In(queue', p) \/ draft' = p \/ p \in trail'.gone
  <2>1. Stays => In(queue', p) \/ draft' = p
    BY <1>8, <1>9
  <2>2. ~Stays => p \in trail'.gone
    BY <1>5
  <2> QED
    BY <1>5, <2>1, <2>2
<1> HIDE DEF p, k, o, Queues, Back, Ends, Stays
<1>12. ASSUME NEW x \in Prompts PROVE Follows(x)'
  <2>1. Follows(x)
    BY DEF PromptInv
  <2>2. /\ \A e \in Slots : e # d => /\ Has(delivery'[e], x) <=> Has(delivery[e], x)
                                     /\ Sends(delivery'[e], x) <=> Sends(delivery[e], x)
                                     /\ Took(delivery'[e], x) <=> Took(delivery[e], x)
                                     /\ delivery'[e].at = "load" <=> delivery[e].at = "load"
        /\ ~Has(delivery'[d], x) /\ ~Sends(delivery'[d], x) /\ ~Took(delivery'[d], x)
    BY <1>4, OthersFollow, FreeRow
  <2>3. Known(x)'
    BY <1>5, <1>7, <1>8, <1>9, <2>1, <2>2 DEF Follows, Known
  <2>4. Remains(x)'
    BY <1>5, <1>7, <1>8, <1>9, <1>10, <1>11, <2>1, <2>2 DEF Follows, Remains
  <2>5. ASSUME x \notin trail'.kept PROVE Alone(x)'
    <3>1. Alone(x)
      BY <1>5, <2>1, <2>5 DEF Follows
    <3>2. CASE Has(delivery[d], x)
      <4>1. /\ ~In(queue, x) /\ draft # x /\ x \notin trail.answered
            /\ \A e \in Slots : ~Has(delivery'[e], x) /\ ~Took(delivery[e], x)
        BY <1>2, <1>7, <2>2, <3>1, <3>2 DEF Alone, Has, Took
      <4>2. /\ Once(queue', x) /\ (draft' = x => ~In(queue', x))
            /\ trail.taken[x] = 0
        BY <1>7, <1>8, <1>9, <3>1, <4>1 DEF Alone
      <4>3. \A e \in Slots : ~Took(delivery'[e], x)
        BY <2>2, <4>1
      <4> QED
        BY <1>5, <4>1, <4>2, <4>3 DEF Alone
    <3>3. CASE ~Has(delivery[d], x)
      <4>1. /\ In(queue', x) => In(queue, x)
            /\ Once(queue', x)
            /\ draft' = x => draft = x
        BY <1>7, <1>8, <1>9, <3>1, <3>3 DEF Alone
      <4>2. \A e \in Slots : /\ Has(delivery'[e], x) => Has(delivery[e], x)
                             /\ Took(delivery'[e], x) <=> Took(delivery[e], x)
                             /\ Has(delivery'[e], x) =>
                                  (delivery'[e].at = "load" <=> delivery[e].at = "load")
        BY <1>7, <2>2
      <4> QED
        BY <1>5, <3>1, <4>1, <4>2 DEF Alone
    <3> QED
      BY <3>2, <3>3
  <2> QED
    BY <2>3, <2>4, <2>5 DEF Follows
<1>13. Shapes'
  BY <1>4, <1>5, <1>6, <1>8 DEF Shapes
<1> QED
  BY <1>12, <1>13 DEF PromptInv

-----------------------------------------------------------------------------
(* A new task has no prompt, or the one it was scheduled with.             *)
LEMMA InitFollows == PromptInit => PromptInv
<1> SUFFICES ASSUME PromptInit PROVE PromptInv
  OBVIOUS
<1>1. /\ draft = NoPrompt /\ queue = <<>> /\ dispatch = [at |-> "none", reload |-> 0]
      /\ history = NoHistory
  BY DEF PromptInit
<1>2. /\ queue \in Seq(Prompts) /\ draft \in Texts /\ HistoryOK /\ FromQueue \in Slots
      /\ \A x : ~In(queue, x) /\ Once(queue, x)
  <2>1. DOMAIN <<>> = {}
    OBVIOUS
  <2> QED
    BY <1>1, <2>1 DEF HistoryOK, NoHistory, In, Once, Texts, Slots
<1>3. CASE delivery = [d \in Slots |-> NoDelivery] /\ trail = NoTrail
  <2>1. Shapes
    BY <1>1, <1>2, <1>3, OtherRows DEF Shapes, DeliveryOK, TrailOK, NoTrail, DispatchOK, At
  <2>2. ASSUME NEW x \in Prompts PROVE Follows(x)
    <3>1. \A d \in Slots : /\ ~Has(delivery[d], x) /\ ~Sends(delivery[d], x)
                           /\ ~Took(delivery[d], x)
      BY <1>3, FreeRow
    <3>2. /\ trail.typed = {} /\ trail.answered = {} /\ trail.kept = {} /\ trail.taken[x] = 0
          /\ draft # x
      BY <1>1, <1>3, PromptsAreSome DEF NoTrail
    <3> QED
      BY <1>2, <3>1, <3>2 DEF Follows, Known, Remains, Alone
  <2> QED
    BY <2>1, <2>2 DEF PromptInv
<1>4. ASSUME NEW d \in Deliveries, NEW p \in Prompts,
             delivery = [x \in Slots |-> IF x # d THEN NoDelivery
               ELSE [NoDelivery EXCEPT !.kind = "task", !.prompt = p, !.at = "task"]],
             trail = [NoTrail EXCEPT !.typed = {p}]
      PROVE  PromptInv
  <2>1. d \in Slots /\ d # FromQueue
    BY PromptAssumption DEF Slots
  <2>2. /\ \A e \in Slots : e # d => delivery[e] = NoDelivery
        /\ RowOK(delivery[d]) /\ delivery[d].kind = "task" /\ delivery[d].prompt = p
        /\ delivery[d].at = "task"
    BY <1>4, <2>1 DEF RowOK, RowFields, NoDelivery, Texts
  <2>3. /\ TrailOK /\ trail.typed = {p} /\ trail.answered = {} /\ trail.kept = {}
        /\ \A x \in Prompts : trail.taken[x] = 0
    BY <1>4 DEF TrailOK, NoTrail
  <2>4. Shapes
    BY <1>1, <1>2, <1>4, <2>1, <2>2, <2>3, OtherRows DEF Shapes, DeliveryOK, DispatchOK, At
  <2>5. ASSUME NEW x \in Prompts PROVE Follows(x)
    <3>1. \A e \in Slots : /\ Has(delivery[e], x) <=> e = d /\ x = p
                           /\ Sends(delivery[e], x) <=> e = d /\ x = p
                           /\ ~Took(delivery[e], x)
      BY <2>1, <2>2, FreeRow DEF Has, Sends, Took
    <3>2. draft # x
      BY <1>1, PromptsAreSome
    <3> QED
      BY <1>2, <2>1, <2>3, <3>1, <3>2 DEF Follows, Known, Remains, Alone
  <2> QED
    BY <2>4, <2>5 DEF PromptInv
<1> QED
  BY <1>3, <1>4 DEF PromptInit

(* Nothing happens.                                                        *)
LEMMA StutterStep == ASSUME PromptInv, UNCHANGED promptVars PROVE PromptInv'
<1>1. DeliveryOK /\ HistoryOK /\ DispatchOK
  BY DEF PromptInv, Shapes
<1>2. /\ queue' = queue /\ draft' = draft /\ trail' = trail /\ delivery' = delivery
      /\ history' = history /\ dispatch' = dispatch
  BY DEF promptVars
<1> QED
  BY <1>1, <1>2, AllStay, DispatchStays, HistoryStays, NothingMoves

(* Every step of the store keeps each prompt in its place.                 *)
LEMMA NextFollows == ASSUME PromptInv, PromptNext PROVE PromptInv'
<1>1. CASE Composing
  <2>1. CASE \E p \in Prompts :
               \/ UpdateDraft(p) \/ MovePendingPromptToDraft(p) \/ RemovePendingPrompt(p)
               \/ \E q \in Prompts : UpdatePendingPrompt(p, q)
               \/ \E d \in Deliveries : SteerPendingPrompt(d, p) \/ SendGoalCommand(d, p)
    <3> PICK p \in Prompts :
               \/ UpdateDraft(p) \/ MovePendingPromptToDraft(p) \/ RemovePendingPrompt(p)
               \/ \E q \in Prompts : UpdatePendingPrompt(p, q)
               \/ \E d \in Deliveries : SteerPendingPrompt(d, p) \/ SendGoalCommand(d, p)
      BY <2>1
    <3> QED
      BY DraftStep, MoveToDraftStep, PendingStep, QueueStep, GoalStep
  <2> QED
    BY <1>1, <2>1, SendStep, StartStep DEF Composing
<1>2. CASE Continuing
  <2>1. CASE \E d \in Slots :
               \/ EnterSession(d) \/ HandOver(d) \/ ModelApplied(d) \/ PiTakes(d)
               \/ PromptSent(d) \/ Undelivered(d)
    BY <2>1, PlacesStep, TakenStep, SentStep, BackStep
  <2>2. CASE \E d \in Deliveries : TranscriptLoads(d) \/ TaskSettled(d) \/ HistoryEnds(d)
    BY <2>2, SendStep, TaskStep, ReplayEndsStep
  <2>3. CASE \/ DispatchNext \/ DispatchShift
             \/ \E n \in DOMAIN reloads : ReloadEnds(n, TRUE)
    BY <2>3, DispatchNextStep, QueueStep, ReloadStep
  <2>4. CASE \/ StartSessionNow \/ HostStarts \/ StartSessionReturns \/ StartGoesOn
             \/ PiSettles \/ PiCompacted \/ HandlePiEvent \/ HostStops \/ StopReturns
             \/ Compacted
    BY <2>4, StartStep, EventStep
  <2>5. CASE \/ HistoryStarts \/ EditReturns \/ (\E p \in Prompts : ReplayReturns(p))
             \/ ForkReturns \/ ExportReturns
             \/ HistoryAborts("failed") \/ DeleteStops \/ DeleteStopReturns
             \/ RemoveThreadState
    BY <2>5, HistoryStep, ReplayStep, DraftStep, DeleteStep
  <2> QED
    BY <1>2, <2>1, <2>2, <2>3, <2>4, <2>5 DEF Continuing
<1>3. CASE Disturbing
  BY <1>3, HistoryStep, EventStep, StartStep, ReloadStep DEF Disturbing
<1>4. CASE Failing
  <2>1. CASE \E d \in Slots : ModelFails(d) \/ SendFails(d)
    <3>1. \A d : SendFails(d) => At(d, "call") \/ At(d, "taken")
      BY DEF SendFails, At
    <3> QED
      BY <2>1, <3>1, PlacesStep, TakenStep
  <2>2. CASE \E d \in Deliveries : TranscriptFails(d) \/ TaskFails(d)
    <3>1. Deliveries \subseteq Slots
      BY DEF Slots
    <3> QED
      BY <2>2, <3>1, SendStep, PlacesStep
  <2> QED
    BY <1>4, <2>1, <2>2, HistoryStep DEF Failing
<1> QED
  BY <1>1, <1>2, <1>3, <1>4 DEF PromptNext

(* What is safe where each prompt is in its place.                         *)
LEMMA FollowedIsSafe == PromptInv => PromptsAreSafe
<1> SUFFICES ASSUME PromptInv PROVE PromptsAreSafe
  OBVIOUS
<1>1. Shapes /\ DeliveryOK /\ TrailOK /\ queue \in Seq(Prompts)
  BY DEF PromptInv, Shapes
<1>2. \A x \in Prompts : x \in Held => \E d \in Slots : Has(delivery[d], x)
                                                        /\ delivery[d].at # "load"
  BY DEF Held, Has
<1>3. NothingIsLost
  <2> SUFFICES ASSUME NEW x \in trail.typed
               PROVE  x \in InComposer \cup Held \cup trail.answered \cup trail.gone
    BY DEF NothingIsLost
  <2>1. x \in Prompts /\ x # NoPrompt /\ Remains(x)
    BY <1>1, PromptsAreSome DEF TrailOK, PromptInv, Follows
  <2>2. In(queue, x) \/ draft = x => x \in InComposer
    BY <2>1 DEF In, InComposer, ToSet
  <2>3. (\E d \in Slots : Sends(delivery[d], x)) => x \in Held
    BY <2>1 DEF Sends, Held
  <2> QED
    BY <2>1, <2>2, <2>3 DEF Remains
<1>4. QueuedOnce
  <2> SUFFICES ASSUME NEW i \in DOMAIN queue, NEW j \in DOMAIN queue, queue[i] \notin trail.kept
               PROVE  /\ queue[i] = queue[j] => i = j
                      /\ queue[i] \notin Held \cup trail.answered
    BY DEF QueuedOnce
  <2>1. queue[i] \in Prompts /\ In(queue, queue[i])
    BY <1>1 DEF In
  <2>2. Alone(queue[i])
    BY <2>1 DEF PromptInv, Follows
  <2>3. queue[i] = queue[j] => i = j
    BY <2>2 DEF Alone, Once
  <2>4. queue[i] \notin Held \cup trail.answered
    BY <1>2, <2>1, <2>2 DEF Alone
  <2> QED
    BY <2>3, <2>4
<1>5. HandedOnce
  BY DEF HandedOnce, PromptInv, Follows, Alone
<1> QED
  BY <1>3, <1>4, <1>5 DEF PromptsAreSafe

(* What holds of every prompt in every state the store gets to.            *)
LEMMA PromptsFollow == PromptSpec => []PromptInv
<1>1. PromptInv /\ [PromptNext]_promptVars => PromptInv'
  BY NextFollows, StutterStep
<1> QED
  BY <1>1, InitFollows, PTL DEF PromptSpec

(* A prompt the user typed is neither lost nor sent twice (deliverPrompt,  *)
(* dispatchNextPendingPrompt, sendActivePrompt): it is in the composer, in *)
(* the queue, in one delivery, accepted by the host, or gone on a way the  *)
(* code means, for any number of texts, deliveries and disturbances.       *)
THEOREM PromptsStaySafe == PromptSpec => []PromptsAreSafe
BY PromptsFollow, FollowedIsSafe, PTL

=============================================================================
