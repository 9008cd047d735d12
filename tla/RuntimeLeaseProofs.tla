------------------------- MODULE RuntimeLeaseProofs -------------------------
(***************************************************************************)
(* Proofs about RuntimeLease, for any number of invocations of each kind.  *)
(*                                                                         *)
(* First, whatever Barrier is, the supervisor uses its connection as       *)
(* SshConnection allows: every step of it is a step of SshConnection or    *)
(* leaves the connection alone, so what SshConnectionProofs shows holds    *)
(* here (CInv).  Then, while nobody connects during a teardown (Barrier),  *)
(* the supervisor owns one helper and accounts for every lease (LInv).     *)
(***************************************************************************)
EXTENDS RuntimeLease, FiniteSetTheorems, TLAPS

Proved == INSTANCE SshConnectionProofs WITH
  state <- connection, Operations <- Calls,
  Revokes <- Teardowns \cup Calls, Waits <- Teardowns

CallStages == {"idle", "ensure", "await", "bind", "launch", "launched", "launch failed",
  "discard", "discard failed", "started", "start failed", "error", "disconnect",
  "grant", "leased", "released", "failed"}

TearStages == {"idle", "entered", "snapshot", "detached", "shutdown", "stopping",
  "disconnect", "barrier", "waiting", "done"}

WatchStages == {"none", "watching", "detached", "disconnect", "stop", "done"}

(* The types of the locals of the actors, which TypeOK leaves out.         *)
Locals ==
  /\ call \in [Calls -> CallStages] /\ owner \in [Calls -> Owners]
  /\ generation \in [Calls -> Nat] /\ myEpoch \in [Calls -> Nat]
  /\ leasedOn \in [Calls -> Calls \cup {Nobody}]
  /\ watch \in [Calls -> WatchStages]
  /\ tear \in [Teardowns -> [at : TearStages, generation : Nat, closing : BOOLEAN,
                             runtime : Calls \cup {Nobody}]]
  /\ cancels \in [Teardowns \cup Calls -> SUBSET Calls]

(* A teardown asks a helper to shut down only when it has taken one.       *)
ShutsSomeDown ==
  \A t \in Teardowns : tear[t].at \in {"shutdown", "stopping"} => tear[t].runtime # Nobody

(* A teardown remembers a generation somebody was told of, or none, and    *)
(* waits for it only after that generation was forgotten.                  *)
Barred ==
  \A t \in Teardowns :
    LET g == tear[t].generation IN
    /\ g = 0 \/ g \in Connection!Seen
    /\ tear[t].at = "barrier" => ~Connection!Live(g)

CInv == Proved!IInv /\ TypeOK /\ Locals /\ ShutsSomeDown /\ Barred

-----------------------------------------------------------------------------
Past(t) == tear[t].at \in {"detached", "shutdown", "stopping", "disconnect", "barrier", "waiting"}

WatchPast(c) == watch[c] \in {"detached", "disconnect", "stop"}

Disconnected == connection \notin {"ready", "connecting"}

(* From the moment a teardown has detached the helper until it is done the *)
(* supervisor is stopping or closed, or an overlapping teardown has        *)
(* stopped it, which it does only after it has disconnected.               *)
Downward ==
  /\ \A t \in Teardowns :
       /\ Past(t) => state \in {"stopping", "closed"} \/ (state = "stopped" /\ Disconnected)
       /\ tear[t].at \in {"barrier", "waiting"} => Disconnected
  /\ \A c \in Calls :
       /\ WatchPast(c) => state \in {"stopping", "closed"} \/ (state = "stopped" /\ Disconnected)
       /\ watch[c] = "stop" => Disconnected

(* Each start draws an epoch of its own.                                   *)
OwnEpochs ==
  /\ \A c \in Calls : myEpoch[c] <= epoch
  /\ \A c, d \in Calls : myEpoch[c] = myEpoch[d] /\ myEpoch[c] # 0 => c = d

Dead(g) == g \in Connection!Seen /\ g # liveGeneration

(* A Call asks for a generation somebody was told of, before it starts a   *)
(* helper.                                                                 *)
Asked ==
  \A c \in Calls : /\ call[c] # "idle" => generation[c] \in Connection!Seen
                   /\ myEpoch[c] # 0 => call[c] # "idle"

(* A Call starts a helper once: after its start the helper is the          *)
(* supervisor's, or the generation it was for is going away, or the Call   *)
(* reports an error.                                                       *)
StartsOnce ==
  \A c \in Calls : myEpoch[c] # 0 =>
    \/ state = "starting" /\ epoch = myEpoch[c]
         /\ call[c] \in {"bind", "launch", "launched", "launch failed"}
    \/ runtime = c
    \/ state \in {"stopping", "closed"}
    \/ Dead(generation[c])
    \/ call[c] \in {"discard failed", "start failed", "error", "disconnect", "failed"}

Starts(c) ==
  call[c] \in {"bind", "launch", "launched", "launch failed", "discard", "discard failed"}

(* A helper is watched when it was accepted, and only then is it leased.   *)
Stages ==
  \A c \in Calls :
    /\ myEpoch[c] = 0 =>
         ~Starts(c) /\ helper[c] = "none" /\ watch[c] = "none" /\ c \notin killed \cup contexts
    /\ Starts(c) => watch[c] = "none" /\ c \notin killed
    /\ call[c] \in {"bind", "launch", "launch failed", "discard failed"} => helper[c] = "none"
    /\ WatchPast(c) => helper[c] = "exited"
    /\ watch[c] = "none" => \A d \in Calls : leasedOn[d] # c
    /\ runtime = c => watch[c] = "watching" /\ c \notin killed
    /\ leasedOn[c] # Nobody => call[c] \in {"leased", "released"}

(* The helper a teardown has taken is nobody else's, and each stage of the *)
(* teardown has done its part.                                             *)
Taken ==
  /\ \A t \in Teardowns :
       LET d == tear[t].runtime IN
       /\ tear[t].at \in {"idle", "entered", "snapshot"} => d = Nobody
       /\ d # Nobody => runtime # d /\ watch[d] \in {"watching", "done"}
       /\ tear[t].at \in {"stopping", "disconnect", "barrier", "waiting", "done"} =>
            d = Nobody \/ d \in killed
       /\ tear[t].at \in {"disconnect", "barrier", "waiting", "done"} => d \notin contexts
  /\ \A t, u \in Teardowns : tear[t].runtime = tear[u].runtime /\ tear[t].runtime # Nobody => t = u

(* A lease whose context still lives is in the table, or was taken by the  *)
(* one who has detached its helper and is about to cancel it.              *)
LeasesAreHeld ==
  /\ \A c \in leases : leasedOn[c] = runtime /\ runtime # Nobody
  /\ IsFiniteSet(leases)
  /\ \A c \in Calls : leasedOn[c] # Nobody /\ ~LeaseEnded(c) =>
       \/ c \in leases /\ runtime = leasedOn[c]
       \/ \E t \in Teardowns :
            tear[t].at = "detached" /\ c \in cancels[t] /\ tear[t].runtime = leasedOn[c]
       \/ watch[leasedOn[c]] = "detached" /\ c \in cancels[leasedOn[c]]

LInv ==
  /\ CInv /\ EpochIdentifiesRuntime /\ Downward /\ OwnEpochs /\ Asked /\ StartsOnce
  /\ Stages /\ Taken /\ NoStrayHelper /\ LifetimesHaveOwners
  /\ LeasesAreHeld /\ LeasesEndFirst /\ LeasesAreBounded

-----------------------------------------------------------------------------
(* The connection: the steps of this module are steps of SshConnection     *)

(* The instance of SshConnection that the supervisor uses and the one the  *)
(* proofs are about are the same module on the same variables.             *)
LEMMA SameStates ==
  /\ Connection!Init <=> Proved!Init
  /\ Connection!TypeOK <=> Proved!TypeOK
  /\ Connection!Seen = Proved!Seen
  /\ \A g : Connection!Live(g) <=> Proved!Live(g)
<1>1. Connection!Generations = Proved!Generations
  <2>1. Connection!Cardinality(Connects) = Proved!Cardinality(Connects)
    BY DEF Connection!Cardinality, Proved!Cardinality
  <2> QED
    BY <2>1 DEF Connection!Generations, Proved!Generations
<1> QED
  BY <1>1 DEF Connection!Init, Proved!Init, Connection!TypeOK, Proved!TypeOK,
     Connection!Seen, Proved!Seen, Connection!Live, Proved!Live

(* Connect has the same steps in both.                                     *)
LEMMA SameConnects ==
  \A k \in Connects :
    /\ Connection!BeginConnect(k) <=> Proved!BeginConnect(k)
    /\ Connection!FinishConnect(k) <=> Proved!FinishConnect(k)
BY DEF Connection!BeginConnect, Proved!BeginConnect, Connection!FinishConnect,
       Proved!FinishConnect, Connection!Ends, Proved!Ends, Connection!Draw, Proved!Draw,
       Connection!contextVars, Proved!contextVars

(* So has the context of an operation.                                     *)
LEMMA SameContexts ==
  \A c \in Calls :
    /\ \A g : Connection!Bind(c, g) <=> Proved!Bind(c, g)
    /\ Connection!Release(c) <=> Proved!Release(c)
BY DEF Connection!Bind, Proved!Bind, Connection!Release, Proved!Release,
       Connection!Live, Proved!Live, Connection!Bound, Proved!Bound,
       Connection!IsLast, Proved!IsLast, Connection!connectVars, Proved!connectVars

(* So have a revoke and the barrier.                                       *)
LEMMA SameRevokes ==
  /\ \A r \in Teardowns \cup Calls :
       /\ Connection!Disconnect(r) <=> Proved!Disconnect(r)
       /\ Connection!Close(r) <=> Proved!Close(r)
       /\ \A x : Connection!Cancel(r, x) <=> Proved!Cancel(r, x)
  /\ \A t \in Teardowns :
       /\ \A g : Connection!Wait(t, g) <=> Proved!Wait(t, g)
       /\ Connection!WaitEnds(t) <=> Proved!WaitEnds(t)
       /\ Connection!WaitTimesOut(t) <=> Proved!WaitTimesOut(t)
BY DEF Connection!Disconnect, Proved!Disconnect, Connection!Close, Proved!Close,
       Connection!Revoke, Proved!Revoke, Connection!Forget, Proved!Forget,
       Connection!takeGenerationCancels, Proved!takeGenerationCancels,
       Connection!Bound, Proved!Bound, Connection!Cancel, Proved!Cancel,
       Connection!Wait, Proved!Wait, Connection!WaitEnds, Proved!WaitEnds,
       Connection!WaitTimesOut, Proved!WaitTimesOut,
       Connection!connectVars, Proved!connectVars, Connection!contextVars, Proved!contextVars

(* So has the whole of it.                                                 *)
LEMMA SameSteps == [Connection!Next]_(Connection!connectionVars) <=> [Proved!Next]_(Proved!connectionVars)
<1>1. Connection!Next <=> Proved!Next
  <2>1. (\E k \in Connects : Connection!BeginConnect(k) \/ Connection!FinishConnect(k))
          <=> \E k \in Connects : Proved!BeginConnect(k) \/ Proved!FinishConnect(k)
    BY SameConnects
  <2>2. (\E c \in Calls : \/ Connection!Release(c)
                          \/ \E g \in Connection!Seen : Connection!Bind(c, g))
          <=> \E c \in Calls : Proved!Release(c) \/ \E g \in Proved!Seen : Proved!Bind(c, g)
    BY SameContexts, SameStates
  <2>3. (\E r \in Teardowns \cup Calls :
           \/ Connection!Disconnect(r) \/ Connection!Close(r)
           \/ \E x \in taken[r] : Connection!Cancel(r, x))
          <=> \E r \in Teardowns \cup Calls :
                \/ Proved!Disconnect(r) \/ Proved!Close(r)
                \/ \E x \in taken[r] : Proved!Cancel(r, x)
    BY SameRevokes
  <2>4. (\E t \in Teardowns :
           \/ Connection!WaitEnds(t) \/ Connection!WaitTimesOut(t)
           \/ \E g \in Connection!Seen \cup {0} : ~Connection!Live(g) /\ Connection!Wait(t, g))
          <=> \E t \in Teardowns :
                \/ Proved!WaitEnds(t) \/ Proved!WaitTimesOut(t)
                \/ \E g \in Proved!Seen \cup {0} : ~Proved!Live(g) /\ Proved!Wait(t, g)
    BY SameRevokes, SameStates
  <2> QED
    BY <2>1, <2>2, <2>3, <2>4 DEF Connection!Next, Proved!Next
<1>2. UNCHANGED Connection!connectionVars <=> UNCHANGED Proved!connectionVars
  BY DEF Connection!connectionVars, Proved!connectionVars, Connection!connectVars,
         Proved!connectVars, Connection!contextVars, Proved!contextVars
<1> QED
  BY <1>1, <1>2

(* The actors are distinct and finitely many connect, which is what the    *)
(* proofs about the connection assume.                                     *)
LEMMA Allowed ==
  /\ Nobody \notin Connects \cup Calls
  /\ Proved!IsFiniteSet(Connects)
BY ActorsAreDistinct, ConnectsAreFinite DEF IsFiniteSet, Proved!IsFiniteSet

(* The live generation is one that somebody was told of.                   *)
LEMMA LiveIsSeen ==
  ASSUME Proved!IInv
  PROVE  /\ liveGeneration = 0 \/ liveGeneration \in Connection!Seen
         /\ \A g : Connection!Live(g) => g \in Connection!Seen
         /\ connection # "ready" => liveGeneration = 0
<1>1. /\ connection # "ready" => liveGeneration = 0
      /\ connection = "ready" => liveGeneration \in Proved!Seen
  BY DEF Proved!IInv, Proved!Numbers, Proved!Told
<1> QED
  BY <1>1, SameStates DEF Connection!Live

(* The steps of the supervisor that change its connection.                 *)
LEMMA Uses ==
  ASSUME CInv, [Next]_vars
  PROVE  \/ \E k \in Connects : BeginConnect(k) \/ FinishConnect(k)
         \/ \E c \in Calls : BindLifetime(c) /\ Connection!Live(generation[c])
                               /\ Connection!Bind(c, generation[c])
         \/ \E c \in Calls : Connection!Release(c)
         \/ \E r \in Teardowns \cup Calls : Connection!Disconnect(r) \/ Connection!Close(r)
         \/ \E r \in Teardowns \cup Calls : \E x \in taken[r] : Connection!Cancel(r, x)
         \/ \E t \in Teardowns : TearWaits(t)
         \/ \E t \in Teardowns : Connection!WaitEnds(t) \/ Connection!WaitTimesOut(t)
         \/ UNCHANGED connectionVars
<1>1. ASSUME NEW c \in Calls, BindLifetime(c)
      PROVE  \/ Connection!Live(generation[c]) /\ Connection!Bind(c, generation[c])
             \/ UNCHANGED connectionVars
  BY <1>1 DEF BindLifetime
<1>2. ASSUME NEW c \in Calls, Discard(c) \/ WatchReleases(c)
      PROVE  Connection!Release(c) \/ UNCHANGED connectionVars
  BY <1>2 DEF Discard, WatchReleases, ReleaseLifetime
<1>3. ASSUME NEW c \in Calls, StartErrorDisconnects(c) \/ WatchDisconnects(c)
      PROVE  Connection!Disconnect(c)
  BY <1>3 DEF StartErrorDisconnects, WatchDisconnects
<1>4. ASSUME NEW t \in Teardowns, TearReleases(t)
      PROVE  (\E c \in Calls : Connection!Release(c)) \/ UNCHANGED connectionVars
  <2>1. tear[t].runtime \in Calls
    BY <1>4 DEF TearReleases, CInv, ShutsSomeDown, Locals
  <2> QED
    BY <1>4, <2>1 DEF TearReleases, ReleaseLifetime
<1>5. ASSUME NEW t \in Teardowns, TearDisconnects(t)
      PROVE  Connection!Disconnect(t) \/ Connection!Close(t)
  BY <1>5 DEF TearDisconnects
<1>6. ASSUME NEW t \in Teardowns, WaitEnds(t)
      PROVE  Connection!WaitEnds(t) \/ Connection!WaitTimesOut(t)
  BY <1>6 DEF WaitEnds
<1>7. ASSUME NEW t \in Teardowns,
             \/ SnapshotGeneration(t) \/ TearDetach(t) \/ TearCancelsLeases(t)
             \/ TearAsksShutdown(t) \/ TearStops(t) \/ Revoke(t) \/ ExpireIdle(t)
      PROVE  UNCHANGED connectionVars
  BY <1>7 DEF SnapshotGeneration, TearDetach, TearCancelsLeases, TearAsksShutdown, TearStops,
     Revoke, ExpireIdle
<1>8. ASSUME NEW r \in Teardowns \cup Calls, CancelContext(r)
      PROVE  \E x \in taken[r] : Connection!Cancel(r, x)
  BY <1>8 DEF CancelContext
<1>9. ASSUME NEW c \in Calls,
             \/ Acquire(c) \/ GiveUp(c) \/ Ensure(c) \/ Await(c) \/ LaunchHelper(c)
             \/ FinishStart(c) \/ StartReturns(c) \/ StartError(c) \/ Grant(c)
             \/ ReleaseLease(c) \/ HelperExits(c) \/ WatchExit(c) \/ WatchStops(c)
      PROVE  UNCHANGED connectionVars
  BY <1>9 DEF Acquire, GiveUp, Ensure, Await, LaunchHelper, FinishStart, StartReturns,
     StartError, Grant, ReleaseLease, HelperExits, WatchExit, WatchStops
<1>10. TimerFires \/ UNCHANGED vars => UNCHANGED connectionVars
  BY DEF TimerFires, vars
<1> DEFINE Same == UNCHANGED connectionVars
<1>11. ASSUME NEW c \in Calls, Starting(c) \/ Watching(c)
       PROVE  \/ BindLifetime(c) \/ Discard(c) \/ WatchReleases(c) \/ StartErrorDisconnects(c)
              \/ WatchDisconnects(c) \/ Same
  BY <1>9, <1>11 DEF Starting, Watching
<1>12. ASSUME NEW t \in Teardowns, Tearing(t)
       PROVE  TearReleases(t) \/ TearDisconnects(t) \/ TearWaits(t) \/ WaitEnds(t) \/ Same
  BY <1>7, <1>12 DEF Tearing
<1>13. CASE \E c \in Calls : \/ Acquire(c) \/ GiveUp(c) \/ Starting(c) \/ ReleaseLease(c)
                             \/ HelperExits(c) \/ Watching(c)
  BY <1>1, <1>2, <1>3, <1>9, <1>11, <1>13
<1>14. CASE \E t \in Teardowns : Revoke(t) \/ ExpireIdle(t) \/ Tearing(t)
  BY <1>4, <1>5, <1>6, <1>7, <1>12, <1>14
<1> QED
  BY <1>8, <1>10, <1>13, <1>14 DEF Next

(* Every step of the supervisor is a step of SshConnection, or a stutter:  *)
(* it binds only what it was told is live, and waits only for a generation *)
(* it was told of and has disconnected since.                              *)
LEMMA ConnectionSteps ==
  ASSUME CInv, [Next]_vars
  PROVE  [Connection!Next]_(Connection!connectionVars)
<1>1. ASSUME NEW k \in Connects, BeginConnect(k) \/ FinishConnect(k) PROVE Connection!Next
  BY <1>1 DEF BeginConnect, FinishConnect, Connection!Next
<1>2. ASSUME NEW c \in Calls, Connection!Live(generation[c]), Connection!Bind(c, generation[c])
      PROVE  Connection!Next
  <2>1. generation[c] \in Connection!Seen
    BY <1>2, LiveIsSeen DEF CInv
  <2> QED
    BY <1>2, <2>1 DEF Connection!Next
<1>3. ASSUME NEW t \in Teardowns, TearWaits(t) PROVE Connection!Next
  <2>1. tear[t].generation \in Connection!Seen \cup {0}
    BY DEF CInv, Barred
  <2>2. ~Connection!Live(tear[t].generation) /\ Connection!Wait(t, tear[t].generation)
    BY <1>3 DEF CInv, Barred, TearWaits
  <2> QED
    BY <2>1, <2>2 DEF Connection!Next
<1>4. UNCHANGED connectionVars => UNCHANGED Connection!connectionVars
  BY DEF connectionVars, Connection!connectionVars, Connection!connectVars,
         Connection!contextVars
<1>5. ASSUME NEW c \in Calls, Connection!Release(c) PROVE Connection!Next
  BY <1>5 DEF Connection!Next
<1>6. ASSUME NEW r \in Teardowns \cup Calls,
             \/ Connection!Disconnect(r) \/ Connection!Close(r)
             \/ \E x \in taken[r] : Connection!Cancel(r, x)
      PROVE  Connection!Next
  BY <1>6 DEF Connection!Next
<1>7. ASSUME NEW t \in Teardowns, Connection!WaitEnds(t) \/ Connection!WaitTimesOut(t)
      PROVE  Connection!Next
  BY <1>7 DEF Connection!Next
<1> QED
  BY Uses, <1>1, <1>2, <1>3, <1>4, <1>5, <1>6, <1>7

(* What is proved about the connection carries over to each step.          *)
LEMMA ConnectionStep ==
  ASSUME CInv, [Next]_vars
  PROVE  /\ Proved!IInv'
         /\ \A g \in Connection!Seen :
              g \in Connection!Seen' /\ (g # liveGeneration => g # liveGeneration')
<1>1. [Proved!Next]_(Proved!connectionVars)
  BY ConnectionSteps, SameSteps
<1>2. Proved!IInv
  BY DEF CInv
<1>3. Proved!IInv'
  BY <1>1, <1>2, Allowed, Proved!StepIInv
<1>4. \A g \in Proved!Seen :
        g \in Proved!Seen' /\ (g # liveGeneration => g # liveGeneration')
  BY <1>1, <1>2, Allowed, Proved!SeenStays
<1>5. (Connection!Seen)' = (Proved!Seen)'
  BY DEF Connection!Seen, Proved!Seen
<1> QED
  BY <1>3, <1>4, <1>5, SameStates

-----------------------------------------------------------------------------
(* Types, and what a teardown remembers                                    *)

(* Initially nothing has begun.                                            *)
LEMMA InitCInv == Init => CInv
<1> SUFFICES ASSUME Init PROVE CInv
  OBVIOUS
<1>1. Proved!IInv
  BY Allowed, SameStates, Proved!InitIInv DEF Init
<1>2. Connection!TypeOK
  BY <1>1, SameStates DEF Proved!IInv
<1>3. TypeOK
  BY <1>2 DEF Init, TypeOK
<1>4. Locals /\ ShutsSomeDown /\ Barred
  BY DEF Init, Locals, CallStages, WatchStages, TearStages, ShutsSomeDown, Barred
<1> QED
  BY <1>1, <1>3, <1>4 DEF CInv

(* Every step keeps the types of the Calls' locals.                        *)
LEMMA CallLocalsStep ==
  ASSUME CInv, [Next]_vars
  PROVE  /\ call' \in [Calls -> CallStages] /\ owner' \in [Calls -> Owners]
         /\ generation' \in [Calls -> Nat] /\ myEpoch' \in [Calls -> Nat]
         /\ leasedOn' \in [Calls -> Calls \cup {Nobody}]
         /\ watch' \in [Calls -> WatchStages]
<1>a. /\ Locals /\ epoch \in Nat /\ liveGeneration \in Nat /\ runtime \in Calls \cup {Nobody}
  BY DEF CInv, TypeOK, Connection!TypeOK
<1>0. /\ Locals /\ liveGeneration \in Nat /\ runtime \in Calls \cup {Nobody}
      /\ epoch + 1 \in Nat
  BY <1>a
<1>1. ASSUME NEW c \in Calls, Acquire(c) \/ GiveUp(c) \/ Await(c) \/ Grant(c) \/ ReleaseLease(c)
      PROVE  /\ call' \in [Calls -> CallStages]
             /\ generation' \in [Calls -> Nat]
             /\ leasedOn' \in [Calls -> Calls \cup {Nobody}]
             /\ UNCHANGED <<owner, myEpoch, watch>>
  <2>1. PICK l \in CallStages : call' = [call EXCEPT ![c] = l]
    BY <1>1 DEF Acquire, GiveUp, Await, Grant, ReleaseLease, Goto, CallStages
  <2>2. UNCHANGED generation \/ generation' = [generation EXCEPT ![c] = liveGeneration]
    BY <1>1 DEF Acquire, GiveUp, Await, Grant, ReleaseLease
  <2>3. UNCHANGED leasedOn \/ leasedOn' = [leasedOn EXCEPT ![c] = runtime]
    BY <1>1 DEF Acquire, GiveUp, Await, Grant, ReleaseLease
  <2>4. UNCHANGED <<owner, myEpoch, watch>>
    BY <1>1 DEF Acquire, GiveUp, Await, Grant, ReleaseLease, teardownVars
  <2> QED
    BY <1>0, <2>1, <2>2, <2>3, <2>4 DEF Locals
<1>2. ASSUME NEW c \in Calls, Ensure(c)
      PROVE  /\ call' \in [Calls -> CallStages]
             /\ myEpoch' \in [Calls -> Nat]
             /\ UNCHANGED <<owner, generation, leasedOn, watch>>
  <2>1. PICK l \in CallStages : call' = [call EXCEPT ![c] = l]
    BY <1>2 DEF Ensure, Begin, Goto, CallStages
  <2>2. \/ UNCHANGED myEpoch
        \/ myEpoch' = [myEpoch EXCEPT ![c] = epoch + 1]
    BY <1>2 DEF Ensure, Begin
  <2>3. UNCHANGED <<owner, generation, leasedOn, watch>>
    BY <1>2 DEF Ensure, teardownVars
  <2> QED
    BY <1>0, <2>1, <2>2, <2>3 DEF Locals
<1>3. ASSUME NEW c \in Calls, \/ BindLifetime(c) \/ LaunchHelper(c) \/ FinishStart(c) \/ Discard(c)
                              \/ StartReturns(c) \/ StartError(c) \/ StartErrorDisconnects(c)
      PROVE  /\ call' \in [Calls -> CallStages]
             /\ watch' \in [Calls -> WatchStages]
             /\ UNCHANGED <<owner, generation, myEpoch, leasedOn>>
  BY <1>0, <1>3 DEF Locals, CallStages, WatchStages, BindLifetime, LaunchHelper, FinishStart,
     Discard, StartReturns, StartError, StartErrorDisconnects, Goto, teardownVars
<1>4. ASSUME NEW c \in Calls, HelperExits(c) \/ Watching(c)
      PROVE  /\ watch' \in [Calls -> WatchStages]
             /\ UNCHANGED <<call, owner, generation, myEpoch, leasedOn>>
  BY <1>0, <1>4 DEF Locals, WatchStages, HelperExits, Watching, WatchExit, WatchReleases,
     WatchDisconnects, WatchStops, callVars, teardownVars
<1>5. ASSUME NEW t \in Teardowns, Revoke(t) \/ ExpireIdle(t) \/ Tearing(t)
      PROVE  UNCHANGED <<call, owner, generation, myEpoch, leasedOn, watch>>
  BY <1>5 DEF Revoke, ExpireIdle, Tearing, SnapshotGeneration, TearDetach, TearCancelsLeases,
     TearAsksShutdown, TearReleases, TearDisconnects, TearWaits, WaitEnds, TearStops,
     callVars, teardownVars
<1>6. ASSUME \/ \E k \in Connects : BeginConnect(k) \/ FinishConnect(k)
             \/ TimerFires \/ UNCHANGED vars
             \/ \E r \in Teardowns \cup Calls : CancelContext(r)
      PROVE  UNCHANGED <<call, owner, generation, myEpoch, leasedOn, watch>>
  BY <1>6 DEF BeginConnect, FinishConnect, TimerFires, CancelContext, vars, callVars, teardownVars
<1> QED
  BY <1>0, <1>1, <1>2, <1>3, <1>4, <1>5, <1>6 DEF Next, Starting, Locals

(* How a teardown goes through its stages.                                 *)
Moves(t) ==
  \/ /\ tear[t].at = "idle"
     /\ \E closing \in BOOLEAN : tear' = [tear EXCEPT ![t].at = "entered", ![t].closing = closing]
  \/ /\ tear[t].at = "entered"
     /\ tear' = [tear EXCEPT ![t].at = "snapshot", ![t].generation = liveGeneration]
  \/ /\ tear[t].at = "snapshot" /\ tear' = [tear EXCEPT ![t].at = "done"]
  \/ /\ tear[t].at = "snapshot"
     /\ tear' = [tear EXCEPT ![t].at = "detached", ![t].runtime = runtime]
     /\ TearDetach(t)
  \/ /\ tear[t].at = "detached" /\ TearCancelsLeases(t)
     /\ tear' = [tear EXCEPT ![t].at = IF tear[t].runtime = Nobody THEN "disconnect" ELSE "shutdown"]
  \/ /\ tear[t].at = "shutdown" /\ tear' = [tear EXCEPT ![t].at = "stopping"]
     /\ TearAsksShutdown(t)
  \/ /\ tear[t].at = "stopping" /\ tear' = [tear EXCEPT ![t].at = "disconnect"]
     /\ TearReleases(t)
  \/ /\ tear[t].at = "disconnect" /\ tear' = [tear EXCEPT ![t].at = "barrier"]
     /\ Connection!Disconnect(t) \/ Connection!Close(t)
  \/ tear[t].at = "barrier" /\ tear' = [tear EXCEPT ![t].at = "waiting"]
  \/ tear[t].at = "waiting" /\ tear' = [tear EXCEPT ![t].at = "done"]

(* Every step moves one teardown one stage, or none.                       *)
LEMMA TearMoves ==
  ASSUME [Next]_vars
  PROVE  UNCHANGED tear \/ \E t \in Teardowns : Moves(t)
<1>1. ASSUME NEW t \in Teardowns, Revoke(t) \/ ExpireIdle(t) PROVE UNCHANGED tear \/ Moves(t)
  BY <1>1 DEF Revoke, ExpireIdle, Enter, Moves
<1>2. ASSUME NEW t \in Teardowns, \/ SnapshotGeneration(t) \/ TearDetach(t) \/ TearCancelsLeases(t)
                                  \/ TearAsksShutdown(t)
      PROVE  UNCHANGED tear \/ Moves(t)
  BY <1>2 DEF SnapshotGeneration, TearDetach, TearCancelsLeases, TearAsksShutdown, TearAt, Moves
<1>3. ASSUME NEW t \in Teardowns, \/ TearReleases(t) \/ TearDisconnects(t) \/ TearWaits(t)
                                  \/ WaitEnds(t) \/ TearStops(t)
      PROVE  UNCHANGED tear \/ Moves(t)
  BY <1>3 DEF TearReleases, TearDisconnects, TearWaits, WaitEnds, TearStops, TearAt, Moves,
     teardownVars
<1>4. ASSUME NEW c \in Calls, \/ Acquire(c) \/ GiveUp(c) \/ Starting(c) \/ ReleaseLease(c)
                              \/ HelperExits(c)
      PROVE  UNCHANGED tear
  BY <1>4 DEF Acquire, GiveUp, Starting, Ensure, Await, BindLifetime, LaunchHelper, FinishStart,
     Discard, StartReturns, StartError, StartErrorDisconnects, Grant, ReleaseLease, HelperExits,
     teardownVars
<1>5. ASSUME NEW c \in Calls, Watching(c) PROVE UNCHANGED tear
  BY <1>5 DEF Watching, WatchExit, WatchReleases, WatchDisconnects, WatchStops
<1>6. ASSUME \/ \E k \in Connects : BeginConnect(k) \/ FinishConnect(k)
             \/ TimerFires \/ UNCHANGED vars
             \/ \E r \in Teardowns \cup Calls : CancelContext(r)
      PROVE  UNCHANGED tear
  BY <1>6 DEF BeginConnect, FinishConnect, TimerFires, CancelContext, vars, teardownVars
<1> QED
  BY <1>1, <1>2, <1>3, <1>4, <1>5, <1>6 DEF Next, Tearing

(* Every step keeps the types of the teardowns' locals.                    *)
LEMMA TearLocalsStep ==
  ASSUME CInv, [Next]_vars
  PROVE  /\ tear' \in [Teardowns -> [at : TearStages, generation : Nat, closing : BOOLEAN,
                                     runtime : Calls \cup {Nobody}]]
         /\ ShutsSomeDown'
<1>1. /\ liveGeneration \in Nat /\ runtime \in Calls \cup {Nobody}
      /\ tear \in [Teardowns -> [at : TearStages, generation : Nat, closing : BOOLEAN,
                                 runtime : Calls \cup {Nobody}]]
      /\ ShutsSomeDown
  BY DEF CInv, TypeOK, Connection!TypeOK, Locals
<1>2. CASE UNCHANGED tear
  BY <1>1, <1>2 DEF ShutsSomeDown
<1>3. ASSUME NEW t \in Teardowns, Moves(t)
      PROVE  /\ tear' \in [Teardowns -> [at : TearStages, generation : Nat, closing : BOOLEAN,
                                         runtime : Calls \cup {Nobody}]]
             /\ ShutsSomeDown'
  BY <1>1, <1>3 DEF Moves, TearStages, ShutsSomeDown
<1> QED
  BY <1>2, <1>3, TearMoves

(* How the supervisor's table changes.                                     *)
LEMMA TableMoves ==
  ASSUME [Next]_vars
  PROVE  /\ epoch' \in {epoch, epoch + 1}
         /\ timer' \in {timer, epoch, 0}
         /\ firing' \subseteq firing \cup ({timer} \ {0})
         /\ state' \in {state, "starting", "ready", "stopped", "stopping", "closed"}
         /\ runtime' \in {runtime, Nobody} \cup Calls
         /\ startDone' \in {startDone, Nobody} \cup Calls
         /\ leases' \subseteq leases \cup Calls
         /\ revoked' \subseteq revoked \cup leases \cup UNION {cancels[r] : r \in Teardowns \cup Calls}
         /\ cancels' = cancels \/ \E r \in Teardowns \cup Calls : cancels' = [cancels EXCEPT ![r] = leases]
<1>1. ASSUME NEW c \in Calls, Ensure(c) \/ FinishStart(c)
      PROVE  /\ epoch' \in {epoch, epoch + 1} /\ timer' \in {timer, epoch} /\ firing' = firing
             /\ state' \in {state, "starting", "ready", "stopped"}
             /\ runtime' \in {runtime, c} /\ startDone' \in {startDone, Nobody, c}
             /\ leases' = leases /\ revoked' = revoked /\ cancels' = cancels
  BY <1>1 DEF Ensure, Begin, FinishStart, teardownVars
<1>2. ASSUME NEW c \in Calls, Grant(c) \/ ReleaseLease(c)
      PROVE  /\ UNCHANGED <<epoch, firing, state, runtime, startDone, cancels>>
             /\ timer' \in {timer, epoch, 0} /\ leases' \subseteq leases \cup {c}
             /\ revoked' \subseteq revoked \cup leases
  BY <1>2 DEF Grant, ReleaseLease, teardownVars
<1>3. ASSUME NEW c \in Calls, Watching(c)
      PROVE  /\ epoch' \in {epoch, epoch + 1} /\ timer' \in {timer, 0} /\ firing' = firing
             /\ state' \in {state, "stopping", "stopped"}
             /\ runtime' \in {runtime, Nobody} /\ startDone' = startDone
             /\ leases' \subseteq leases /\ revoked' \subseteq revoked \cup cancels[c]
             /\ cancels' = cancels \/ cancels' = [cancels EXCEPT ![c] = leases]
  BY <1>3 DEF Watching, WatchExit, WatchReleases, WatchDisconnects, WatchStops, Detach, Stopped,
     tableVars
<1>4. ASSUME NEW t \in Teardowns, TearDetach(t)
      PROVE  /\ epoch' \in {epoch, epoch + 1} /\ timer' \in {timer, 0} /\ firing' = firing
             /\ state' \in {state, "stopping", "closed"}
             /\ runtime' \in {runtime, Nobody} /\ startDone' = startDone
             /\ leases' \subseteq leases /\ revoked' = revoked
             /\ cancels' = cancels \/ cancels' = [cancels EXCEPT ![t] = leases]
  BY <1>4 DEF TearDetach, Detach
<1>5. ASSUME NEW t \in Teardowns, TearStops(t) \/ ExpireIdle(t) \/ TearCancelsLeases(t)
      PROVE  /\ epoch' = epoch /\ timer' \in {timer, 0} /\ firing' \subseteq firing
             /\ state' \in {state, "stopped"}
             /\ UNCHANGED <<runtime, startDone, leases, cancels>>
             /\ revoked' \subseteq revoked \cup cancels[t]
  BY <1>5 DEF TearStops, ExpireIdle, TearCancelsLeases, Stopped, tableVars
<1> DEFINE Same == UNCHANGED <<tableVars, firing, revoked, cancels>>
<1>6. ASSUME NEW t \in Teardowns, Revoke(t) \/ SnapshotGeneration(t) \/ TearAsksShutdown(t)
                                  \/ TearReleases(t) \/ TearDisconnects(t) \/ TearWaits(t) \/ WaitEnds(t)
      PROVE  Same
  BY <1>6 DEF Revoke, SnapshotGeneration, TearAsksShutdown, TearReleases, TearDisconnects, TearWaits,
     WaitEnds, tableVars, teardownVars
<1>7. ASSUME NEW c \in Calls, Acquire(c) \/ GiveUp(c) \/ Await(c) \/ BindLifetime(c) \/ LaunchHelper(c)
                              \/ Discard(c) \/ StartReturns(c) \/ StartError(c)
                              \/ StartErrorDisconnects(c) \/ HelperExits(c)
      PROVE  Same
  BY <1>7 DEF Acquire, GiveUp, Await, BindLifetime, LaunchHelper, Discard, StartReturns, StartError,
     StartErrorDisconnects, HelperExits, tableVars, teardownVars
<1>8. ASSUME \/ \E k \in Connects : BeginConnect(k) \/ FinishConnect(k)
             \/ UNCHANGED vars \/ \E r \in Teardowns \cup Calls : CancelContext(r)
      PROVE  Same
  BY <1>8 DEF BeginConnect, FinishConnect, CancelContext, vars, tableVars, teardownVars
<1>9. ASSUME TimerFires
      PROVE  /\ UNCHANGED <<tableVars, revoked, cancels>> /\ firing' = firing \cup {timer} /\ timer # 0
  BY <1>9 DEF TimerFires, tableVars, teardownVars
<1>10. CASE Same
  BY <1>10 DEF tableVars
<1>11. CASE TimerFires
  BY <1>9, <1>11 DEF tableVars
<1>12. CASE \E c \in Calls : Ensure(c) \/ FinishStart(c) \/ Grant(c) \/ ReleaseLease(c)
  BY <1>1, <1>2, <1>12
<1>13. CASE \E c \in Calls : Watching(c)
  BY <1>3, <1>13
<1>14. CASE \E t \in Teardowns : TearDetach(t)
  BY <1>4, <1>14
<1>15. CASE \E t \in Teardowns : TearStops(t) \/ ExpireIdle(t) \/ TearCancelsLeases(t)
  BY <1>5, <1>15
<1> HIDE DEF Same
<1> QED
  BY <1>6, <1>7, <1>8, <1>10, <1>11, <1>12, <1>13, <1>14, <1>15 DEF Next, Starting, Tearing

(* How helpers and the channels of the starts change.                      *)
LEMMA HelperMoves ==
  ASSUME CInv, [Next]_vars
  PROVE  /\ \/ UNCHANGED helper
            \/ \E c \in Calls : helper' = [helper EXCEPT ![c] = "running"] /\ call[c] = "launch"
            \/ \E c \in Calls : helper' = [helper EXCEPT ![c] = "exited"]
         /\ killed' = killed \/ \E c \in Calls : killed' = killed \cup {c}
         /\ finished' = finished \/ \E c \in Calls : finished' = finished \cup {c}
<1>1. ASSUME NEW c \in Calls, \/ LaunchHelper(c) \/ HelperExits(c) \/ Discard(c) \/ StartReturns(c)
      PROVE  /\ \/ UNCHANGED helper
                \/ helper' = [helper EXCEPT ![c] = "running"] /\ call[c] = "launch"
                \/ helper' = [helper EXCEPT ![c] = "exited"]
             /\ killed' = killed \/ killed' = killed \cup {c}
             /\ finished' = finished \/ finished' = finished \cup {c}
  BY <1>1 DEF LaunchHelper, HelperExits, Discard, StartReturns, callVars, helperVars
<1>2. ASSUME NEW t \in Teardowns, TearAsksShutdown(t)
      PROVE  /\ UNCHANGED <<helper, finished>>
             /\ \E c \in Calls : killed' = killed \cup {c}
  <2>1. tear[t].runtime \in Calls
    BY <1>2 DEF TearAsksShutdown, CInv, ShutsSomeDown, Locals
  <2> QED
    BY <1>2, <2>1 DEF TearAsksShutdown, callVars
<1> DEFINE Same == UNCHANGED <<helper, killed, finished>>
<1>3. ASSUME NEW c \in Calls,
             \/ Acquire(c) \/ GiveUp(c) \/ Ensure(c) \/ Await(c) \/ BindLifetime(c) \/ FinishStart(c)
             \/ StartError(c) \/ StartErrorDisconnects(c) \/ Grant(c) \/ ReleaseLease(c) \/ Watching(c)
      PROVE  Same
  BY <1>3 DEF Acquire, GiveUp, Ensure, Await, BindLifetime, FinishStart, StartError,
     StartErrorDisconnects, Grant, ReleaseLease, Watching, WatchExit, WatchReleases,
     WatchDisconnects, WatchStops, callVars, helperVars
<1>4. ASSUME NEW t \in Teardowns,
             \/ Revoke(t) \/ ExpireIdle(t) \/ SnapshotGeneration(t) \/ TearDetach(t)
             \/ TearCancelsLeases(t) \/ TearReleases(t) \/ TearDisconnects(t) \/ TearWaits(t)
             \/ WaitEnds(t) \/ TearStops(t)
      PROVE  Same
  BY <1>4 DEF Revoke, ExpireIdle, SnapshotGeneration, TearDetach, TearCancelsLeases, TearReleases,
     TearDisconnects, TearWaits, WaitEnds, TearStops, callVars, helperVars
<1>5. ASSUME \/ \E k \in Connects : BeginConnect(k) \/ FinishConnect(k)
             \/ TimerFires \/ UNCHANGED vars \/ \E r \in Teardowns \cup Calls : CancelContext(r)
      PROVE  Same
  BY <1>5 DEF BeginConnect, FinishConnect, TimerFires, CancelContext, vars, callVars, helperVars
<1>6. CASE Same
  BY <1>6
<1>7. CASE \E c \in Calls : \/ LaunchHelper(c) \/ HelperExits(c) \/ Discard(c) \/ StartReturns(c)
  BY <1>1, <1>7
<1>8. CASE \E t \in Teardowns : TearAsksShutdown(t)
  BY <1>2, <1>8
<1> HIDE DEF Same
<1> QED
  BY <1>3, <1>4, <1>5, <1>6, <1>7, <1>8 DEF Next, Starting, Tearing

(* Every step keeps the types.                                             *)
LEMMA TypesStep ==
  ASSUME CInv, [Next]_vars
  PROVE  TypeOK' /\ Locals' /\ ShutsSomeDown'
<1>1. (Connection!TypeOK)'
  <2>1. (Proved!TypeOK)'
    BY ConnectionStep DEF Proved!IInv
  <2>2. (Connection!TypeOK)' <=> (Proved!TypeOK)'
    <3>1. Connection!Generations = Proved!Generations
      BY DEF Connection!Generations, Proved!Generations, Connection!Cardinality,
             Proved!Cardinality
    <3> QED
      BY <3>1 DEF Connection!TypeOK, Proved!TypeOK
  <2> QED
    BY <2>1, <2>2
<1>2. epoch' \in Nat /\ timer' \in 0 .. epoch' /\ firing' \subseteq 1 .. epoch'
  <2>1. epoch \in Nat /\ timer \in 0 .. epoch /\ firing \subseteq 1 .. epoch
    BY DEF CInv, TypeOK
  <2>2. epoch' \in {epoch, epoch + 1} /\ timer' \in {timer, epoch, 0}
    BY TableMoves
  <2>3. epoch' \in Nat /\ timer' \in 0 .. epoch'
    BY <2>1, <2>2
  <2>4. ASSUME NEW e \in firing' PROVE e \in 1 .. epoch'
    <3>1. e \in firing \/ (e = timer /\ e # 0)
      BY <2>4, TableMoves
    <3>2. CASE e \in firing
      <4>1. e \in 1 .. epoch
        BY <2>1, <3>2
      <4> QED
        BY <2>1, <2>2, <4>1
    <3>3. CASE e = timer /\ e # 0
      BY <2>1, <2>2, <3>3
    <3> QED
      BY <3>1, <3>2, <3>3
  <2> QED
    BY <2>3, <2>4
<1>3. /\ leases \subseteq Calls /\ finished \subseteq Calls /\ killed \subseteq Calls
      /\ revoked \subseteq Calls /\ runtime \in Calls \cup {Nobody}
      /\ startDone \in Calls \cup {Nobody}
      /\ state \in {"stopped", "starting", "ready", "stopping", "closed"}
      /\ helper \in [Calls -> {"none", "running", "exited"}]
      /\ cancels \in [Teardowns \cup Calls -> SUBSET Calls]
  BY DEF CInv, TypeOK, Locals
<1>4. /\ leases' \subseteq Calls /\ runtime' \in Calls \cup {Nobody}
      /\ startDone' \in Calls \cup {Nobody}
      /\ state' \in {"stopped", "starting", "ready", "stopping", "closed"}
      /\ cancels' \in [Teardowns \cup Calls -> SUBSET Calls]
  BY <1>3, TableMoves
<1>5. revoked' \subseteq Calls
  BY <1>3, TableMoves
<1>6. /\ helper' \in [Calls -> {"none", "running", "exited"}]
      /\ killed' \subseteq Calls /\ finished' \subseteq Calls
  BY <1>3, HelperMoves
<1> QED
  BY <1>1, <1>2, <1>4, <1>5, <1>6, CallLocalsStep, TearLocalsStep DEF TypeOK, Locals

(* What a teardown remembers stays told, and once it has disconnected the  *)
(* generation it remembers is not live again.                              *)
LEMMA BarredStep ==
  ASSUME CInv, [Next]_vars
  PROVE  Barred'
<1> SUFFICES ASSUME NEW t \in Teardowns
             PROVE  /\ tear'[t].generation = 0 \/ tear'[t].generation \in Connection!Seen'
                    /\ tear'[t].at = "barrier" =>
                         ~(/\ tear'[t].generation # 0 /\ connection' = "ready"
                           /\ liveGeneration' = tear'[t].generation)
  BY DEF Barred, Connection!Live
<1> DEFINE g == tear[t].generation
<1>1. /\ g = 0 \/ g \in Connection!Seen
      /\ tear[t].at = "barrier" => ~Connection!Live(g)
      /\ tear[t] \in [at : TearStages, generation : Nat, closing : BOOLEAN,
                      runtime : Calls \cup {Nobody}]
      /\ tear \in [Teardowns -> [at : TearStages, generation : Nat, closing : BOOLEAN,
                                 runtime : Calls \cup {Nobody}]]
  BY DEF CInv, Barred, Locals
<1>2. liveGeneration = 0 \/ liveGeneration \in Connection!Seen
  BY LiveIsSeen DEF CInv
<1>3. \A h \in Connection!Seen : h \in Connection!Seen' /\ (h # liveGeneration => h # liveGeneration')
  BY ConnectionStep
<1>4. liveGeneration' # 0 <=> connection' = "ready"
  <2>1. (Proved!Numbers)' /\ (Proved!Told)'
    BY ConnectionStep DEF Proved!IInv
  <2> QED
    BY <2>1 DEF Proved!Numbers, Proved!Told, Proved!Seen
<1>5. connection = "ready" <=> liveGeneration # 0
  BY DEF CInv, Proved!IInv, Proved!Numbers, Proved!Told, Proved!Seen
<1>6. \/ tear'[t].generation = g /\ (tear'[t].at = "barrier" => tear[t].at = "barrier")
      \/ tear'[t].generation = liveGeneration /\ tear'[t].at = "snapshot"
      \/ tear'[t].generation = g /\ (Connection!Disconnect(t) \/ Connection!Close(t))
  <2>1. CASE tear'[t] = tear[t]
    BY <2>1
  <2>2. ASSUME NEW u \in Teardowns, Moves(u), u # t PROVE tear'[t] = tear[t]
    BY <1>1, <2>2 DEF Moves
  <2>3. CASE Moves(t)
    BY <1>1, <2>3 DEF Moves
  <2> QED
    BY <2>1, <2>2, <2>3, TearMoves
<1>7. Connection!Disconnect(t) \/ Connection!Close(t) => liveGeneration' = 0 \/ connection' = "closed"
  BY DEF Connection!Disconnect, Connection!Close, Connection!Revoke, Connection!Forget,
     Connection!connectVars
<1>8. g # liveGeneration' \/ g = 0 \/ g = liveGeneration
  BY <1>1, <1>3
<1>9. tear[t].at = "barrier" => g = 0 \/ g # liveGeneration
  BY <1>1, <1>5 DEF Connection!Live
<1> HIDE DEF g
<1>10. CASE tear'[t].generation = g /\ (tear'[t].at = "barrier" => tear[t].at = "barrier")
  <2>1. g = 0 \/ g \in Connection!Seen'
    BY <1>1, <1>3 DEF g
  <2>2. tear[t].at = "barrier" => ~(g # 0 /\ connection' = "ready" /\ liveGeneration' = g)
    BY <1>1, <1>3, <1>9 DEF g
  <2> QED
    BY <1>10, <2>1, <2>2 DEF g
<1>11. CASE tear'[t].generation = liveGeneration /\ tear'[t].at = "snapshot"
  BY <1>2, <1>3, <1>11
<1>12. CASE tear'[t].generation = g /\ (Connection!Disconnect(t) \/ Connection!Close(t))
  <2>1. g = 0 \/ g \in Connection!Seen'
    BY <1>1, <1>3 DEF g
  <2>2. ~(connection' = "ready" /\ liveGeneration' # 0)
    BY <1>4, <1>7, <1>12
  <2> QED
    BY <1>12, <2>1, <2>2 DEF g
<1> QED
  BY <1>6, <1>10, <1>11, <1>12

(* What holds whatever Barrier is, holds in every reachable state.         *)
LEMMA CInvHolds == Spec => []CInv
<1>1. CInv /\ [Next]_vars => CInv'
  BY ConnectionStep, TypesStep, BarredStep DEF CInv
<1> QED
  BY InitCInv, <1>1, PTL DEF Spec

(* The supervisor uses its connection as SshConnection allows, whether or  *)
(* not somebody connects during a teardown: the connection inside the      *)
(* composition behaves as the one specified alone.                         *)
THEOREM ConnectionIsUsedAsSpecified == Spec => Connection!Spec
<1>1. Init => Connection!Init
  BY DEF Init
<1>2. CInv /\ [Next]_vars => [Connection!Next]_(Connection!connectionVars)
  BY ConnectionSteps
<1> QED
  BY <1>1, <1>2, CInvHolds, PTL DEF Spec, Connection!Spec

(* So a revoke by a teardown, a failed start or an exited helper reaches   *)
(* every lifetime bound to the generation it forgets.                      *)
THEOREM TeardownRevokesReach == Spec => []Connection!RevokesReachEverything
<1>1. Proved!IInv => Connection!RevokesReachEverything
  <2>1. Proved!IInv => Proved!RevokesReachEverything
    <3> SUFFICES ASSUME Proved!IInv PROVE Proved!RevokedContextsAreCancelled
      BY DEF Proved!IInv, Proved!RevokesReachEverything
    <3>1. \A o \in contexts : boundTo[o] # liveGeneration => o \notin held
      BY DEF Proved!IInv, Proved!Contexts
    <3> QED
      BY <3>1 DEF Proved!IInv, Proved!Contexts, Proved!RevokedContextsAreCancelled
  <2>2. Proved!RevokesReachEverything => Connection!RevokesReachEverything
    BY SameStates DEF Proved!RevokesReachEverything, Connection!RevokesReachEverything,
       Proved!OneProbeCounts, Connection!OneProbeCounts, Proved!RevokedContextsAreCancelled,
       Connection!RevokedContextsAreCancelled, Proved!BarrierHolds, Connection!BarrierHolds,
       Proved!Bound, Connection!Bound
  <2> QED
    BY <2>1, <2>2
<1>2. CInv => Proved!IInv
  BY DEF CInv
<1> QED
  BY <1>1, <1>2, CInvHolds, PTL

(* Every variable keeps its type.                                          *)
THEOREM TypesHold == Spec => []TypeOK
<1>1. CInv => TypeOK
  BY DEF CInv
<1> QED
  BY <1>1, CInvHolds, PTL

-----------------------------------------------------------------------------
(* The steps of the supervisor                                             *)

Begins(c) ==
  /\ call[c] = "ensure" /\ state = "stopped" /\ Connection!Live(generation[c])
  /\ epoch' = epoch + 1 /\ myEpoch' = [myEpoch EXCEPT ![c] = epoch + 1]
  /\ state' = "starting" /\ runtime' = runtime
  /\ call' = [call EXCEPT ![c] = "bind"]
  /\ UNCHANGED <<connectionVars, leases, generation, leasedOn, helperVars, teardownVars>>

Accepts(c) ==
  /\ call[c] = "launched" /\ state = "starting" /\ epoch = myEpoch[c]
  /\ runtime' = c /\ state' = "ready"
  /\ watch' = [watch EXCEPT ![c] = "watching"]
  /\ call' = [call EXCEPT ![c] = "started"]
  /\ UNCHANGED <<connectionVars, epoch, leases, generation, myEpoch, leasedOn, helperVars,
                 revoked, tear, cancels>>

Refuses(c) ==
  /\ call[c] \in {"launched", "launch failed"}
  /\ call[c] = "launched" => ~MyStart(c)
  /\ state' = IF MyStart(c) THEN "stopped" ELSE state
  /\ call' = [call EXCEPT ![c] = IF call[c] = "launched" THEN "discard" ELSE "discard failed"]
  /\ UNCHANGED <<connectionVars, epoch, runtime, leases, generation, myEpoch, leasedOn,
                 helperVars, teardownVars>>

Exits(c) ==
  /\ watch[c] = "watching" /\ helper[c] = "exited"
  /\ runtime = c /\ epoch = myEpoch[c] /\ state = "ready"
  /\ epoch' = epoch + 1 /\ state' = "stopping" /\ runtime' = Nobody /\ leases' = {}
  /\ cancels' = [cancels EXCEPT ![c] = leases]
  /\ watch' = [watch EXCEPT ![c] = "detached"]
  /\ UNCHANGED <<connectionVars, callVars, helperVars, revoked, tear>>

Takes(t) ==
  /\ tear[t].at = "snapshot" /\ state # "closed"
  /\ epoch' = epoch + 1 /\ state' \in {"stopping", "closed"}
  /\ runtime' = Nobody /\ leases' = {}
  /\ cancels' = [cancels EXCEPT ![t] = leases]
  /\ tear' = [tear EXCEPT ![t].at = "detached", ![t].runtime = runtime]
  /\ UNCHANGED <<connectionVars, callVars, helperVars, revoked, watch>>

Stops ==
  /\ \/ \E c \in Calls : watch[c] = "stop" /\ watch' = [watch EXCEPT ![c] = "done"] /\ tear' = tear
     \/ \E t \in Teardowns : tear[t].at = "waiting" /\ tear' = [tear EXCEPT ![t].at = "done"]
                               /\ watch' = watch
  /\ state' = IF state = "closed" THEN "closed" ELSE "stopped"
  /\ UNCHANGED <<connectionVars, epoch, runtime, leases, callVars, helperVars, revoked, cancels>>

(* Only these steps change the state, the epoch or the helper.             *)
LEMMA StateMoves ==
  ASSUME [Next]_vars
  PROVE  \/ \E c \in Calls : Begins(c) \/ Accepts(c) \/ Refuses(c) \/ Exits(c)
         \/ \E t \in Teardowns : Takes(t)
         \/ Stops
         \/ UNCHANGED <<state, epoch, runtime, myEpoch>>
<1> DEFINE Same == UNCHANGED <<state, epoch, runtime, myEpoch>>
<1>1. ASSUME NEW c \in Calls, Ensure(c) PROVE Begins(c) \/ Same
  BY <1>1 DEF Ensure, Begin, Begins, Goto
<1>2. ASSUME NEW c \in Calls, FinishStart(c) PROVE Accepts(c) \/ Refuses(c)
  BY <1>2 DEF FinishStart, Accepts, Refuses, MyStart, Goto, teardownVars
<1>3. ASSUME NEW c \in Calls, WatchExit(c) PROVE Exits(c) \/ Same
  BY <1>3 DEF WatchExit, Detach, Exits, callVars
<1>4. ASSUME NEW t \in Teardowns, TearDetach(t) PROVE Takes(t) \/ Same
  BY <1>4 DEF TearDetach, Detach, Takes, callVars
<1>5. ASSUME NEW c \in Calls, WatchStops(c) PROVE Stops
  BY <1>5 DEF WatchStops, Stopped, Stops
<1>6. ASSUME NEW t \in Teardowns, TearStops(t) PROVE Stops
  BY <1>6 DEF TearStops, TearAt, Stopped, Stops
<1>7. ASSUME NEW c \in Calls,
             \/ Acquire(c) \/ GiveUp(c) \/ Await(c) \/ BindLifetime(c) \/ LaunchHelper(c)
             \/ Discard(c) \/ StartReturns(c) \/ StartError(c) \/ StartErrorDisconnects(c)
             \/ Grant(c) \/ ReleaseLease(c) \/ HelperExits(c)
             \/ WatchReleases(c) \/ WatchDisconnects(c)
      PROVE  Same
  BY <1>7 DEF Acquire, GiveUp, Await, BindLifetime, LaunchHelper, Discard, StartReturns, StartError,
     StartErrorDisconnects, Grant, ReleaseLease, HelperExits, WatchReleases, WatchDisconnects,
     tableVars, callVars
<1>8. ASSUME NEW t \in Teardowns,
             \/ Revoke(t) \/ ExpireIdle(t) \/ SnapshotGeneration(t) \/ TearCancelsLeases(t)
             \/ TearAsksShutdown(t) \/ TearReleases(t) \/ TearDisconnects(t) \/ TearWaits(t)
             \/ WaitEnds(t)
      PROVE  Same
  BY <1>8 DEF Revoke, ExpireIdle, SnapshotGeneration, TearCancelsLeases, TearAsksShutdown,
     TearReleases, TearDisconnects, TearWaits, WaitEnds, tableVars, callVars
<1>9. ASSUME \/ \E k \in Connects : BeginConnect(k) \/ FinishConnect(k)
             \/ TimerFires \/ UNCHANGED vars \/ \E r \in Teardowns \cup Calls : CancelContext(r)
      PROVE  Same
  BY <1>9 DEF BeginConnect, FinishConnect, TimerFires, CancelContext, vars, tableVars, callVars
<1> HIDE DEF Same
<1>10. ASSUME NEW c \in Calls, Starting(c) \/ Watching(c)
       PROVE  Begins(c) \/ Accepts(c) \/ Refuses(c) \/ Exits(c) \/ Stops \/ Same
  BY <1>1, <1>2, <1>3, <1>5, <1>7, <1>10 DEF Starting, Watching
<1>11. ASSUME NEW t \in Teardowns, Tearing(t) PROVE Takes(t) \/ Stops \/ Same
  BY <1>4, <1>6, <1>8, <1>11 DEF Tearing
<1>12. CASE Same
  BY <1>12 DEF Same
<1> QED
  BY <1>7, <1>8, <1>9, <1>10, <1>11, <1>12 DEF Next

(* The helper is known by its epoch.                                       *)
LEMMA EpochsStep ==
  ASSUME CInv, EpochIdentifiesRuntime, Downward, OwnEpochs, [Next]_vars
  PROVE  EpochIdentifiesRuntime' /\ OwnEpochs'
<1>0. /\ epoch \in Nat /\ myEpoch \in [Calls -> Nat] /\ runtime \in Calls \cup {Nobody}
      /\ Nobody \notin Calls
      /\ watch \in [Calls -> WatchStages]
  BY ActorsAreDistinct DEF CInv, TypeOK, Locals
<1>1. ASSUME NEW c \in Calls, Begins(c) PROVE EpochIdentifiesRuntime' /\ OwnEpochs'
  <2>1. \A d \in Calls : myEpoch[d] \in Nat /\ myEpoch[d] <= epoch
    BY <1>0 DEF OwnEpochs
  <2>2. \A d \in Calls : myEpoch'[d] = IF d = c THEN epoch + 1 ELSE myEpoch[d]
    BY <1>0, <1>1 DEF Begins
  <2>3. epoch' = epoch + 1 /\ state' = "starting" /\ runtime' = Nobody
    BY <1>1 DEF Begins, EpochIdentifiesRuntime
  <2>4. \A d \in Calls : myEpoch'[d] <= epoch'
    BY <1>0, <2>1, <2>2, <2>3
  <2>5. ASSUME NEW d \in Calls, NEW e \in Calls, myEpoch'[d] = myEpoch'[e], myEpoch'[d] # 0
        PROVE  d = e
    <3>1. myEpoch[d] # epoch + 1 /\ myEpoch[e] # epoch + 1
      BY <1>0, <2>1
    <3> QED
      BY <2>2, <2>5, <3>1 DEF OwnEpochs
  <2> QED
    BY <2>3, <2>4, <2>5 DEF EpochIdentifiesRuntime, OwnEpochs
<1>2. ASSUME NEW c \in Calls, Accepts(c) PROVE EpochIdentifiesRuntime' /\ OwnEpochs'
  BY <1>0, <1>2 DEF Accepts, EpochIdentifiesRuntime, OwnEpochs
<1>3. ASSUME NEW c \in Calls, Refuses(c) PROVE EpochIdentifiesRuntime' /\ OwnEpochs'
  BY <1>0, <1>3 DEF Refuses, MyStart, EpochIdentifiesRuntime, OwnEpochs
<1>4. ASSUME epoch' = epoch + 1, UNCHANGED myEpoch PROVE OwnEpochs'
  <2>1. \A d \in Calls : myEpoch[d] \in Nat /\ myEpoch[d] <= epoch
    BY <1>0 DEF OwnEpochs
  <2>2. \A d \in Calls : myEpoch[d] <= epoch + 1
    BY <1>0, <2>1
  <2> QED
    BY <1>4, <2>2 DEF OwnEpochs
<1>5. ASSUME NEW c \in Calls, Exits(c) PROVE EpochIdentifiesRuntime' /\ OwnEpochs'
  BY <1>4, <1>5 DEF Exits, callVars, EpochIdentifiesRuntime
<1>6. ASSUME NEW t \in Teardowns, Takes(t) PROVE EpochIdentifiesRuntime' /\ OwnEpochs'
  BY <1>4, <1>6 DEF Takes, callVars, EpochIdentifiesRuntime
<1>7. ASSUME Stops PROVE EpochIdentifiesRuntime' /\ OwnEpochs'
  <2>1. state # "ready"
    BY <1>7 DEF Stops, Downward, Past, WatchPast
  <2> QED
    BY <1>7, <2>1 DEF Stops, callVars, EpochIdentifiesRuntime, OwnEpochs
<1>8. CASE UNCHANGED <<state, epoch, runtime, myEpoch>>
  BY <1>8 DEF EpochIdentifiesRuntime, OwnEpochs
<1> QED
  BY <1>1, <1>2, <1>3, <1>5, <1>6, <1>7, <1>8, StateMoves

(* How the goroutine that watches a helper goes through its stages.        *)
LEMMA WatchMoves ==
  ASSUME [Next]_vars
  PROVE  \/ UNCHANGED watch
         \/ \E c \in Calls :
              \/ Accepts(c) \/ Exits(c)
              \/ /\ watch[c] = "watching" /\ watch' = [watch EXCEPT ![c] = "done"]
                 /\ ~(runtime = c /\ epoch = myEpoch[c] /\ state = "ready")
              \/ WatchReleases(c)
              \/ /\ watch[c] = "disconnect" /\ watch' = [watch EXCEPT ![c] = "stop"]
                 /\ Connection!Disconnect(c)
              \/ watch[c] = "stop" /\ watch' = [watch EXCEPT ![c] = "done"]
<1>1. ASSUME NEW c \in Calls, FinishStart(c) PROVE UNCHANGED watch \/ Accepts(c)
  BY <1>1 DEF FinishStart, Accepts, MyStart, Goto, teardownVars
<1>2. ASSUME NEW c \in Calls, WatchExit(c)
      PROVE  \/ Exits(c)
             \/ /\ watch[c] = "watching" /\ watch' = [watch EXCEPT ![c] = "done"]
                /\ ~(runtime = c /\ epoch = myEpoch[c] /\ state = "ready")
  BY <1>2 DEF WatchExit, Detach, Exits
<1>3. ASSUME NEW c \in Calls, WatchDisconnects(c)
      PROVE  /\ watch[c] = "disconnect" /\ watch' = [watch EXCEPT ![c] = "stop"]
             /\ Connection!Disconnect(c)
  BY <1>3 DEF WatchDisconnects
<1>4. ASSUME NEW c \in Calls, WatchStops(c)
      PROVE  watch[c] = "stop" /\ watch' = [watch EXCEPT ![c] = "done"]
  BY <1>4 DEF WatchStops
<1> DEFINE Same == UNCHANGED watch
<1>5. ASSUME NEW c \in Calls,
             \/ Acquire(c) \/ GiveUp(c) \/ Ensure(c) \/ Await(c) \/ BindLifetime(c)
             \/ LaunchHelper(c) \/ Discard(c) \/ StartReturns(c) \/ StartError(c)
             \/ StartErrorDisconnects(c) \/ Grant(c) \/ ReleaseLease(c) \/ HelperExits(c)
      PROVE  Same
  BY <1>5 DEF Acquire, GiveUp, Ensure, Await, BindLifetime, LaunchHelper, Discard, StartReturns,
     StartError, StartErrorDisconnects, Grant, ReleaseLease, HelperExits, teardownVars
<1>6. ASSUME NEW t \in Teardowns, Revoke(t) \/ ExpireIdle(t) \/ Tearing(t) PROVE Same
  BY <1>6 DEF Revoke, ExpireIdle, Tearing, SnapshotGeneration, TearDetach, TearCancelsLeases,
     TearAsksShutdown, TearReleases, TearDisconnects, TearWaits, WaitEnds, TearStops, teardownVars
<1>7. ASSUME \/ \E k \in Connects : BeginConnect(k) \/ FinishConnect(k)
             \/ TimerFires \/ UNCHANGED vars \/ \E r \in Teardowns \cup Calls : CancelContext(r)
      PROVE  Same
  BY <1>7 DEF BeginConnect, FinishConnect, TimerFires, CancelContext, vars, teardownVars
<1>8. CASE Same
  BY <1>8
<1> HIDE DEF Same
<1>9. ASSUME NEW c \in Calls, Starting(c) PROVE Same \/ FinishStart(c)
  BY <1>5, <1>9 DEF Starting
<1>10. CASE \E c \in Calls : \/ Acquire(c) \/ GiveUp(c) \/ Starting(c) \/ ReleaseLease(c)
                             \/ HelperExits(c) \/ Watching(c)
  BY <1>1, <1>2, <1>3, <1>4, <1>5, <1>8, <1>9, <1>10 DEF Watching
<1> QED
  BY <1>6, <1>7, <1>8, <1>10 DEF Next

(* Whoever is past the detach has somebody wait for the end.               *)
LEMMA PastIsNotQuiet ==
  /\ \A t \in Teardowns : Past(t) => ~Quiet
  /\ \A c \in Calls : WatchPast(c) => ~Quiet
BY DEF Past, WatchPast, Quiet, TornDown, Watched

(* While a teardown is under way nobody connects, so a target that was     *)
(* disconnected stays so.                                                  *)
LEMMA StaysDisconnected ==
  ASSUME Barrier, ~Quiet, Disconnected, CInv, [Next]_vars
  PROVE  Disconnected'
<1>1. ASSUME NEW k \in Connects, BeginConnect(k) PROVE FALSE
  BY <1>1 DEF BeginConnect
<1>2. ASSUME NEW k \in Connects, FinishConnect(k) PROVE connection' = connection
  BY <1>2 DEF FinishConnect, Connection!FinishConnect, Disconnected
<1>3. ASSUME NEW r \in Teardowns \cup Calls, Connection!Disconnect(r) \/ Connection!Close(r)
      PROVE  Disconnected'
  BY <1>3 DEF Connection!Disconnect, Connection!Close, Connection!Revoke, Connection!Forget,
     Connection!connectVars, Disconnected
<1>4. ASSUME \/ \E c \in Calls : \/ Connection!Bind(c, generation[c]) \/ Connection!Release(c)
             \/ \E r \in Teardowns \cup Calls : \E x \in taken[r] : Connection!Cancel(r, x)
             \/ \E t \in Teardowns : \/ TearWaits(t) \/ Connection!WaitEnds(t)
                                     \/ Connection!WaitTimesOut(t)
             \/ UNCHANGED connectionVars
      PROVE  connection' = connection
  BY <1>4 DEF Connection!Bind, Connection!Release, Connection!Cancel, TearWaits, Connection!Wait,
     Connection!WaitEnds, Connection!WaitTimesOut, Connection!connectVars, connectionVars
<1> QED
  BY <1>1, <1>2, <1>3, <1>4, Uses DEF Disconnected

(* A revoke of the connection leaves it disconnected or closed.            *)
LEMMA RevokeDisconnects ==
  ASSUME NEW r, Connection!Disconnect(r) \/ Connection!Close(r)
  PROVE  Disconnected'
BY DEF Connection!Disconnect, Connection!Close, Connection!Revoke, Connection!Forget,
   Connection!connectVars, Disconnected

Down == state \in {"stopping", "closed"} \/ (state = "stopped" /\ Disconnected)

(* The way down is not left while somebody is past the detach.             *)
LEMMA DownStays ==
  ASSUME Barrier, CInv, EpochIdentifiesRuntime, Downward, [Next]_vars, ~Quiet, Down
  PROVE  Down'
<1>1. Disconnected => Disconnected'
  BY StaysDisconnected
<1>2. ASSUME NEW c \in Calls, Begins(c) PROVE FALSE
  BY <1>2 DEF Begins, Down, Disconnected, Connection!Live
<1>3. ASSUME NEW c \in Calls, Accepts(c) PROVE FALSE
  BY <1>3 DEF Accepts, Down
<1>4. ASSUME NEW c \in Calls, Refuses(c) PROVE state' = state
  BY <1>4 DEF Refuses, MyStart, Down
<1>5. ASSUME NEW c \in Calls, Exits(c) PROVE FALSE
  BY <1>5 DEF Exits, Down
<1>6. ASSUME NEW t \in Teardowns, Takes(t) PROVE Down'
  BY <1>6 DEF Takes, Down
<1>7. ASSUME Stops PROVE Down'
  <2>1. Disconnected
    BY <1>7 DEF Stops, Downward
  <2> QED
    BY <1>1, <1>7, <2>1 DEF Stops, Down
<1> QED
  BY <1>1, <1>2, <1>3, <1>4, <1>5, <1>6, <1>7, StateMoves DEF Down

(* From the detach to the end, the supervisor is on its way down.          *)
LEMMA DownwardStep ==
  ASSUME Barrier, CInv, EpochIdentifiesRuntime, Downward, [Next]_vars
  PROVE  Downward'
<1>1. /\ tear \in [Teardowns -> [at : TearStages, generation : Nat, closing : BOOLEAN,
                                 runtime : Calls \cup {Nobody}]]
      /\ watch \in [Calls -> WatchStages]
  BY DEF CInv, Locals
<1>2. \A t \in Teardowns : Past(t) => Down /\ ~Quiet
  BY PastIsNotQuiet DEF Downward, Down
<1>3. \A c \in Calls : WatchPast(c) => Down /\ ~Quiet
  BY PastIsNotQuiet DEF Downward, Down
<1>4. ASSUME NEW t \in Teardowns
      PROVE  /\ Past(t)' => Down'
             /\ tear'[t].at \in {"barrier", "waiting"} => Disconnected'
  <2>1. \/ tear'[t].at = tear[t].at
        \/ tear[t].at = "barrier" /\ tear'[t].at = "waiting"
        \/ Past(t) /\ ~Past(t)'
        \/ Past(t) /\ tear'[t].at \in {"shutdown", "stopping", "disconnect"}
        \/ tear[t].at = "snapshot" /\ tear'[t].at = "detached"
        \/ Past(t) /\ tear'[t].at = "barrier" /\ (Connection!Disconnect(t) \/ Connection!Close(t))
        \/ ~Past(t)'
    <3>1. ASSUME NEW u \in Teardowns, Moves(u), u # t PROVE tear'[t] = tear[t]
      BY <1>1, <3>1 DEF Moves
    <3>2. CASE Moves(t)
      BY <1>1, <3>2 DEF Moves, Past
    <3> QED
      BY <3>1, <3>2, TearMoves
  <2>2. Past(t) => Down'
    BY <1>2, DownStays
  <2>3. tear[t].at = "snapshot" /\ tear'[t].at = "detached" => state' \in {"stopping", "closed"}
    <3> SUFFICES ASSUME tear[t].at = "snapshot", tear'[t].at = "detached"
                 PROVE  state' \in {"stopping", "closed"}
      OBVIOUS
    <3>1. ASSUME NEW u \in Teardowns, Moves(u), u # t PROVE FALSE
      BY <1>1, <3>1 DEF Moves
    <3>2. TearDetach(t)
      <4>1. Moves(t)
        BY <3>1, TearMoves
      <4>2. TearDetach(t) \/ tear' = [tear EXCEPT ![t].at = "done"]
        BY <4>1 DEF Moves
      <4> QED
        BY <1>1, <4>2
    <3>3. CASE state = "closed"
      <4>1. tear' = [tear EXCEPT ![t].at = "done"]
        BY <3>2, <3>3 DEF TearDetach, TearAt
      <4> QED
        BY <1>1, <4>1
    <3>4. CASE state # "closed"
      BY <3>2, <3>4 DEF TearDetach, Detach
    <3> QED
      BY <3>3, <3>4
  <2>4. tear[t].at \in {"barrier", "waiting"} => Disconnected'
    <3>1. tear[t].at \in {"barrier", "waiting"} => Disconnected /\ ~Quiet
      BY PastIsNotQuiet DEF Past, Downward
    <3> QED
      BY <3>1, StaysDisconnected
  <2> QED
    BY <2>1, <2>2, <2>3, <2>4, RevokeDisconnects DEF Past, Down
<1>5. ASSUME NEW c \in Calls
      PROVE  WatchPast(c)' => Down' /\ (watch'[c] = "stop" => Disconnected')
  <2>1. WatchPast(c) => Down'
    BY <1>3, DownStays
  <2>2. watch[c] = "stop" => Disconnected'
    BY PastIsNotQuiet, StaysDisconnected DEF WatchPast, Downward
  <2>3. ASSUME NEW d \in Calls, WatchReleases(d)
        PROVE watch[d] = "detached" /\ watch' = [watch EXCEPT ![d] = "disconnect"]
    BY <2>3 DEF WatchReleases
  <2>4. ASSUME NEW d \in Calls, Exits(d)
        PROVE  state' = "stopping" /\ watch' = [watch EXCEPT ![d] = "detached"]
    BY <2>4 DEF Exits
  <2>5. ASSUME NEW d \in Calls, Accepts(d) PROVE watch' = [watch EXCEPT ![d] = "watching"]
    BY <2>5 DEF Accepts
  <2>6. \/ watch'[c] = watch[c]
        \/ ~WatchPast(c)'
        \/ watch'[c] = "detached" /\ state' = "stopping"
        \/ watch[c] = "detached" /\ watch'[c] = "disconnect"
        \/ watch[c] = "disconnect" /\ watch'[c] = "stop" /\ Connection!Disconnect(c)
    BY <1>1, <2>3, <2>4, <2>5, WatchMoves DEF WatchPast
  <2> QED
    BY <2>1, <2>2, <2>6, RevokeDisconnects DEF WatchPast, Down
<1> QED
  BY <1>4, <1>5 DEF Downward, Down, Disconnected, Past, WatchPast

-----------------------------------------------------------------------------
(* A Call starts one helper                                                *)

(* The steps of a Call that concern no helper and no lease.                *)
Plain(c) ==
  /\ \E l \in CallStages :
       /\ call' = [call EXCEPT ![c] = l]
       /\ \/ call[c] = "ensure" /\ l \in {"grant", "await", "failed"}
          \/ call[c] = "await" /\ l \in {"ensure", "failed"}
          \/ call[c] \in {"grant", "disconnect"} /\ l = "failed"
          \/ call[c] = "started" /\ l = "ensure"
          \/ call[c] = "start failed" /\ l = "error"
          \/ call[c] = "error" /\ l \in {"failed", "disconnect"}
  /\ UNCHANGED <<state, epoch, runtime, leases, generation, myEpoch, leasedOn, helperVars,
                 teardownVars>>

Grants(c) ==
  /\ call[c] = "grant" /\ Admitted(c)
  /\ leases' = leases \cup {c}
  /\ leasedOn' = [leasedOn EXCEPT ![c] = runtime]
  /\ call' = [call EXCEPT ![c] = "leased"]
  /\ UNCHANGED <<connectionVars, state, epoch, runtime, generation, myEpoch, helperVars,
                 teardownVars>>

(* Every step moves one Call, or none.                                     *)
LEMMA CallMoves ==
  ASSUME [Next]_vars
  PROVE  \/ UNCHANGED <<call, generation, leasedOn>>
         \/ \E c \in Calls :
              \/ Plain(c) \/ Acquire(c) \/ Begins(c) \/ BindLifetime(c) \/ LaunchHelper(c)
              \/ Accepts(c) \/ Refuses(c) \/ Discard(c) \/ Grants(c) \/ ReleaseLease(c)
<1> DEFINE Same == UNCHANGED <<call, generation, leasedOn>>
<1>1. ASSUME NEW c \in Calls, Ensure(c) PROVE Begins(c) \/ Plain(c)
  <2>1. CASE state = "stopped" /\ Connection!Live(generation[c])
    BY <1>1, <2>1 DEF Ensure, Begin, Begins, Goto
  <2>2. CASE ~(state = "stopped" /\ Connection!Live(generation[c]))
    <3>1. \E l \in {"grant", "await", "failed"} : call' = [call EXCEPT ![c] = l]
      BY <1>1, <2>2 DEF Ensure, Goto
    <3>2. UNCHANGED <<state, epoch, runtime, leases, generation, myEpoch, leasedOn, helperVars,
                      teardownVars>>
      BY <1>1, <2>2 DEF Ensure
    <3> QED
      BY <1>1, <3>1, <3>2 DEF Ensure, Plain, CallStages
  <2> QED
    BY <2>1, <2>2
<1>2. ASSUME NEW c \in Calls, FinishStart(c) PROVE Accepts(c) \/ Refuses(c)
  BY <1>2 DEF FinishStart, Accepts, Refuses, MyStart, Goto, teardownVars
<1>3. ASSUME NEW c \in Calls, Grant(c) PROVE Grants(c) \/ Plain(c)
  BY <1>3 DEF Grant, Grants, Plain, Goto, CallStages
<1>4. ASSUME NEW c \in Calls, Await(c) \/ GiveUp(c) \/ StartReturns(c) PROVE Plain(c)
  BY <1>4 DEF Await, GiveUp, StartReturns, Plain, Goto, CallStages, tableVars
<1>5. ASSUME NEW c \in Calls, StartError(c) \/ StartErrorDisconnects(c) PROVE Plain(c)
  BY <1>5 DEF StartError, StartErrorDisconnects, Plain, Goto, CallStages, tableVars
<1>6. ASSUME NEW c \in Calls, HelperExits(c) \/ Watching(c) PROVE Same
  BY <1>6 DEF HelperExits, Watching, WatchExit, WatchReleases, WatchDisconnects, WatchStops,
     callVars
<1>7. ASSUME NEW t \in Teardowns, Revoke(t) \/ ExpireIdle(t) \/ Tearing(t) PROVE Same
  BY <1>7 DEF Revoke, ExpireIdle, Tearing, SnapshotGeneration, TearDetach, TearCancelsLeases,
     TearAsksShutdown, TearReleases, TearDisconnects, TearWaits, WaitEnds, TearStops, callVars
<1>8. ASSUME \/ \E k \in Connects : BeginConnect(k) \/ FinishConnect(k)
             \/ TimerFires \/ UNCHANGED vars \/ \E r \in Teardowns \cup Calls : CancelContext(r)
      PROVE  Same
  BY <1>8 DEF BeginConnect, FinishConnect, TimerFires, CancelContext, vars, callVars
<1> HIDE DEF Same
<1>9. ASSUME NEW c \in Calls, Starting(c)
      PROVE  \/ Plain(c) \/ Begins(c) \/ BindLifetime(c) \/ LaunchHelper(c)
             \/ Accepts(c) \/ Refuses(c) \/ Discard(c) \/ Grants(c)
  BY <1>1, <1>2, <1>3, <1>4, <1>5, <1>9 DEF Starting
<1>10. CASE Same
  BY <1>10 DEF Same
<1>11. CASE \E c \in Calls : \/ Acquire(c) \/ GiveUp(c) \/ Starting(c) \/ ReleaseLease(c)
                             \/ HelperExits(c) \/ Watching(c)
  BY <1>4, <1>6, <1>9, <1>10, <1>11
<1> QED
  BY <1>7, <1>8, <1>10, <1>11 DEF Next

(* A generation that was revoked stays revoked.                            *)
LEMMA DeadStays ==
  ASSUME CInv, [Next]_vars, NEW g, Dead(g)
  PROVE  Dead(g)'
BY ConnectionStep DEF Dead

(* What a Call asks for stays told.                                        *)
LEMMA AskedStep ==
  ASSUME CInv, Asked, [Next]_vars
  PROVE  Asked'
<1>0. /\ call \in [Calls -> CallStages] /\ generation \in [Calls -> Nat]
      /\ myEpoch \in [Calls -> Nat]
      /\ \A h \in Connection!Seen : h \in Connection!Seen'
  BY ConnectionStep DEF CInv, Locals
<1> SUFFICES ASSUME NEW c \in Calls
             PROVE  /\ call'[c] # "idle" => generation'[c] \in Connection!Seen'
                    /\ myEpoch'[c] # 0 => call'[c] # "idle"
  BY DEF Asked
<1>1. \/ call'[c] # "idle" /\ myEpoch'[c] = myEpoch[c] /\ generation'[c] \in Connection!Seen
      \/ call[c] # "idle" /\ call'[c] # "idle" /\ generation'[c] = generation[c]
      \/ call'[c] = call[c] /\ generation'[c] = generation[c]
  <2>1. ASSUME NEW d \in Calls, Acquire(d)
        PROVE  \/ call'[c] # "idle" /\ generation'[c] \in Connection!Seen /\ myEpoch'[c] = myEpoch[c]
               \/ call'[c] = call[c] /\ generation'[c] = generation[c]
    <3>1. liveGeneration \in Connection!Seen
      BY <2>1, LiveIsSeen DEF Acquire, CInv
    <3> QED
      BY <1>0, <2>1, <3>1 DEF Acquire, Goto
  <2>2. ASSUME NEW d \in Calls, Plain(d) \/ Begins(d) \/ Accepts(d) \/ Refuses(d) \/ Grants(d)
        PROVE  \/ call[c] # "idle" /\ call'[c] # "idle" /\ generation'[c] = generation[c]
               \/ call'[c] = call[c] /\ generation'[c] = generation[c]
    BY <1>0, <2>2 DEF Plain, Begins, Accepts, Refuses, Grants
  <2>3. ASSUME NEW d \in Calls, BindLifetime(d) \/ LaunchHelper(d) \/ Discard(d) \/ ReleaseLease(d)
        PROVE  \/ call[c] # "idle" /\ call'[c] # "idle" /\ generation'[c] = generation[c]
               \/ call'[c] = call[c] /\ generation'[c] = generation[c]
    BY <1>0, <2>3 DEF BindLifetime, LaunchHelper, Discard, ReleaseLease, Goto
  <2> QED
    BY <2>1, <2>2, <2>3, CallMoves
<1>2. myEpoch'[c] = myEpoch[c] \/ call'[c] # "idle"
  <2>1. ASSUME NEW d \in Calls, Begins(d) PROVE myEpoch'[c] = myEpoch[c] \/ call'[c] # "idle"
    BY <1>0, <2>1 DEF Begins
  <2>2. \/ UNCHANGED myEpoch \/ \E d \in Calls : Begins(d)
    BY StateMoves DEF Accepts, Refuses, Exits, Takes, Stops, callVars
  <2> QED
    BY <2>1, <2>2
<1> QED
  BY <1>0, <1>1, <1>2 DEF Asked

(* A Call asks for one generation.                                         *)
LEMMA AskedOnce ==
  ASSUME CInv, [Next]_vars, NEW c \in Calls, call[c] # "idle"
  PROVE  generation'[c] = generation[c]
<1>0. generation \in [Calls -> Nat]
  BY DEF CInv, Locals
<1>1. ASSUME NEW d \in Calls, Acquire(d) PROVE generation'[c] = generation[c]
  BY <1>0, <1>1 DEF Acquire
<1>2. ASSUME NEW d \in Calls, Plain(d) \/ Begins(d) \/ Accepts(d) \/ Refuses(d) \/ Grants(d)
      PROVE  generation'[c] = generation[c]
  BY <1>2 DEF Plain, Begins, Accepts, Refuses, Grants
<1>3. ASSUME NEW d \in Calls, BindLifetime(d) \/ LaunchHelper(d) \/ Discard(d) \/ ReleaseLease(d)
      PROVE  generation'[c] = generation[c]
  BY <1>3 DEF BindLifetime, LaunchHelper, Discard, ReleaseLease
<1> QED
  BY <1>1, <1>2, <1>3, CallMoves

(* A Call starts a helper once.                                            *)
LEMMA StartsOnceStep ==
  ASSUME CInv, EpochIdentifiesRuntime, Downward, OwnEpochs, Asked, StartsOnce, [Next]_vars
  PROVE  StartsOnce'
<1>0. /\ call \in [Calls -> CallStages] /\ myEpoch \in [Calls -> Nat] /\ Nobody \notin Calls
      /\ epoch \in Nat
  BY ActorsAreDistinct DEF CInv, Locals, TypeOK
<1> DEFINE InStart(c) == /\ state = "starting" /\ epoch = myEpoch[c]
                         /\ call[c] \in {"bind", "launch", "launched", "launch failed"}
           Ended(c) == call[c] \in {"discard failed", "start failed", "error", "disconnect", "failed"}
           Away == state \in {"stopping", "closed"}
           Once(c) == InStart(c) \/ runtime = c \/ Away \/ Dead(generation[c]) \/ Ended(c)
<1> SUFFICES ASSUME NEW c \in Calls, (myEpoch[c])' # 0 PROVE Once(c)'
  BY DEF StartsOnce
<1>1. myEpoch[c] # 0 =>
        /\ Once(c)
        /\ Dead(generation[c]) => Dead(generation[c])'
        /\ generation[c] \in Connection!Seen
        /\ (generation[c])' = generation[c]
  BY DeadStays, AskedOnce DEF StartsOnce, Asked, Dead
<1>2. ASSUME NEW d \in Calls, Begins(d) PROVE Once(c)'
  <2>1. CASE c = d
    BY <1>0, <1>2, <2>1 DEF Begins
  <2>2. CASE c # d
    <3>1. myEpoch[c] # 0 /\ state = "stopped" /\ (call[c])' = call[c]
      BY <1>0, <1>2, <2>2 DEF Begins
    <3>2. runtime # c
      BY <3>1, <1>0 DEF EpochIdentifiesRuntime
    <3>3. Dead(generation[c]) \/ Ended(c)
      BY <1>1, <3>1, <3>2
    <3> QED
      BY <1>1, <3>1, <3>3
  <2> QED
    BY <2>1, <2>2
<1>3. ASSUME NEW d \in Calls, Accepts(d) PROVE Once(c)'
  <2>1. CASE c = d
    BY <1>3, <2>1 DEF Accepts
  <2>2. CASE c # d
    <3>1. /\ myEpoch[c] # 0 /\ state = "starting" /\ (call[c])' = call[c] /\ epoch = myEpoch[d]
      BY <1>0, <1>3, <2>2 DEF Accepts
    <3>2. runtime # c /\ epoch # myEpoch[c]
      BY <1>0, <2>2, <3>1 DEF EpochIdentifiesRuntime, OwnEpochs
    <3>3. Dead(generation[c]) \/ Ended(c)
      BY <1>1, <3>1, <3>2
    <3> QED
      BY <1>1, <3>1, <3>3
  <2> QED
    BY <2>1, <2>2
<1>4. ASSUME NEW d \in Calls, Refuses(d) PROVE Once(c)'
  <2>0. myEpoch[c] # 0 /\ runtime' = runtime /\ epoch' = epoch /\ (myEpoch[c])' = myEpoch[c]
    BY <1>4 DEF Refuses
  <2>1. CASE c = d
    <3>1. call[c] = "launched" => ~MyStart(c) /\ state' = state
      BY <1>4, <2>1 DEF Refuses
    <3>2. call[c] = "launch failed" => Ended(c)'
      BY <1>0, <1>4, <2>1 DEF Refuses
    <3>3. call[c] \in {"launched", "launch failed"}
      BY <1>4, <2>1 DEF Refuses
    <3> QED
      BY <1>1, <2>0, <3>1, <3>2, <3>3 DEF MyStart
  <2>2. CASE c # d
    <3>1. (call[c])' = call[c]
      BY <1>0, <1>4, <2>2 DEF Refuses
    <3>2. CASE MyStart(d)
      <4>1. runtime # c /\ epoch # myEpoch[c] /\ state = "starting"
        BY <1>0, <2>0, <2>2, <3>2 DEF EpochIdentifiesRuntime, OwnEpochs, MyStart
      <4>2. Dead(generation[c]) \/ Ended(c)
        BY <1>1, <2>0, <4>1
      <4> QED
        BY <1>1, <2>0, <3>1, <4>2
    <3>3. CASE ~MyStart(d)
      <4>1. state' = state
        BY <1>4, <3>3 DEF Refuses
      <4> QED
        BY <1>1, <2>0, <3>1, <4>1
    <3> QED
      BY <3>2, <3>3
  <2> QED
    BY <2>1, <2>2
<1>5. ASSUME (\E d \in Calls : Exits(d)) \/ \E t \in Teardowns : Takes(t) PROVE Once(c)'
  BY <1>5 DEF Exits, Takes
<1>6. ASSUME Stops PROVE Once(c)'
  <2>1. Disconnected /\ myEpoch[c] # 0
    BY <1>6 DEF Stops, Downward, callVars
  <2>2. liveGeneration = 0
    BY <2>1, LiveIsSeen DEF Disconnected, CInv
  <2>3. generation[c] # 0
    BY <1>1, <2>1 DEF Connection!Seen
  <2> QED
    BY <1>1, <2>1, <2>2, <2>3, DeadStays DEF Dead
<1>7. ASSUME UNCHANGED <<state, epoch, runtime, myEpoch>> PROVE Once(c)'
  <2>1. Ended(c) => Ended(c)'
    <3>1. ASSUME NEW d \in Calls, \/ Plain(d) \/ Begins(d) \/ Accepts(d) \/ Refuses(d) \/ Grants(d)
                 PROVE Ended(c) => Ended(c)'
      BY <1>0, <3>1 DEF Plain, Begins, Accepts, Refuses, Grants
    <3>2. ASSUME NEW d \in Calls, \/ Acquire(d) \/ BindLifetime(d) \/ LaunchHelper(d) \/ Discard(d)
                                  \/ ReleaseLease(d)
          PROVE  Ended(c) => Ended(c)'
      BY <1>0, <3>2 DEF Acquire, BindLifetime, LaunchHelper, Discard, ReleaseLease, Goto
    <3> QED
      BY <3>1, <3>2, CallMoves
  <2>2. InStart(c) => Once(c)'
    <3> SUFFICES ASSUME InStart(c) PROVE Once(c)'
      OBVIOUS
    <3>1. ASSUME NEW d \in Calls, Plain(d) \/ Begins(d) \/ Accepts(d) \/ Grants(d)
          PROVE  (call[c])' = call[c] \/ runtime' = c
      BY <1>0, <3>1 DEF Plain, Begins, Accepts, Grants
    <3>2. ASSUME NEW d \in Calls, Refuses(d) PROVE (call[c])' = call[c] \/ Ended(c)'
      BY <1>0, <3>2 DEF Refuses, MyStart
    <3>3. ASSUME NEW d \in Calls, \/ Acquire(d) \/ BindLifetime(d) \/ LaunchHelper(d) \/ Discard(d)
                                  \/ ReleaseLease(d)
          PROVE  (call[c])' \in {"bind", "launch", "launched", "launch failed"}
      BY <1>0, <3>3 DEF Acquire, BindLifetime, LaunchHelper, Discard, ReleaseLease, Goto
    <3> QED
      BY <1>7, <3>1, <3>2, <3>3, CallMoves
  <2>3. runtime = c \/ Away => Once(c)'
    BY <1>7
  <2> QED
    BY <1>1, <1>7, <2>1, <2>2, <2>3
<1> QED
  BY <1>2, <1>3, <1>4, <1>5, <1>6, <1>7, StateMoves

(* A Call that starts a helper has started none before.                    *)
LEMMA FirstStart ==
  ASSUME CInv, EpochIdentifiesRuntime, StartsOnce, NEW c \in Calls, Begins(c)
  PROVE  myEpoch[c] = 0
<1>1. state = "stopped" /\ Connection!Live(generation[c]) /\ call[c] = "ensure"
  BY DEF Begins
<1>2. runtime # c
  BY <1>1, ActorsAreDistinct DEF EpochIdentifiesRuntime
<1> QED
  BY <1>1, <1>2 DEF StartsOnce, Dead, Connection!Live

-----------------------------------------------------------------------------
(* One Call at a time                                                      *)

(* What a step does to one Call's place and lease.                         *)
LEMMA CallWay ==
  ASSUME CInv, [Next]_vars, NEW c \in Calls
  PROVE  /\ \/ call'[c] = call[c]
            \/ Begins(c) /\ call'[c] = "bind"
            \/ Accepts(c) /\ call'[c] = "started"
            \/ call[c] = "bind" /\ call'[c] \in {"launch", "launch failed"}
            \/ call[c] = "launch" /\ call'[c] \in {"launched", "launch failed"}
            \/ call[c] = "launched" /\ call'[c] = "discard"
            \/ call[c] = "launch failed" /\ call'[c] = "discard failed"
            \/ ~Starts(c) /\ call[c] # "released" /\ ~Starts(c)' /\ call'[c] # "idle"
                 /\ (call[c] = "leased" => call'[c] = "released")
            \/ Discard(c) /\ call'[c] \in {"started", "start failed"}
         /\ \/ leasedOn'[c] = leasedOn[c]
            \/ Grants(c) /\ leasedOn'[c] = runtime
<1>0. /\ call \in [Calls -> CallStages] /\ leasedOn \in [Calls -> Calls \cup {Nobody}]
  BY DEF CInv, Locals
<1>1. ASSUME NEW d \in Calls, d # c,
             \/ Plain(d) \/ Begins(d) \/ Accepts(d) \/ Refuses(d) \/ Grants(d)
             \/ Acquire(d) \/ BindLifetime(d) \/ LaunchHelper(d) \/ Discard(d) \/ ReleaseLease(d)
      PROVE  call'[c] = call[c] /\ leasedOn'[c] = leasedOn[c]
  BY <1>0, <1>1 DEF Plain, Begins, Accepts, Refuses, Grants, Acquire, BindLifetime, LaunchHelper,
     Discard, ReleaseLease, Goto
<1>2. ASSUME Plain(c)
      PROVE  /\ ~Starts(c) /\ call[c] \notin {"leased", "released"}
             /\ ~Starts(c)' /\ call'[c] # "idle" /\ leasedOn'[c] = leasedOn[c]
  BY <1>0, <1>2 DEF Plain, Starts
<1>3. Begins(c) => call'[c] = "bind" /\ leasedOn'[c] = leasedOn[c]
  BY <1>0 DEF Begins
<1>4. Accepts(c) => call'[c] = "started" /\ leasedOn'[c] = leasedOn[c]
  BY <1>0 DEF Accepts
<1>5. Refuses(c) => /\ \/ call[c] = "launched" /\ call'[c] = "discard"
                       \/ call[c] = "launch failed" /\ call'[c] = "discard failed"
                    /\ leasedOn'[c] = leasedOn[c]
  BY <1>0 DEF Refuses
<1>6. Grants(c) => /\ ~Starts(c) /\ call[c] \notin {"leased", "released"} /\ ~Starts(c)'
                   /\ call'[c] # "idle" /\ leasedOn'[c] = runtime
  BY <1>0 DEF Grants, Starts
<1>7. Acquire(c) \/ ReleaseLease(c) =>
        /\ ~Starts(c) /\ call[c] # "released" /\ ~Starts(c)' /\ call'[c] # "idle"
        /\ call[c] = "leased" => call'[c] = "released"
        /\ leasedOn'[c] = leasedOn[c]
  BY <1>0 DEF Acquire, ReleaseLease, Goto, Starts
<1>8. BindLifetime(c) => /\ call[c] = "bind" /\ call'[c] \in {"launch", "launch failed"}
                         /\ leasedOn'[c] = leasedOn[c]
  BY <1>0 DEF BindLifetime, Goto
<1>9. LaunchHelper(c) => /\ call[c] = "launch" /\ call'[c] \in {"launched", "launch failed"}
                         /\ leasedOn'[c] = leasedOn[c]
  BY <1>0 DEF LaunchHelper, Goto
<1>10. Discard(c) => call'[c] \in {"started", "start failed"} /\ leasedOn'[c] = leasedOn[c]
  BY <1>0 DEF Discard, Goto
<1>11. CASE UNCHANGED <<call, generation, leasedOn>>
  BY <1>11
<1>12. CASE \E d \in Calls : /\ d # c
                             /\ \/ Plain(d) \/ Begins(d) \/ Accepts(d) \/ Refuses(d) \/ Grants(d)
                                \/ Acquire(d) \/ BindLifetime(d) \/ LaunchHelper(d) \/ Discard(d)
                                \/ ReleaseLease(d)
  BY <1>1, <1>12
<1>13. CASE \/ Plain(c) \/ Begins(c) \/ Accepts(c) \/ Refuses(c) \/ Grants(c) \/ Acquire(c)
            \/ BindLifetime(c) \/ LaunchHelper(c) \/ Discard(c) \/ ReleaseLease(c)
  BY <1>2, <1>3, <1>4, <1>5, <1>6, <1>7, <1>8, <1>9, <1>10, <1>13
<1> QED
  BY <1>11, <1>12, <1>13, CallMoves

(* What a step does to the helper of one Call.                             *)
LEMMA HelperWay ==
  ASSUME CInv, [Next]_vars, NEW c \in Calls
  PROVE  \/ helper'[c] = helper[c]
         \/ call[c] = "launch" /\ helper'[c] = "running" /\ call'[c] = "launched" /\ watch' = watch
         \/ helper[c] = "running" /\ helper'[c] = "exited" /\ call' = call /\ watch' = watch
<1>0. /\ helper \in [Calls -> {"none", "running", "exited"}] /\ call \in [Calls -> CallStages]
  BY DEF CInv, Locals, TypeOK
<1>1. ASSUME NEW d \in Calls, LaunchHelper(d) \/ HelperExits(d)
      PROVE  \/ helper'[c] = helper[c]
             \/ call[c] = "launch" /\ helper'[c] = "running" /\ call'[c] = "launched" /\ watch' = watch
             \/ helper[c] = "running" /\ helper'[c] = "exited" /\ call' = call /\ watch' = watch
  BY <1>0, <1>1 DEF LaunchHelper, HelperExits, Goto, callVars, teardownVars
<1> DEFINE Same == UNCHANGED helper
<1>2. ASSUME NEW d \in Calls,
             \/ Acquire(d) \/ GiveUp(d) \/ Ensure(d) \/ Await(d) \/ BindLifetime(d) \/ FinishStart(d)
             \/ StartError(d) \/ StartErrorDisconnects(d) \/ Grant(d) \/ ReleaseLease(d)
             \/ Discard(d) \/ StartReturns(d) \/ Watching(d)
      PROVE  Same
  BY <1>2 DEF Acquire, GiveUp, Ensure, Await, BindLifetime, FinishStart, StartError,
     StartErrorDisconnects, Grant, ReleaseLease, Discard, StartReturns, Watching, WatchExit,
     WatchReleases, WatchDisconnects, WatchStops, helperVars
<1>3. ASSUME NEW t \in Teardowns, Revoke(t) \/ ExpireIdle(t) \/ Tearing(t) PROVE Same
  BY <1>3 DEF Revoke, ExpireIdle, Tearing, SnapshotGeneration, TearDetach, TearCancelsLeases,
     TearAsksShutdown, TearReleases, TearDisconnects, TearWaits, WaitEnds, TearStops, helperVars
<1>4. ASSUME \/ \E k \in Connects : BeginConnect(k) \/ FinishConnect(k)
             \/ TimerFires \/ UNCHANGED vars \/ \E r \in Teardowns \cup Calls : CancelContext(r)
      PROVE  Same
  BY <1>4 DEF BeginConnect, FinishConnect, TimerFires, CancelContext, vars, helperVars
<1>5. CASE Same
  BY <1>5
<1> HIDE DEF Same
<1>6. CASE \E d \in Calls : \/ Acquire(d) \/ GiveUp(d) \/ Starting(d) \/ ReleaseLease(d)
                            \/ HelperExits(d) \/ Watching(d)
  BY <1>1, <1>2, <1>5, <1>6 DEF Starting
<1> QED
  BY <1>3, <1>4, <1>5, <1>6 DEF Next

(* Who ends a helper: its own start when it is refused, or a teardown.     *)
LEMMA KilledWay ==
  ASSUME CInv, [Next]_vars, NEW c \in Calls, c \in killed'
  PROVE  \/ c \in killed
         \/ Discard(c) /\ helper[c] # "none"
         \/ \E t \in Teardowns : TearAsksShutdown(t) /\ tear[t].runtime = c
<1>1. ASSUME NEW d \in Calls, Discard(d) PROVE c \in killed \/ (c = d /\ helper[d] # "none")
  BY <1>1 DEF Discard
<1>2. ASSUME NEW t \in Teardowns, TearAsksShutdown(t) PROVE c \in killed \/ c = tear[t].runtime
  BY <1>2 DEF TearAsksShutdown
<1> DEFINE Same == UNCHANGED killed
<1>3. ASSUME NEW d \in Calls,
             \/ Acquire(d) \/ GiveUp(d) \/ Ensure(d) \/ Await(d) \/ BindLifetime(d) \/ FinishStart(d)
             \/ StartError(d) \/ StartErrorDisconnects(d) \/ Grant(d) \/ ReleaseLease(d)
             \/ LaunchHelper(d) \/ HelperExits(d) \/ StartReturns(d) \/ Watching(d)
      PROVE  Same
  BY <1>3 DEF Acquire, GiveUp, Ensure, Await, BindLifetime, FinishStart, StartError,
     StartErrorDisconnects, Grant, ReleaseLease, LaunchHelper, HelperExits, StartReturns, Watching,
     WatchExit, WatchReleases, WatchDisconnects, WatchStops, helperVars
<1>4. ASSUME NEW t \in Teardowns,
             \/ Revoke(t) \/ ExpireIdle(t) \/ SnapshotGeneration(t) \/ TearDetach(t)
             \/ TearCancelsLeases(t) \/ TearReleases(t) \/ TearDisconnects(t) \/ TearWaits(t)
             \/ WaitEnds(t) \/ TearStops(t)
      PROVE  Same
  BY <1>4 DEF Revoke, ExpireIdle, SnapshotGeneration, TearDetach, TearCancelsLeases, TearReleases,
     TearDisconnects, TearWaits, WaitEnds, TearStops, helperVars
<1>5. ASSUME \/ \E k \in Connects : BeginConnect(k) \/ FinishConnect(k)
             \/ TimerFires \/ UNCHANGED vars \/ \E r \in Teardowns \cup Calls : CancelContext(r)
      PROVE  Same
  BY <1>5 DEF BeginConnect, FinishConnect, TimerFires, CancelContext, vars, helperVars
<1>6. CASE Same
  BY <1>6
<1> HIDE DEF Same
<1>7. CASE \E d \in Calls : \/ Acquire(d) \/ GiveUp(d) \/ Starting(d) \/ ReleaseLease(d)
                            \/ HelperExits(d) \/ Watching(d)
  BY <1>1, <1>3, <1>6, <1>7 DEF Starting
<1>8. CASE \E t \in Teardowns : Revoke(t) \/ ExpireIdle(t) \/ Tearing(t)
  BY <1>2, <1>4, <1>6, <1>8 DEF Tearing
<1> QED
  BY <1>5, <1>6, <1>7, <1>8 DEF Next

(* What a step does to the goroutine that watches one helper.              *)
LEMMA WatchWay ==
  ASSUME CInv, EpochIdentifiesRuntime, [Next]_vars, NEW c \in Calls
  PROVE  \/ watch'[c] = watch[c]
         \/ Accepts(c) /\ watch'[c] = "watching"
         \/ Exits(c) /\ watch'[c] = "detached"
         \/ watch[c] = "watching" /\ watch'[c] = "done" /\ runtime # c
         \/ watch[c] = "detached" /\ watch'[c] = "disconnect" /\ WatchReleases(c)
         \/ watch[c] = "disconnect" /\ watch'[c] = "stop"
         \/ watch[c] = "stop" /\ watch'[c] = "done"
<1>0. watch \in [Calls -> WatchStages] /\ Nobody \notin Calls
  BY ActorsAreDistinct DEF CInv, Locals
<1>1. ASSUME NEW d \in Calls, Accepts(d) PROVE watch'[c] = IF d = c THEN "watching" ELSE watch[c]
  BY <1>0, <1>1 DEF Accepts
<1>2. ASSUME NEW d \in Calls, Exits(d) PROVE watch'[c] = IF d = c THEN "detached" ELSE watch[c]
  BY <1>0, <1>2 DEF Exits
<1>3. ASSUME NEW d \in Calls, WatchReleases(d)
      PROVE  /\ watch'[c] = IF d = c THEN "disconnect" ELSE watch[c]
             /\ watch[d] = "detached"
  BY <1>0, <1>3 DEF WatchReleases
<1>4. ASSUME NEW d \in Calls, watch[d] = "watching", watch' = [watch EXCEPT ![d] = "done"],
             ~(runtime = d /\ epoch = myEpoch[d] /\ state = "ready")
      PROVE  watch'[c] = watch[c] \/ (watch[c] = "watching" /\ watch'[c] = "done" /\ runtime # c)
  BY <1>0, <1>4 DEF EpochIdentifiesRuntime
<1>5. ASSUME NEW d \in Calls, NEW a \in {"disconnect", "stop"}, NEW b \in {"stop", "done"},
             watch[d] = a, watch' = [watch EXCEPT ![d] = b]
      PROVE  watch'[c] = watch[c] \/ (watch[c] = a /\ watch'[c] = b)
  BY <1>0, <1>5
<1> QED
  BY <1>1, <1>2, <1>3, <1>4, <1>5, WatchMoves

(* A lifetime is bound by its own start only, and what was cancelled stays *)
(* cancelled.                                                              *)
LEMMA ContextWay ==
  ASSUME CInv, [Next]_vars
  PROVE  /\ cancelled \subseteq cancelled'
         /\ \A c \in Calls : c \in contexts' =>
              c \in contexts \/ (call[c] = "bind" /\ call'[c] = "launch")
<1>0. call \in [Calls -> CallStages]
  BY DEF CInv, Locals
<1>1. ASSUME NEW k \in Connects, BeginConnect(k) \/ FinishConnect(k)
      PROVE  cancelled \subseteq cancelled' /\ contexts' = contexts
  BY <1>1 DEF BeginConnect, FinishConnect, Connection!BeginConnect, Connection!FinishConnect,
     Connection!contextVars
<1>2. ASSUME NEW d \in Calls, BindLifetime(d), Connection!Live(generation[d]),
             Connection!Bind(d, generation[d])
      PROVE  /\ cancelled' = cancelled
             /\ \A c \in Calls : c \in contexts' =>
                  c \in contexts \/ (call[c] = "bind" /\ call'[c] = "launch")
  <2>1. cancelled' = cancelled /\ contexts' = contexts \cup {d}
    BY <1>2 DEF Connection!Bind
  <2>2. call[d] = "bind" /\ call' = [call EXCEPT ![d] = "launch"]
    BY <1>2 DEF BindLifetime, Goto
  <2> QED
    BY <1>0, <2>1, <2>2
<1>3. ASSUME NEW d \in Calls, Connection!Release(d)
      PROVE  cancelled \subseteq cancelled' /\ contexts' \subseteq contexts
  BY <1>3 DEF Connection!Release
<1>4. ASSUME NEW r \in Teardowns \cup Calls,
             \/ Connection!Disconnect(r) \/ Connection!Close(r)
             \/ \E x \in taken[r] : Connection!Cancel(r, x)
      PROVE  cancelled \subseteq cancelled' /\ contexts' = contexts
  BY <1>4 DEF Connection!Disconnect, Connection!Close, Connection!Revoke, Connection!Cancel,
     Connection!contextVars
<1>5. ASSUME NEW t \in Teardowns, TearWaits(t) \/ Connection!WaitEnds(t) \/ Connection!WaitTimesOut(t)
      PROVE  cancelled' = cancelled /\ contexts' = contexts
  BY <1>5 DEF TearWaits, Connection!Wait, Connection!WaitEnds, Connection!WaitTimesOut,
     Connection!contextVars
<1>6. UNCHANGED connectionVars => cancelled' = cancelled /\ contexts' = contexts
  BY DEF connectionVars
<1> QED
  BY Uses, <1>1, <1>2, <1>3, <1>4, <1>5, <1>6

(* A lifetime that was released is not bound.                              *)
LEMMA Released ==
  ASSUME NEW c, ReleaseLifetime(c)
  PROVE  c \notin contexts' /\ contexts' \subseteq contexts
BY DEF ReleaseLifetime, Connection!Release, connectionVars

(* What a step does to the helper of the supervisor.                       *)
LEMMA RuntimeWay ==
  ASSUME [Next]_vars
  PROVE  \/ runtime' = runtime
         \/ \E c \in Calls : Accepts(c)
         \/ runtime' = Nobody /\ \E c \in Calls : Exits(c)
         \/ runtime' = Nobody /\ \E t \in Teardowns : Takes(t)
BY StateMoves DEF Begins, Refuses, Stops, Exits, Takes

(* Every step keeps the stages of the helpers.                             *)
LEMMA StagesStep ==
  ASSUME CInv, EpochIdentifiesRuntime, StartsOnce, Stages, Taken, [Next]_vars
  PROVE  Stages'
<1>0. /\ Nobody \notin Calls /\ runtime \in Calls \cup {Nobody} /\ runtime' \in Calls \cup {Nobody}
      /\ call \in [Calls -> CallStages] /\ myEpoch \in [Calls -> Nat]
      /\ epoch \in Nat
  BY ActorsAreDistinct, TypesStep DEF CInv, Locals, TypeOK
<1> SUFFICES ASSUME NEW c \in Calls
             PROVE  /\ (myEpoch[c])' = 0 =>
                         /\ ~Starts(c)' /\ (helper[c])' = "none" /\ (watch[c])' = "none"
                         /\ c \notin killed' \cup contexts'
                    /\ Starts(c)' => (watch[c])' = "none" /\ c \notin killed'
                    /\ (call[c])' \in {"bind", "launch", "launch failed", "discard failed"} =>
                         (helper[c])' = "none"
                    /\ WatchPast(c)' => (helper[c])' = "exited"
                    /\ (watch[c])' = "none" => \A d \in Calls : (leasedOn[d])' # c
                    /\ runtime' = c => (watch[c])' = "watching" /\ c \notin killed'
                    /\ (leasedOn[c])' # Nobody => (call[c])' \in {"leased", "released"}
  BY DEF Stages
<1>1. /\ myEpoch[c] = 0 =>
           ~Starts(c) /\ helper[c] = "none" /\ watch[c] = "none" /\ c \notin killed \cup contexts
      /\ Starts(c) => watch[c] = "none" /\ c \notin killed
      /\ call[c] \in {"bind", "launch", "launch failed", "discard failed"} => helper[c] = "none"
      /\ WatchPast(c) => helper[c] = "exited"
      /\ watch[c] = "none" => \A d \in Calls : leasedOn[d] # c
      /\ runtime = c => watch[c] = "watching" /\ c \notin killed
      /\ leasedOn[c] # Nobody => call[c] \in {"leased", "released"}
  BY DEF Stages
<1>2. (myEpoch[c])' = 0 => myEpoch[c] = 0 /\ ~Begins(c)
  <2>1. ASSUME NEW d \in Calls, Begins(d)
        PROVE  (myEpoch[c])' = IF d = c THEN epoch + 1 ELSE myEpoch[c]
    BY <1>0, <2>1 DEF Begins
  <2>2. epoch + 1 # 0
    BY <1>0
  <2>3. UNCHANGED myEpoch \/ \E d \in Calls : Begins(d)
    BY StateMoves DEF Accepts, Refuses, Exits, Takes, Stops, callVars
  <2> QED
    BY <2>1, <2>2, <2>3
<1>3. Begins(c) => myEpoch[c] = 0
  BY FirstStart
<1>4. c \in killed' =>
        \/ c \in killed
        \/ Starts(c) /\ ~Starts(c)' /\ helper[c] # "none"
        \/ runtime # c /\ watch[c] # "none"
  <2>1. ASSUME Discard(c), helper[c] # "none" PROVE Starts(c) /\ ~Starts(c)'
    BY <1>0, <2>1 DEF Discard, Goto, Starts
  <2>2. ASSUME NEW t \in Teardowns, TearAsksShutdown(t), tear[t].runtime = c
        PROVE  runtime # c /\ watch[c] # "none"
    BY <1>0, <2>2 DEF Taken
  <2> QED
    BY <2>1, <2>2, KilledWay
<1>5. Starts(c)' => Starts(c) \/ Begins(c)
  BY CallWay DEF Starts, Accepts
<1>6. Starts(c)' => (watch[c])' = "none" /\ c \notin killed'
  <2>1. Starts(c)' => watch[c] = "none" /\ c \notin killed
    BY <1>1, <1>3, <1>5
  <2>2. Accepts(c) => (call[c])' = "started"
    BY <1>0 DEF Accepts
  <2>3. Exits(c) => watch[c] = "watching"
    BY DEF Exits
  <2> QED
    BY <1>4, <2>1, <2>2, <2>3, WatchWay DEF Starts
<1>7. (myEpoch[c])' = 0 =>
        /\ ~Starts(c)' /\ (helper[c])' = "none" /\ (watch[c])' = "none"
        /\ c \notin killed' \cup contexts'
  <2> SUFFICES ASSUME (myEpoch[c])' = 0
               PROVE  /\ ~Starts(c)' /\ (helper[c])' = "none" /\ (watch[c])' = "none"
                      /\ c \notin killed' \cup contexts'
    OBVIOUS
  <2>1. /\ ~Starts(c) /\ helper[c] = "none" /\ watch[c] = "none" /\ c \notin killed \cup contexts
        /\ ~Begins(c) /\ ~Accepts(c) /\ ~Exits(c)
    BY <1>1, <1>2 DEF Accepts, Starts, Exits
  <2>2. ~Starts(c)'
    BY <1>5, <2>1
  <2>3. (watch[c])' = "none" /\ (helper[c])' = "none"
    BY <2>1, WatchWay, HelperWay DEF Starts
  <2>4. c \notin killed' /\ c \notin contexts'
    BY <1>4, <2>1, ContextWay DEF Starts
  <2> QED
    BY <2>2, <2>3, <2>4
<1>8. (call[c])' \in {"bind", "launch", "launch failed", "discard failed"} => (helper[c])' = "none"
  <2> SUFFICES ASSUME (call[c])' \in {"bind", "launch", "launch failed", "discard failed"}
               PROVE  (helper[c])' = "none"
    OBVIOUS
  <2>1. helper[c] = "none"
    BY <1>1, <1>3, CallWay DEF Starts, Accepts
  <2> QED
    BY <2>1, HelperWay
<1>9. WatchPast(c)' => (helper[c])' = "exited"
  <2> SUFFICES ASSUME WatchPast(c)' PROVE (helper[c])' = "exited"
    OBVIOUS
  <2>1. helper[c] = "exited"
    BY <1>1, WatchWay DEF WatchPast, Exits
  <2>2. call[c] # "launch"
    BY <1>1, <2>1
  <2> QED
    BY <2>1, <2>2, HelperWay
<1>10. (watch[c])' = "none" => \A d \in Calls : (leasedOn[d])' # c
  <2>1. (watch[c])' = "none" => watch[c] = "none"
    BY WatchWay
  <2>2. watch[c] = "none" => runtime # c
    BY <1>1
  <2>3. \A d \in Calls : (leasedOn[d])' \in {leasedOn[d], runtime}
    BY CallWay
  <2> QED
    BY <1>1, <2>1, <2>2, <2>3
<1>11. runtime' = c => (watch[c])' = "watching" /\ c \notin killed'
  <2>1. CASE runtime = c /\ runtime' = c
    <3>1. watch[c] = "watching" /\ c \notin killed /\ ~Starts(c)
      BY <1>1, <2>1
    <3>2. (watch[c])' = "watching"
      BY <1>0, <2>1, <3>1, WatchWay DEF Exits
    <3> QED
      BY <1>4, <2>1, <3>1, <3>2
  <2>2. CASE runtime # c /\ runtime' = c
    <3>1. Accepts(c)
      BY <1>0, <2>2, RuntimeWay DEF Accepts
    <3>2. Starts(c) /\ watch' = [watch EXCEPT ![c] = "watching"] /\ UNCHANGED killed
      BY <3>1 DEF Accepts, Starts, helperVars
    <3> QED
      BY <1>1, <3>2 DEF CInv, Locals
  <2> QED
    BY <2>1, <2>2
<1>12. (leasedOn[c])' # Nobody => (call[c])' \in {"leased", "released"}
  <2>1. Grants(c) => (call[c])' = "leased"
    BY <1>0 DEF Grants
  <2>2. call[c] \in {"leased", "released"} => (call[c])' \in {"leased", "released"}
    BY CallWay DEF Starts, Begins, Accepts, Discard
  <2> QED
    BY <1>1, <2>1, <2>2, CallWay
<1> QED
  BY <1>6, <1>7, <1>8, <1>9, <1>10, <1>11, <1>12

-----------------------------------------------------------------------------
(* What a teardown has taken                                               *)

(* What a step does to one teardown.                                       *)
LEMMA TearWay ==
  ASSUME CInv, [Next]_vars, NEW t \in Teardowns
  PROVE  \/ tear'[t] = tear[t]
         \/ /\ tear[t].at \in {"idle", "entered"} /\ tear'[t].at \in {"entered", "snapshot"}
            /\ tear'[t].runtime = tear[t].runtime
         \/ /\ tear[t].at = "snapshot" /\ tear'[t].at = "done"
            /\ tear'[t].runtime = tear[t].runtime
         \/ Takes(t) /\ tear'[t].at = "detached" /\ tear'[t].runtime = runtime
         \/ /\ tear[t].at = "detached" /\ TearCancelsLeases(t)
            /\ tear'[t].at = IF tear[t].runtime = Nobody THEN "disconnect" ELSE "shutdown"
            /\ tear'[t].runtime = tear[t].runtime
         \/ /\ tear[t].at = "shutdown" /\ tear'[t].at = "stopping" /\ TearAsksShutdown(t)
            /\ tear'[t].runtime = tear[t].runtime
         \/ /\ tear[t].at = "stopping" /\ tear'[t].at = "disconnect" /\ TearReleases(t)
            /\ tear'[t].runtime = tear[t].runtime
         \/ /\ tear[t].at \in {"disconnect", "barrier", "waiting"}
            /\ tear'[t].at \in {"barrier", "waiting", "done"}
            /\ tear'[t].runtime = tear[t].runtime
<1>1. tear \in [Teardowns -> [at : TearStages, generation : Nat, closing : BOOLEAN,
                              runtime : Calls \cup {Nobody}]]
  BY DEF CInv, Locals
<1>2. ASSUME NEW u \in Teardowns, Moves(u), u # t PROVE tear'[t] = tear[t]
  BY <1>1, <1>2 DEF Moves
<1>3. ASSUME TearDetach(t), tear' = [tear EXCEPT ![t].at = "detached", ![t].runtime = runtime]
      PROVE  Takes(t)
  <2>1. state # "closed"
    <3> SUFFICES ASSUME state = "closed" PROVE FALSE
      OBVIOUS
    <3>1. tear' = [tear EXCEPT ![t].at = "done"]
      BY <1>3 DEF TearDetach, TearAt
    <3> QED
      BY <1>1, <1>3, <3>1
  <2> QED
    BY <1>3, <2>1 DEF TearDetach, Detach, Takes
<1>4. CASE Moves(t)
  BY <1>1, <1>3, <1>4 DEF Moves
<1> QED
  BY <1>2, <1>4, TearMoves

(* A helper is taken by one teardown, which asks it to shut down before it *)
(* releases its lifetime.                                                  *)
LEMMA TakenStep ==
  ASSUME CInv, EpochIdentifiesRuntime, Stages, Taken, [Next]_vars
  PROVE  Taken'
<1>0. /\ Nobody \notin Calls /\ runtime \in Calls \cup {Nobody} /\ contexts \subseteq Calls
      /\ contexts' \subseteq Calls /\ killed \subseteq killed'
      /\ \A t \in Teardowns : tear[t].runtime \in Calls \cup {Nobody}
      /\ \A t \in Teardowns : tear'[t].runtime \in Calls \cup {Nobody}
  <2>1. /\ Nobody \notin Calls /\ runtime \in Calls \cup {Nobody} /\ contexts \subseteq Calls
        /\ \A t \in Teardowns : tear[t].runtime \in Calls \cup {Nobody}
    BY ActorsAreDistinct DEF CInv, TypeOK, Connection!TypeOK, Locals
  <2>2. /\ contexts' \subseteq Calls
        /\ \A t \in Teardowns : tear'[t].runtime \in Calls \cup {Nobody}
    BY TypesStep DEF TypeOK, Connection!TypeOK, Locals
  <2> QED
    BY <2>1, <2>2, HelperMoves
<1>1. ASSUME NEW d \in Calls, runtime # d, watch[d] \in {"watching", "done"}
      PROVE  /\ runtime' # d /\ (watch[d])' \in {"watching", "done"}
             /\ d \notin contexts => d \notin contexts'
  <2>1. ~Accepts(d) /\ ~Exits(d) /\ call[d] # "bind"
    BY <1>1 DEF Stages, Accepts, Exits, Starts
  <2>2. runtime' # d
    BY <1>0, <1>1, <2>1, RuntimeWay DEF Accepts
  <2>3. (watch[d])' \in {"watching", "done"}
    BY <1>1, <2>1, WatchWay
  <2>4. d \notin contexts => d \notin contexts'
    BY <2>1, ContextWay
  <2> QED
    BY <2>2, <2>3, <2>4
<1>2. ASSUME NEW t \in Teardowns, Takes(t), runtime # Nobody
      PROVE  runtime' # runtime /\ watch'[runtime] = "watching" /\ watch[runtime] = "watching"
  BY <1>0, <1>2 DEF Takes, Stages
<1>3. ASSUME NEW t \in Teardowns
      PROVE  LET d == tear[t].runtime IN
             /\ tear[t].at \in {"idle", "entered", "snapshot"} => d = Nobody
             /\ d # Nobody => runtime # d /\ watch[d] \in {"watching", "done"}
             /\ tear[t].at \in {"stopping", "disconnect", "barrier", "waiting", "done"} =>
                  d = Nobody \/ d \in killed
             /\ tear[t].at \in {"disconnect", "barrier", "waiting", "done"} => d \notin contexts
  BY DEF Taken
<1>4. ASSUME NEW t \in Teardowns
      PROVE  \/ tear'[t].runtime = tear[t].runtime
             \/ Takes(t) /\ tear'[t].runtime = runtime /\ tear'[t].at = "detached"
  BY TearWay
<1>5. ASSUME NEW t \in Teardowns
      PROVE  LET d == tear'[t].runtime IN
             /\ tear'[t].at \in {"idle", "entered", "snapshot"} => d = Nobody
             /\ d # Nobody => runtime' # d /\ watch'[d] \in {"watching", "done"}
             /\ tear'[t].at \in {"stopping", "disconnect", "barrier", "waiting", "done"} =>
                  d = Nobody \/ d \in killed'
             /\ tear'[t].at \in {"disconnect", "barrier", "waiting", "done"} => d \notin contexts'
  <2> DEFINE d == tear'[t].runtime
  <2>1. tear'[t].at \in {"idle", "entered", "snapshot"} => d = Nobody
    BY <1>3, TearWay
  <2>2. d # Nobody => runtime' # d /\ watch'[d] \in {"watching", "done"}
    <3>1. CASE d = tear[t].runtime
      BY <1>0, <1>1, <1>3, <3>1
    <3>2. CASE Takes(t) /\ d = runtime
      BY <1>2, <3>2
    <3> QED
      BY <1>4, <3>1, <3>2
  <2>3. tear'[t].at \in {"stopping", "disconnect", "barrier", "waiting", "done"} =>
          d = Nobody \/ d \in killed'
    <3>1. TearAsksShutdown(t) => tear[t].runtime \in killed'
      BY DEF TearAsksShutdown
    <3> QED
      BY <1>0, <1>3, <3>1, TearWay
  <2>4. tear'[t].at \in {"disconnect", "barrier", "waiting", "done"} => d \notin contexts'
    <3>1. TearReleases(t) => tear[t].runtime \notin contexts'
      BY Released DEF TearReleases
    <3>2. Nobody \notin contexts'
      BY <1>0
    <3>3. tear[t].runtime \notin contexts => tear[t].runtime \notin contexts'
      BY <1>0, <1>1, <1>3, <3>2
    <3> QED
      BY <1>3, <3>1, <3>2, <3>3, TearWay
  <2> QED
    BY <2>1, <2>2, <2>3, <2>4
<1>6. ASSUME NEW t \in Teardowns, NEW u \in Teardowns,
             tear'[t].runtime = tear'[u].runtime, tear'[t].runtime # Nobody
      PROVE  t = u
  <2>1. CASE tear'[t].runtime = tear[t].runtime /\ tear'[u].runtime = tear[u].runtime
    BY <1>6, <2>1 DEF Taken
  <2>2. CASE Takes(t) /\ tear'[t].runtime = runtime
    <3>1. u # t => tear'[u] = tear[u]
      BY <2>2 DEF Takes, CInv, Locals
    <3> QED
      BY <1>3, <1>6, <2>2, <3>1
  <2>3. CASE Takes(u) /\ tear'[u].runtime = runtime
    <3>1. u # t => tear'[t] = tear[t]
      BY <2>3 DEF Takes, CInv, Locals
    <3> QED
      BY <1>3, <1>6, <2>3, <3>1
  <2> QED
    BY <1>4, <2>1, <2>2, <2>3
<1> QED
  BY <1>5, <1>6 DEF Taken

(* A teardown that has somebody's helper keeps it until it has asked it to *)
(* shut down and has released its lifetime.                                *)
LEMMA TearKeeps ==
  ASSUME CInv, Taken, [Next]_vars, NEW c \in Calls, NEW t \in Teardowns,
         tear[t].runtime = c, ~TornDown(t)
  PROVE  /\ tear'[t].runtime = c
         /\ TornDown(t)' => c \in killed /\ c \notin contexts
<1>1. tear[t].at \notin {"idle", "entered", "snapshot", "done"}
  BY ActorsAreDistinct DEF Taken, TornDown
<1>2. tear[t].at \in {"disconnect", "barrier", "waiting"} => c \in killed /\ c \notin contexts
  BY ActorsAreDistinct DEF Taken
<1>3. tear'[t].runtime = c
  BY <1>1, TearWay DEF Takes
<1>4. tear'[t].at \in {"idle", "done"} => tear[t].at \in {"disconnect", "barrier", "waiting"}
  BY <1>1, TearWay DEF Takes
<1> QED
  BY <1>2, <1>3, <1>4 DEF TornDown

(* The helper of the supervisor stays its own, or is taken, or has exited. *)
LEMMA RuntimeKeeps ==
  ASSUME CInv, EpochIdentifiesRuntime, [Next]_vars, NEW c \in Calls, runtime = c
  PROVE  \/ runtime' = c
         \/ Exits(c)
         \/ \E t \in Teardowns : tear'[t].runtime = c /\ ~TornDown(t)'
<1>1. ASSUME NEW d \in Calls, Accepts(d) PROVE FALSE
  BY <1>1, ActorsAreDistinct DEF Accepts, EpochIdentifiesRuntime
<1>2. ASSUME NEW d \in Calls, Exits(d) PROVE Exits(c)
  BY <1>2 DEF Exits
<1>3. ASSUME NEW t \in Teardowns, Takes(t) PROVE tear'[t].runtime = c /\ ~TornDown(t)'
  BY <1>3 DEF Takes, CInv, Locals, TornDown
<1> QED
  BY <1>1, <1>2, <1>3, RuntimeWay

(* No start is forgotten.                                                  *)
LEMMA NoStrayStep ==
  ASSUME CInv, EpochIdentifiesRuntime, Stages, Taken, NoStrayHelper, [Next]_vars
  PROVE  NoStrayHelper'
<1> SUFFICES ASSUME NEW c \in Calls, (helper[c])' = "running", c \notin killed' \cup cancelled'
             PROVE  \/ runtime' = c \/ (call[c])' \in {"launched", "discard"}
                    \/ \E t \in Teardowns : tear'[t].runtime = c /\ ~TornDown(t)'
  BY DEF NoStrayHelper
<1>1. c \notin killed \cup cancelled
  BY HelperMoves, ContextWay
<1>2. CASE helper[c] # "running"
  BY <1>2, HelperWay
<1>3. CASE helper[c] = "running" /\ runtime = c
  BY <1>3, RuntimeKeeps DEF Exits
<1>4. CASE helper[c] = "running" /\ call[c] \in {"launched", "discard"}
  <2>1. Accepts(c) => runtime' = c
    BY DEF Accepts
  <2>2. Discard(c) => c \in killed'
    BY <1>4 DEF Discard
  <2> QED
    BY <1>4, <2>1, <2>2, CallWay DEF Starts, Begins
<1>5. ASSUME NEW t \in Teardowns, tear[t].runtime = c, ~TornDown(t)
      PROVE  tear'[t].runtime = c /\ ~TornDown(t)'
  BY <1>1, <1>5, TearKeeps
<1> QED
  BY <1>1, <1>2, <1>3, <1>4, <1>5 DEF NoStrayHelper

(* No lifetime is forgotten.                                               *)
LEMMA LifetimesStep ==
  ASSUME CInv, EpochIdentifiesRuntime, Taken, LifetimesHaveOwners, [Next]_vars
  PROVE  LifetimesHaveOwners'
<1> DEFINE Ongoing == {"launch", "launch failed", "launched", "discard", "discard failed"}
<1>0. contexts \subseteq Calls /\ contexts' \subseteq Calls
  BY TypesStep DEF CInv, TypeOK, Connection!TypeOK
<1> SUFFICES ASSUME NEW c \in Calls, c \in contexts'
             PROVE  \/ runtime' = c \/ (call[c])' \in Ongoing
                    \/ (watch[c])' = "detached"
                    \/ \E t \in Teardowns : tear'[t].runtime = c /\ ~TornDown(t)'
  <2> HIDE DEF Ongoing
  <2>1. \A c \in contexts' : c \in Calls
    BY <1>0
  <2>2. LifetimesHaveOwners' <=> \A c \in contexts' :
          \/ runtime' = c \/ (call[c])' \in Ongoing
          \/ (watch[c])' = "detached"
          \/ \E t \in Teardowns : tear'[t].runtime = c /\ ~TornDown(t)'
    BY Zenon DEF LifetimesHaveOwners, Ongoing
  <2> QED
    BY <2>1, <2>2
<1>1. CASE c \notin contexts
  BY <1>1, ContextWay
<1>2. CASE c \in contexts /\ runtime = c
  <2>1. Exits(c) => (watch[c])' = "detached"
    BY DEF Exits, CInv, Locals
  <2> QED
    BY <1>2, <2>1, RuntimeKeeps
<1>3. CASE c \in contexts /\ call[c] \in Ongoing
  <2>1. Accepts(c) => runtime' = c
    BY DEF Accepts
  <2>2. ~Discard(c)
    BY Released DEF Discard
  <2> QED
    BY <1>3, <2>1, <2>2, CallWay DEF Starts, Begins
<1>4. CASE c \in contexts /\ watch[c] = "detached"
  <2>1. ~WatchReleases(c)
    BY Released DEF WatchReleases
  <2>2. ~Accepts(c) \/ runtime' = c
    BY DEF Accepts
  <2> QED
    BY <1>4, <2>1, <2>2, WatchWay
<1>5. ASSUME c \in contexts, NEW t \in Teardowns, tear[t].runtime = c, ~TornDown(t)
      PROVE  tear'[t].runtime = c /\ ~TornDown(t)'
  BY <1>5, TearKeeps
<1> QED
  BY <1>1, <1>2, <1>3, <1>4, <1>5 DEF LifetimesHaveOwners

-----------------------------------------------------------------------------
(* Leases                                                                  *)

(* What a step does to the table of leases and to those who have taken     *)
(* leases from it.                                                         *)
LEMMA LeaseMoves ==
  ASSUME [Next]_vars
  PROVE  \/ \E c \in Calls : Grants(c) \/ ReleaseLease(c) \/ Exits(c)
         \/ \E t \in Teardowns : Takes(t)
         \/ UNCHANGED <<leases, cancels>> /\ revoked \subseteq revoked'
<1>1. ASSUME NEW c \in Calls, Grant(c)
      PROVE  Grants(c) \/ UNCHANGED <<leases, cancels, revoked>>
  BY <1>1 DEF Grant, Grants, Goto, teardownVars
<1>2. ASSUME NEW c \in Calls, WatchExit(c)
      PROVE  Exits(c) \/ UNCHANGED <<leases, cancels, revoked>>
  BY <1>2 DEF WatchExit, Detach, Exits
<1>3. ASSUME NEW t \in Teardowns, TearDetach(t)
      PROVE  Takes(t) \/ UNCHANGED <<leases, cancels, revoked>>
  BY <1>3 DEF TearDetach, Detach, Takes
<1> DEFINE Same == UNCHANGED <<leases, cancels>> /\ revoked \subseteq revoked'
<1>4. ASSUME NEW c \in Calls,
             \/ Acquire(c) \/ GiveUp(c) \/ Ensure(c) \/ Await(c) \/ BindLifetime(c) \/ LaunchHelper(c)
             \/ FinishStart(c) \/ Discard(c) \/ StartReturns(c) \/ StartError(c)
             \/ StartErrorDisconnects(c) \/ HelperExits(c)
             \/ WatchReleases(c) \/ WatchDisconnects(c) \/ WatchStops(c)
      PROVE  Same
  BY <1>4 DEF Acquire, GiveUp, Ensure, Await, BindLifetime, LaunchHelper, FinishStart, Discard,
     StartReturns, StartError, StartErrorDisconnects, HelperExits, WatchReleases,
     WatchDisconnects, WatchStops, tableVars, teardownVars
<1>5. ASSUME NEW t \in Teardowns,
             \/ Revoke(t) \/ ExpireIdle(t) \/ SnapshotGeneration(t) \/ TearCancelsLeases(t)
             \/ TearAsksShutdown(t) \/ TearReleases(t) \/ TearDisconnects(t) \/ TearWaits(t)
             \/ WaitEnds(t) \/ TearStops(t)
      PROVE  Same
  BY <1>5 DEF Revoke, ExpireIdle, SnapshotGeneration, TearCancelsLeases, TearAsksShutdown,
     TearReleases, TearDisconnects, TearWaits, WaitEnds, TearStops, tableVars, teardownVars
<1>6. ASSUME \/ \E k \in Connects : BeginConnect(k) \/ FinishConnect(k)
             \/ TimerFires \/ UNCHANGED vars \/ \E r \in Teardowns \cup Calls : CancelContext(r)
      PROVE  Same
  BY <1>6 DEF BeginConnect, FinishConnect, TimerFires, CancelContext, vars, tableVars, teardownVars
<1>7. UNCHANGED <<leases, cancels, revoked>> => Same
  OBVIOUS
<1>8. CASE Same
  BY <1>8
<1> HIDE DEF Same
<1>9. CASE \E c \in Calls : \/ Acquire(c) \/ GiveUp(c) \/ Starting(c) \/ ReleaseLease(c)
                            \/ HelperExits(c) \/ Watching(c)
  BY <1>1, <1>2, <1>4, <1>7, <1>8, <1>9 DEF Starting, Watching
<1>10. CASE \E t \in Teardowns : Revoke(t) \/ ExpireIdle(t) \/ Tearing(t)
  BY <1>3, <1>5, <1>7, <1>8, <1>10 DEF Tearing
<1> QED
  BY <1>6, <1>8, <1>9, <1>10 DEF Next

(* What a step does to one lease, and to what somebody has taken.          *)
LEMMA LeaseWay ==
  ASSUME CInv, [Next]_vars
  PROVE  /\ revoked \subseteq revoked'
         /\ \A c \in Calls : c \in leases =>
              \/ c \in leases' \/ c \in revoked'
              \/ \E x \in Calls : Exits(x)
              \/ \E t \in Teardowns : Takes(t)
         /\ \A c \in Calls : c \in leases' => c \in leases \/ Grants(c)
         /\ \A x \in Calls : cancels'[x] = cancels[x] \/ Exits(x)
         /\ \A t \in Teardowns : cancels'[t] = cancels[t] \/ Takes(t)
<1>0. /\ cancels \in [Teardowns \cup Calls -> SUBSET Calls] /\ Calls \cap Teardowns = {}
  BY ActorsAreDistinct DEF CInv, Locals
<1>1. ASSUME NEW c \in Calls, Grants(c)
      PROVE  UNCHANGED <<revoked, cancels>> /\ leases' = leases \cup {c}
  BY <1>1 DEF Grants, teardownVars
<1>2. ASSUME NEW c \in Calls, ReleaseLease(c)
      PROVE  /\ leases' = leases \ {c} /\ revoked' = revoked \cup (leases \cap {c})
             /\ UNCHANGED cancels
  BY <1>2 DEF ReleaseLease
<1>3. ASSUME NEW c \in Calls, Exits(c)
      PROVE  /\ leases' = {} /\ UNCHANGED revoked
             /\ \A r \in (Teardowns \cup Calls) \ {c} : cancels'[r] = cancels[r]
  BY <1>0, <1>3 DEF Exits
<1>4. ASSUME NEW t \in Teardowns, Takes(t)
      PROVE  /\ leases' = {} /\ UNCHANGED revoked
             /\ \A r \in (Teardowns \cup Calls) \ {t} : cancels'[r] = cancels[r]
  BY <1>0, <1>4 DEF Takes
<1>5. CASE \E c \in Calls : Grants(c)
  BY <1>1, <1>5
<1>6. CASE \E c \in Calls : ReleaseLease(c)
  BY <1>2, <1>6
<1>7. CASE \E c \in Calls : Exits(c)
  BY <1>0, <1>3, <1>7
<1>8. CASE \E t \in Teardowns : Takes(t)
  BY <1>0, <1>4, <1>8
<1>9. CASE UNCHANGED <<leases, cancels>> /\ revoked \subseteq revoked'
  BY <1>9
<1> QED
  BY <1>5, <1>6, <1>7, <1>8, <1>9, LeaseMoves

(* A lease that has ended does not come back to life.                      *)
LEMMA EndedStays ==
  ASSUME CInv, [Next]_vars, NEW c \in Calls, leasedOn'[c] = leasedOn[c], LeaseEnded(c)
  PROVE  LeaseEnded(c)'
<1>1. revoked \subseteq revoked' /\ cancelled \subseteq cancelled'
  BY LeaseWay, ContextWay
<1> QED
  BY <1>1 DEF LeaseEnded

Held(c) ==
  \/ c \in leases /\ runtime = leasedOn[c]
  \/ \E t \in Teardowns :
       tear[t].at = "detached" /\ c \in cancels[t] /\ tear[t].runtime = leasedOn[c]
  \/ watch[leasedOn[c]] = "detached" /\ c \in cancels[leasedOn[c]]

(* A lease whose context lives is in the table, or somebody has taken it   *)
(* and is about to cancel it.                                              *)
LEMMA HeldStep ==
  ASSUME CInv, EpochIdentifiesRuntime, Stages, Taken, LeasesAreHeld, [Next]_vars,
         NEW c \in Calls, (leasedOn[c])' # Nobody, ~LeaseEnded(c)'
  PROVE  Held(c)'
<1>0. /\ Nobody \notin Calls /\ leasedOn[c] \in Calls \cup {Nobody}
      /\ watch \in [Calls -> WatchStages]
      /\ cancels \in [Teardowns \cup Calls -> SUBSET Calls]
      /\ tear \in [Teardowns -> [at : TearStages, generation : Nat, closing : BOOLEAN,
                                 runtime : Calls \cup {Nobody}]]
  BY ActorsAreDistinct DEF CInv, Locals
<1>1. CASE Grants(c)
  BY <1>1 DEF Grants, Held, CInv, Locals
<1>2. CASE ~Grants(c)
  <2>1. (leasedOn[c])' = leasedOn[c] /\ leasedOn[c] \in Calls
    BY <1>0, <1>2, CallWay
  <2>2. ~LeaseEnded(c) /\ c \notin revoked'
    BY <2>1, EndedStays DEF LeaseEnded
  <2>3. Held(c)
    BY <1>0, <2>1, <2>2 DEF LeasesAreHeld, Held
  <2>4. ASSUME c \in leases, runtime = leasedOn[c] PROVE Held(c)'
    <3>1. ASSUME NEW x \in Calls, Exits(x) PROVE Held(c)'
      <4>1. x = leasedOn[c] /\ (watch[x])' = "detached" /\ (cancels[x])' = leases
        BY <1>0, <2>4, <3>1 DEF Exits
      <4> QED
        BY <2>1, <2>4, <4>1 DEF Held
    <3>2. ASSUME NEW t \in Teardowns, Takes(t) PROVE Held(c)'
      <4>1. tear'[t].at = "detached" /\ tear'[t].runtime = leasedOn[c] /\ cancels'[t] = leases
        BY <1>0, <2>4, <3>2 DEF Takes
      <4> QED
        BY <2>1, <2>4, <4>1 DEF Held
    <3>3. ASSUME NEW d \in Calls, Accepts(d) PROVE FALSE
      BY <1>0, <2>1, <2>4, <3>3 DEF Accepts, EpochIdentifiesRuntime
    <3>4. CASE runtime' = runtime /\ c \in leases'
      BY <2>1, <2>4, <3>4 DEF Held
    <3> QED
      BY <2>2, <2>4, <3>1, <3>2, <3>3, <3>4, LeaseWay, RuntimeWay
  <2>5. ASSUME NEW t \in Teardowns, tear[t].at = "detached", c \in cancels[t],
               tear[t].runtime = leasedOn[c]
        PROVE  Held(c)'
    <3>1. ~TearCancelsLeases(t)
      BY <2>2, <2>5 DEF TearCancelsLeases
    <3>2. ~Takes(t)
      BY <2>5 DEF Takes
    <3>3. tear'[t] = tear[t]
      BY <2>5, <3>1, <3>2, TearWay
    <3>4. cancels'[t] = cancels[t]
      BY <3>2, LeaseWay
    <3> QED
      BY <2>1, <2>5, <3>3, <3>4 DEF Held
  <2>6. ASSUME watch[leasedOn[c]] = "detached", c \in cancels[leasedOn[c]] PROVE Held(c)'
    <3> DEFINE x == leasedOn[c]
    <3>1. ~WatchReleases(x)
      BY <2>2, <2>6 DEF WatchReleases
    <3>2. ~Exits(x) /\ ~Accepts(x)
      BY <2>1, <2>6 DEF Exits, Accepts, Stages, Starts
    <3>3. watch'[x] = watch[x]
      BY <2>1, <2>6, <3>1, <3>2, WatchWay
    <3>4. cancels'[x] = cancels[x]
      BY <2>1, <3>2, LeaseWay
    <3> QED
      BY <2>1, <2>6, <3>3, <3>4 DEF Held
  <2> QED
    BY <2>3, <2>4, <2>5, <2>6 DEF Held
<1> QED
  BY <1>1, <1>2

(* The table holds leases on the helper of the supervisor, and every lease *)
(* that lives is held by somebody.                                         *)
LEMMA HeldLeasesStep ==
  ASSUME CInv, EpochIdentifiesRuntime, Stages, Taken, LeasesAreHeld, [Next]_vars
  PROVE  LeasesAreHeld'
<1>0. Nobody \notin Calls /\ leases \subseteq Calls /\ leases' \subseteq Calls
  BY ActorsAreDistinct, TypesStep DEF CInv, TypeOK
<1>1. ASSUME NEW c \in Calls, c \in leases'
      PROVE  (leasedOn[c])' = runtime' /\ runtime' # Nobody
  <2>1. CASE Grants(c)
    BY <2>1 DEF Grants, Admitted, CInv, Locals
  <2>2. CASE ~Grants(c)
    <3>1. c \in leases /\ leasedOn[c] = runtime /\ runtime # Nobody
      BY <1>1, <2>2, LeaseWay DEF LeasesAreHeld
    <3>2. (leasedOn[c])' = leasedOn[c]
      BY <2>2, CallWay
    <3>3. runtime' = runtime
      <4>1. ASSUME NEW d \in Calls, Accepts(d) PROVE FALSE
        BY <3>1, <4>1 DEF Accepts, EpochIdentifiesRuntime
      <4>2. \A d \in Calls : ~Exits(d)
        BY <1>1 DEF Exits
      <4>3. \A t \in Teardowns : ~Takes(t)
        BY <1>1 DEF Takes
      <4> QED
        BY <4>1, <4>2, <4>3, RuntimeWay
    <3> QED
      BY <3>1, <3>2, <3>3
  <2> QED
    BY <2>1, <2>2
<1>2. IsFiniteSet(leases')
  <2>1. ASSUME NEW c \in Calls, Grants(c) PROVE IsFiniteSet(leases')
    BY <2>1, FS_AddElement DEF Grants, LeasesAreHeld
  <2>2. leases' \subseteq leases \/ \E c \in Calls : Grants(c)
    BY LeaseMoves DEF ReleaseLease, Exits, Takes
  <2> QED
    BY <2>1, <2>2, FS_Subset DEF LeasesAreHeld
<1>3. \A c \in Calls : (leasedOn[c])' # Nobody /\ ~LeaseEnded(c)' => Held(c)'
  BY HeldStep
<1> QED
  BY <1>0, <1>1, <1>2, <1>3 DEF LeasesAreHeld, Held

(* The context of a lease is cancelled before its helper is asked to shut  *)
(* down.                                                                   *)
LEMMA LeasesEndFirstStep ==
  ASSUME CInv, Stages, Taken, LeasesAreHeld, LeasesEndFirst, [Next]_vars
  PROVE  LeasesEndFirst'
<1>0. Nobody \notin Calls /\ leasedOn \in [Calls -> Calls \cup {Nobody}] /\ killed' \subseteq Calls
      /\ runtime \in Calls \cup {Nobody}
  BY ActorsAreDistinct, TypesStep DEF CInv, Locals, TypeOK
<1> SUFFICES ASSUME NEW c \in Calls, (leasedOn[c])' \in killed' PROVE LeaseEnded(c)'
  BY DEF LeasesEndFirst
<1>1. CASE Grants(c)
  <2>1. runtime \in killed /\ runtime \in Calls
    BY <1>0, <1>1 DEF Grants, helperVars
  <2> QED
    BY <2>1 DEF Stages
<1>2. CASE ~Grants(c)
  <2>1. (leasedOn[c])' = leasedOn[c]
    BY <1>2, CallWay
  <2> DEFINE x == leasedOn[c]
  <2>2. x \in Calls /\ x \in killed'
    BY <1>0, <2>1
  <2>3. CASE x \in killed
    BY <2>1, <2>3, EndedStays DEF LeasesEndFirst
  <2>4. ~Discard(x)
    BY <2>2 DEF Discard, Stages, Starts
  <2>5. ASSUME NEW t \in Teardowns, TearAsksShutdown(t), tear[t].runtime = x
        PROVE  LeaseEnded(c)
    <3>1. tear[t].at = "shutdown" /\ runtime # x /\ watch[x] # "detached"
      BY <1>0, <2>2, <2>5 DEF TearAsksShutdown, Taken
    <3>2. \A u \in Teardowns : tear[u].at = "detached" => tear[u].runtime # x
      BY <1>0, <2>2, <2>5, <3>1 DEF Taken
    <3> QED
      BY <1>0, <2>2, <3>1, <3>2 DEF LeasesAreHeld
  <2> QED
    BY <2>1, <2>2, <2>3, <2>4, <2>5, EndedStays, KilledWay
<1> QED
  BY <1>1, <1>2

(* Only a ready supervisor has leases, one for an owner, within the limit. *)
LEMMA LeasesAreBoundedStep ==
  ASSUME CInv, LeasesAreHeld, LeasesAreBounded, [Next]_vars,
         EpochIdentifiesRuntime', LeasesAreHeld'
  PROVE  LeasesAreBounded'
<1>1. (leases # {} => state = "ready")'
  BY DEF EpochIdentifiesRuntime, LeasesAreHeld
<1>0. owner' = owner
  BY DEF Next, Starting, Watching, Tearing, vars, callVars, BeginConnect, FinishConnect, Acquire,
     GiveUp, Ensure, Await, BindLifetime, LaunchHelper, FinishStart, Discard, StartReturns,
     StartError, StartErrorDisconnects, Grant, ReleaseLease, HelperExits, WatchExit, WatchReleases,
     WatchDisconnects, WatchStops, TimerFires, Revoke, ExpireIdle, SnapshotGeneration, TearDetach,
     TearCancelsLeases, TearAsksShutdown, TearReleases, TearDisconnects, TearWaits, WaitEnds,
     TearStops, CancelContext
<1>2. CASE leases' \subseteq leases
  <2>1. Cardinality(leases') <= Cardinality(leases) /\ Cardinality(leases') \in Nat
    BY <1>2, FS_Subset, FS_CardinalityType DEF LeasesAreHeld
  <2>2. Cardinality(leases) \in Nat
    BY FS_CardinalityType DEF LeasesAreHeld
  <2>3. Cardinality(leases') <= MaxLeases
    BY <2>1, <2>2, MaxLeasesIsPositive DEF LeasesAreBounded
  <2> QED
    BY <1>0, <1>1, <1>2, <2>3 DEF LeasesAreBounded
<1>3. ASSUME NEW c \in Calls, Grants(c) PROVE LeasesAreBounded'
  <2>1. leases' = leases \cup {c} /\ \A d \in leases : owner[d] # owner[c]
    BY <1>3 DEF Grants, Admitted
  <2>2. Cardinality(leases) < MaxLeases /\ Cardinality(leases) \in Nat
    BY <1>3, FS_CardinalityType DEF Grants, Admitted, LeasesAreHeld
  <2>3. Cardinality(leases') <= Cardinality(leases) + 1 /\ Cardinality(leases') \in Nat
    BY <2>1, <2>2, FS_AddElement, FS_CardinalityType DEF LeasesAreHeld
  <2>4. Cardinality(leases') <= MaxLeases
    BY <2>2, <2>3, MaxLeasesIsPositive
  <2> QED
    BY <1>0, <1>1, <2>1, <2>4 DEF LeasesAreBounded
<1>4. leases' \subseteq leases \/ \E c \in Calls : Grants(c)
  BY LeaseMoves DEF ReleaseLease, Exits, Takes
<1> QED
  BY <1>2, <1>3, <1>4

(* Initially there are no helpers, no lifetimes and no leases.             *)
LEMMA InitLInv == Init => LInv
<1> SUFFICES ASSUME Init PROVE LInv
  OBVIOUS
<1>1. contexts = {}
  BY DEF Init, Connection!Init
<1>2. EpochIdentifiesRuntime /\ Downward /\ OwnEpochs /\ Asked /\ StartsOnce
  BY DEF Init, EpochIdentifiesRuntime, Downward, Past, WatchPast, OwnEpochs, Asked, StartsOnce
<1>3. Stages /\ Taken /\ NoStrayHelper /\ LifetimesHaveOwners
  BY <1>1, ActorsAreDistinct DEF Init, Stages, Taken, NoStrayHelper, LifetimesHaveOwners, Starts,
     WatchPast
<1>4. LeasesAreHeld /\ LeasesEndFirst
  BY FS_EmptySet, ActorsAreDistinct DEF Init, LeasesAreHeld, LeasesEndFirst
<1>5. LeasesAreBounded
  BY FS_EmptySet, MaxLeasesIsPositive DEF Init, LeasesAreBounded
<1> QED
  BY <1>2, <1>3, <1>4, <1>5, InitCInv DEF LInv

(* While nobody connects during a teardown, every step keeps the inductive *)
(* invariant.                                                              *)
LEMMA StepLInv == Barrier /\ LInv /\ [Next]_vars => LInv'
<1> SUFFICES ASSUME Barrier, LInv, [Next]_vars PROVE LInv'
  OBVIOUS
<1>1. /\ CInv /\ EpochIdentifiesRuntime /\ Downward /\ OwnEpochs /\ Asked /\ StartsOnce
      /\ Stages /\ Taken /\ NoStrayHelper /\ LifetimesHaveOwners
      /\ LeasesAreHeld /\ LeasesEndFirst /\ LeasesAreBounded
  BY DEF LInv
<1>2. CInv'
  BY <1>1, ConnectionStep, TypesStep, BarredStep DEF CInv
<1>3. EpochIdentifiesRuntime' /\ OwnEpochs' /\ Downward'
  BY <1>1, EpochsStep, DownwardStep
<1>4. Asked' /\ StartsOnce' /\ Stages' /\ Taken'
  BY <1>1, AskedStep, StartsOnceStep, StagesStep, TakenStep
<1>5. NoStrayHelper' /\ LifetimesHaveOwners'
  BY <1>1, NoStrayStep, LifetimesStep
<1>6. LeasesAreHeld' /\ LeasesEndFirst'
  BY <1>1, HeldLeasesStep, LeasesEndFirstStep
<1>7. LeasesAreBounded'
  BY <1>1, <1>3, <1>6, LeasesAreBoundedStep
<1> QED
  BY <1>2, <1>3, <1>4, <1>5, <1>6, <1>7 DEF LInv

(* So it holds in every reachable state.                                   *)
LEMMA LInvHolds == Barrier => (Spec => []LInv)
<1> SUFFICES ASSUME Barrier PROVE Spec => []LInv
  OBVIOUS
<1>1. LInv /\ [Next]_vars => LInv'
  BY StepLInv
<1> QED
  BY InitLInv, <1>1, PTL DEF Spec

-----------------------------------------------------------------------------
(* Theorems                                                                *)

(* While nobody connects during a teardown, the supervisor has at most one *)
(* helper, and every other helper and lifetime has somebody who is about   *)
(* to end it: for any number of acquisitions and overlapping teardowns.    *)
THEOREM HelpersAreOwned == Barrier => (Spec => []OneHelperIsOwned)
<1> SUFFICES ASSUME Barrier PROVE Spec => []OneHelperIsOwned
  OBVIOUS
<1>1. LInv => OneHelperIsOwned
  BY DEF LInv, CInv, OneHelperIsOwned
<1> QED
  BY <1>1, LInvHolds, PTL

(* While nobody connects during a teardown, which the code does not        *)
(* ensure: a lease is cancelled before its helper is asked to end; when no *)
(* teardown is under way, a lease whose context lives is in the table of a *)
(* ready supervisor; and the table is bounded, with one lease per owner.   *)
(* The table may hold leases that have ended.                              *)
THEOREM LeasesAreKept == Barrier => (Spec => []LeasesAreAccountedFor)
<1> SUFFICES ASSUME Barrier PROVE Spec => []LeasesAreAccountedFor
  OBVIOUS
<1>1. ASSUME LInv PROVE LiveLeasesAreKnown
  <2> SUFFICES ASSUME Quiet, NEW c \in Calls, leasedOn[c] # Nobody, ~LeaseEnded(c)
               PROVE  c \in leases /\ runtime = leasedOn[c]
    BY DEF LiveLeasesAreKnown
  <2>1. /\ \A t \in Teardowns : tear[t].at # "detached"
        /\ leasedOn[c] \in Calls /\ watch[leasedOn[c]] # "detached"
    BY <1>1 DEF Quiet, TornDown, Watched, LInv, CInv, Locals
  <2> QED
    BY <1>1, <2>1 DEF LInv, LeasesAreHeld
<1>2. LInv => LeasesAreAccountedFor
  BY <1>1 DEF LInv, LeasesAreAccountedFor
<1> QED
  BY <1>2, LInvHolds, PTL

(* Under the same condition, when a helper has exited and its goroutine    *)
(* and the teardowns are done, the leases on it have ended.                *)
THEOREM ExitReachesLeases == Barrier => (Spec => []ExitEndsLeases)
<1> SUFFICES ASSUME Barrier PROVE Spec => []ExitEndsLeases
  OBVIOUS
<1>1. ASSUME LInv PROVE ExitEndsLeases
  <2> SUFFICES ASSUME Quiet, NEW c \in Calls, NEW d \in Calls, watch[c] = "done", leasedOn[d] = c,
                      ~LeaseEnded(d)
               PROVE  FALSE
    BY DEF ExitEndsLeases
  <2>1. /\ \A t \in Teardowns : tear[t].at # "detached"
        /\ c # Nobody /\ runtime # c
    BY <1>1, ActorsAreDistinct DEF Quiet, TornDown, LInv, Stages
  <2> QED
    BY <1>1, <2>1 DEF LInv, LeasesAreHeld
<1>2. LInv => ExitEndsLeases
  BY <1>1
<1> QED
  BY <1>2, LInvHolds, PTL

(* Under the same condition, no late start makes the supervisor ready      *)
(* while a teardown is under way, and nothing takes it out of `closed`.    *)
THEOREM TeardownsAreFinal == Barrier => (Spec => TeardownIsFinal)
<1> SUFFICES ASSUME Barrier PROVE Spec => TeardownIsFinal
  OBVIOUS
<1> DEFINE Final == /\ (\E t \in Teardowns : tear[t].at \notin {"idle", "entered", "snapshot", "done"})
                         => ~(state # "ready" /\ state' = "ready")
                    /\ state = "closed" => state' = "closed"
<1>1. ASSUME LInv, [Next]_vars PROVE Final
  <2>1. ASSUME NEW t \in Teardowns, tear[t].at \notin {"idle", "entered", "snapshot", "done"}
        PROVE  Down /\ ~Quiet
    <3>1. Past(t)
      BY <1>1, <2>1 DEF LInv, CInv, Locals, TearStages, Past
    <3> QED
      BY <1>1, <3>1, PastIsNotQuiet DEF LInv, Downward, Down
  <2>2. Down /\ ~Quiet => state' # "ready"
    BY <1>1, DownStays DEF LInv, Down
  <2>3. state = "closed" => state' = "closed"
    BY <1>1, StateMoves DEF Begins, Accepts, Refuses, MyStart, Exits, Takes, Stops
  <2> QED
    BY <2>1, <2>2, <2>3
<1>2. LInv /\ [Next]_vars => [Final]_vars
  BY <1>1
<1> QED
  BY <1>2, LInvHolds, PTL DEF Spec, TeardownIsFinal
=============================================================================
