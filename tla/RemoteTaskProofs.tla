--------------------------- MODULE RemoteTaskProofs ---------------------------
(***************************************************************************)
(* Proofs about a remote task (RemoteTask, for any number of launches and  *)
(* of calls that stop them) and its broker (RemoteBroker, for any number of*)
(* connections and any limit of handlers).                                 *)
(*                                                                         *)
(* Nothing in the code keeps a launch from closing the session or from     *)
(* stopping the Pi of another one; that the three still belong together    *)
(* once all of them have returned rests on who is left to close what, and  *)
(* on the handshake, for which a broker must still be open.  That a closed *)
(* broker stays quiet rests on the WaitGroup: it counts the goroutines, and*)
(* the one of serve, which starts the others, is counted until it can start*)
(* no more.                                                                *)
(***************************************************************************)
EXTENDS RemoteTask, RemoteBroker, FiniteSetTheorems, TLAPS

Calls == Launches \cup Stoppers
Before == {"idle", "acquire", "backend", "give up", "release", "register", "launch"}
Since == {"ready", "handshake", "settle", "started"}
Acts == [at : Before \cup Since \cup {"close", "closing", "stop pi", "failed", "over"},
         kind : {"none", "start", "stop", "maintain", "quit"},
         takes : Launches \cup {NoBroker}, halts : BOOLEAN]
Brokers == [stage : {"none", "open", "taken", "closed", "unlisted", "stopped"},
            lease : Launches \cup {NoBroker}, frees : Launches \cup {NoBroker}, hello : BOOLEAN]
Exits == [at : {"none", "emitted", "closing", "handled"}, takes : Launches \cup {NoBroker}]

TypeOK ==
  /\ act \in [Calls -> Acts]
  /\ session \in [broker : Launches \cup {NoBroker}, generation : Launches \cup {NoBroker}]
  /\ threadTask \in Launches \cup {NoBroker}
  /\ taskLeases \in [Launches -> {"none", "live", "ended"}]
  /\ broker \in [Launches -> Brokers]
  /\ pi \in [at : {"free", "running", "exiting"}, of : Launches \cup {NoBroker}]
  /\ exits \in [Launches -> Exits]

(* The registered session is one that its launch has not closed, nor the   *)
(* exit of its Pi, and its broker is open.                                 *)
SessionInv ==
  /\ session.broker # NoBroker =>
       /\ broker[session.broker].stage = "open"
       /\ act[session.broker].at \in {"launch", "close"} \cup Since
       /\ exits[session.broker].at \in {"none", "emitted"}
  /\ session.generation \in {NoBroker, session.broker}

(* A broker is open until somebody takes its session, who then waits for it*)
(* to be closed and its task to be stopped.                                *)
OpenInv ==
  \A b \in Launches :
    /\ broker[b].stage = "open" => session.broker = b \/ act[b].at = "register"
    /\ act[b].at \in {"idle", "acquire", "backend"} => broker[b].stage = "none"
    /\ act[b].at = "register" => broker[b].stage = "open"
WaitInv ==
  \A b \in Launches : broker[b].stage \in {"taken", "closed", "unlisted"} =>
    \/ \E a \in Calls : act[a].at = "closing" /\ act[a].takes = b
    \/ \E p \in Launches : exits[p].at = "closing" /\ exits[p].takes = b

(* A live lease is the task of the thread, or somebody is about to end it; *)
(* and for the task of the thread there is a broker, or there will be one, *)
(* or somebody will stop whatever task the thread has.                     *)
LeaseInv ==
  \A l \in Launches : taskLeases[l] = "live" =>
    \/ threadTask = l
    \/ \E s \in Launches : act[s].at = "release" /\ act[s].takes = l
    \/ \E b \in Launches : broker[b].stage = "unlisted" /\ broker[b].frees = l
TaskInv ==
  threadTask # NoBroker /\ taskLeases[threadTask] = "live" =>
    \/ \E s \in Launches : act[s].at \in {"backend", "give up"}
    \/ \E b \in Launches : broker[b].stage = "open" /\ broker[b].lease = threadTask
    \/ \E b \in Launches : broker[b].stage \in {"taken", "closed"}

(* The launch of a Pi that runs has not failed: it will stop it before;    *)
(* and what has exited was launched.                                       *)
Keeping(p) == \/ act[p].at \in Since \cup {"stop pi"}
              \/ act[p].at \in {"close", "closing"} /\ act[p].halts
PiInv == pi.at = "running" => pi.of \in Launches /\ Keeping(pi.of) /\ exits[pi.of].at = "none"
ExitInv == \A p \in Launches : exits[p].at # "none" => act[p].at \notin Before

(* A Pi of which the broker knows was the one of the session at that time; *)
(* no other session can launch its own while it runs.                      *)
Greeted(p) == broker[p].hello \/ act[p].at \in {"settle", "started"}
HelloInv ==
  \A p \in Launches :
    /\ act[p].at \in {"settle", "started"} /\ broker[p].stage = "open" => broker[p].hello
    /\ act[p].at \in Before => ~broker[p].hello
OtherInv ==
  pi.at = "running" /\ Greeted(pi.of) /\ session.broker \notin {NoBroker, pi.of} =>
    act[session.broker].at \in {"launch", "close"}

TInv == /\ TypeOK /\ SessionInv /\ OpenInv /\ WaitInv /\ LeaseInv /\ TaskInv
        /\ PiInv /\ ExitInv /\ HelloInv /\ OtherInv

-----------------------------------------------------------------------------
(* Types and effects                                                       *)
Labels == Before \cup Since \cup {"close", "closing", "stop pi", "failed", "over"}
Names == Launches \cup {NoBroker}

(* One call is at l now, holds session t, and will stop Pi if h.           *)
ActAfter(a, l, t, h) ==
  /\ act' \in [Calls -> Acts]
  /\ \A e \in Calls : e # a => act'[e] = act[e]
  /\ act'[a].at = l /\ act'[a].takes = t /\ act'[a].halts = h

BrokerAfter(b, g, l, f, h) ==
  /\ broker' \in [Launches -> Brokers]
  /\ \A e \in Launches : e # b => broker'[e] = broker[e]
  /\ broker'[b].stage = g /\ broker'[b].lease = l /\ broker'[b].frees = f /\ broker'[b].hello = h

(* How the actions move one call.                                          *)
LEMMA ActMoves ==
  ASSUME TypeOK, NEW a \in Calls, NEW l \in Labels, NEW t \in Names, NEW h \in BOOLEAN,
         NEW k \in {"none", "start", "stop", "maintain", "quit"}
  PROVE  /\ Goes(a, l) => ActAfter(a, l, act[a].takes, act[a].halts)
         /\ Closes(a, h) => ActAfter(a, "close", act[a].takes, h)
         /\ Finishes(a, l) => ActAfter(a, l, NoBroker, FALSE)
         /\ act' = [act EXCEPT ![a].at = l, ![a].kind = k]
              => ActAfter(a, l, act[a].takes, act[a].halts)
         /\ act' = [act EXCEPT ![a].at = l, ![a].takes = t] => ActAfter(a, l, t, act[a].halts)
         /\ act' = [act EXCEPT ![a].at = l, ![a].takes = t, ![a].halts = h] => ActAfter(a, l, t, h)
         /\ act' = [act EXCEPT ![a] = [Idle EXCEPT !.at = l, !.kind = k, !.halts = h]]
              => ActAfter(a, l, NoBroker, h)
<1>1. act \in [Calls -> Acts] /\ act[a] \in Acts
  BY DEF TypeOK
<1>2. ASSUME NEW r \in Acts, act' = [act EXCEPT ![a] = r]
      PROVE  ActAfter(a, r.at, r.takes, r.halts)
  BY <1>1, <1>2 DEF ActAfter
<1>3. /\ [act[a] EXCEPT !.at = l] \in Acts
      /\ [act[a] EXCEPT !.at = "close", !.halts = h] \in Acts
      /\ [act[a] EXCEPT !.at = l, !.kind = k] \in Acts
      /\ [act[a] EXCEPT !.at = l, !.takes = t] \in Acts
      /\ [act[a] EXCEPT !.at = l, !.takes = t, !.halts = h] \in Acts
  <2>1. [act[a] EXCEPT !.at = l] \in Acts /\ [act[a] EXCEPT !.at = "close", !.halts = h] \in Acts
    BY <1>1 DEF Acts, Labels
  <2>2. [act[a] EXCEPT !.at = l, !.kind = k] \in Acts
    BY <1>1 DEF Acts, Labels
  <2>3. [act[a] EXCEPT !.at = l, !.takes = t] \in Acts
    BY <1>1 DEF Acts, Labels, Names
  <2>4. [act[a] EXCEPT !.at = l, !.takes = t, !.halts = h] \in Acts
    BY <1>1 DEF Acts, Labels, Names
  <2> QED
    BY <2>1, <2>2, <2>3, <2>4
<1>4. Goes(a, l) => ActAfter(a, l, act[a].takes, act[a].halts)
  <2> DEFINE r == [act[a] EXCEPT !.at = l]
  <2>1. Goes(a, l) => act' = [act EXCEPT ![a] = r]
    BY <1>1 DEF Goes, Acts
  <2>2. /\ r \in Acts
        /\ r.at = l /\ r.takes = act[a].takes /\ r.halts = act[a].halts
    BY <1>1, <1>3 DEF Acts
  <2> HIDE DEF r
  <2> QED
    BY <1>2, <2>1, <2>2
<1>5. Closes(a, h) => ActAfter(a, "close", act[a].takes, h)
  <2> DEFINE r == [act[a] EXCEPT !.at = "close", !.halts = h]
  <2>1. Closes(a, h) => act' = [act EXCEPT ![a] = r]
    BY <1>1 DEF Closes, Acts
  <2>2. /\ r \in Acts
        /\ r.at = "close" /\ r.takes = act[a].takes /\ r.halts = h
    BY <1>1, <1>3 DEF Acts
  <2> HIDE DEF r
  <2> QED
    BY <1>2, <2>1, <2>2
<1>6. Finishes(a, l) => ActAfter(a, l, NoBroker, FALSE)
  <2>1. [Idle EXCEPT !.at = l] \in Acts
    BY DEF Idle, Acts, Labels
  <2> QED
    BY <1>2, <2>1 DEF Finishes, Idle
<1>7. act' = [act EXCEPT ![a].at = l, ![a].kind = k]
        => ActAfter(a, l, act[a].takes, act[a].halts)
  <2> DEFINE r == [act[a] EXCEPT !.at = l, !.kind = k]
  <2>1. act' = [act EXCEPT ![a].at = l, ![a].kind = k] => act' = [act EXCEPT ![a] = r]
    BY <1>1 DEF Acts
  <2>2. /\ r \in Acts
        /\ r.at = l /\ r.takes = act[a].takes /\ r.halts = act[a].halts
    BY <1>1, <1>3 DEF Acts
  <2> HIDE DEF r
  <2> QED
    BY <1>2, <2>1, <2>2
<1>8. act' = [act EXCEPT ![a].at = l, ![a].takes = t] => ActAfter(a, l, t, act[a].halts)
  <2> DEFINE r == [act[a] EXCEPT !.at = l, !.takes = t]
  <2>1. act' = [act EXCEPT ![a].at = l, ![a].takes = t] => act' = [act EXCEPT ![a] = r]
    BY <1>1 DEF Acts
  <2>2. /\ r \in Acts
        /\ r.at = l /\ r.takes = t /\ r.halts = act[a].halts
    BY <1>1, <1>3 DEF Acts
  <2> HIDE DEF r
  <2> QED
    BY <1>2, <2>1, <2>2
<1>9. act' = [act EXCEPT ![a].at = l, ![a].takes = t, ![a].halts = h] => ActAfter(a, l, t, h)
  <2> DEFINE r == [act[a] EXCEPT !.at = l, !.takes = t, !.halts = h]
  <2>1. act' = [act EXCEPT ![a].at = l, ![a].takes = t, ![a].halts = h]
          => act' = [act EXCEPT ![a] = r]
    BY <1>1 DEF Acts
  <2>2. /\ r \in Acts
        /\ r.at = l /\ r.takes = t /\ r.halts = h
    BY <1>1, <1>3 DEF Acts
  <2> HIDE DEF r
  <2> QED
    BY <1>2, <2>1, <2>2
<1>10. act' = [act EXCEPT ![a] = [Idle EXCEPT !.at = l, !.kind = k, !.halts = h]]
         => ActAfter(a, l, NoBroker, h)
  <2>1. [Idle EXCEPT !.at = l, !.kind = k, !.halts = h] \in Acts
    BY DEF Idle, Acts, Labels
  <2> QED
    BY <1>2, <2>1 DEF Idle
<1> QED
  BY <1>4, <1>5, <1>6, <1>7, <1>8, <1>9, <1>10

(* How the actions move one broker.                                        *)
LEMMA BrokerMoves ==
  ASSUME TypeOK, NEW b \in Launches, NEW t \in Names,
         NEW g \in {"none", "open", "taken", "closed", "unlisted", "stopped"}
  PROVE  /\ broker' = [broker EXCEPT ![b].stage = g]
              => BrokerAfter(b, g, broker[b].lease, broker[b].frees, broker[b].hello)
         /\ broker' = [broker EXCEPT ![b].stage = g, ![b].lease = t]
              => BrokerAfter(b, g, t, broker[b].frees, broker[b].hello)
         /\ broker' = [broker EXCEPT ![b].stage = g, ![b].frees = t]
              => BrokerAfter(b, g, broker[b].lease, t, broker[b].hello)
         /\ broker' = [broker EXCEPT ![b].hello = TRUE]
              => BrokerAfter(b, broker[b].stage, broker[b].lease, broker[b].frees, TRUE)
         /\ broker' = [broker EXCEPT ![b] = [NoBrokerYet EXCEPT !.stage = "stopped"]]
              => BrokerAfter(b, "stopped", NoBroker, NoBroker, FALSE)
<1>1. broker \in [Launches -> Brokers] /\ broker[b] \in Brokers
  BY DEF TypeOK
<1>2. ASSUME NEW r \in Brokers, broker' = [broker EXCEPT ![b] = r]
      PROVE  BrokerAfter(b, r.stage, r.lease, r.frees, r.hello)
  BY <1>1, <1>2 DEF BrokerAfter
<1>3. /\ [broker[b] EXCEPT !.stage = g] \in Brokers
      /\ [broker[b] EXCEPT !.stage = g, !.lease = t] \in Brokers
      /\ [broker[b] EXCEPT !.stage = g, !.frees = t] \in Brokers
      /\ [broker[b] EXCEPT !.hello = TRUE] \in Brokers
      /\ [NoBrokerYet EXCEPT !.stage = "stopped"] \in Brokers
  BY <1>1 DEF Brokers, Names, NoBrokerYet
<1>4. broker' = [broker EXCEPT ![b].stage = g]
        => BrokerAfter(b, g, broker[b].lease, broker[b].frees, broker[b].hello)
  <2> DEFINE r == [broker[b] EXCEPT !.stage = g]
  <2>1. broker' = [broker EXCEPT ![b].stage = g] => broker' = [broker EXCEPT ![b] = r]
    BY <1>1 DEF Brokers
  <2>2. /\ r \in Brokers
        /\ r.stage = g /\ r.lease = broker[b].lease /\ r.frees = broker[b].frees
        /\ r.hello = broker[b].hello
    BY <1>1, <1>3 DEF Brokers
  <2> HIDE DEF r
  <2> QED
    BY <1>2, <2>1, <2>2
<1>5. broker' = [broker EXCEPT ![b].stage = g, ![b].lease = t]
        => BrokerAfter(b, g, t, broker[b].frees, broker[b].hello)
  <2> DEFINE r == [broker[b] EXCEPT !.stage = g, !.lease = t]
  <2>1. broker' = [broker EXCEPT ![b].stage = g, ![b].lease = t]
          => broker' = [broker EXCEPT ![b] = r]
    BY <1>1 DEF Brokers
  <2>2. /\ r \in Brokers
        /\ r.stage = g /\ r.lease = t /\ r.frees = broker[b].frees
        /\ r.hello = broker[b].hello
    BY <1>1, <1>3 DEF Brokers
  <2> HIDE DEF r
  <2> QED
    BY <1>2, <2>1, <2>2
<1>6. broker' = [broker EXCEPT ![b].stage = g, ![b].frees = t]
        => BrokerAfter(b, g, broker[b].lease, t, broker[b].hello)
  <2> DEFINE r == [broker[b] EXCEPT !.stage = g, !.frees = t]
  <2>1. broker' = [broker EXCEPT ![b].stage = g, ![b].frees = t]
          => broker' = [broker EXCEPT ![b] = r]
    BY <1>1 DEF Brokers
  <2>2. /\ r \in Brokers
        /\ r.stage = g /\ r.lease = broker[b].lease /\ r.frees = t /\ r.hello = broker[b].hello
    BY <1>1, <1>3 DEF Brokers
  <2> HIDE DEF r
  <2> QED
    BY <1>2, <2>1, <2>2
<1>7. broker' = [broker EXCEPT ![b].hello = TRUE]
        => BrokerAfter(b, broker[b].stage, broker[b].lease, broker[b].frees, TRUE)
  <2> DEFINE r == [broker[b] EXCEPT !.hello = TRUE]
  <2>1. broker' = [broker EXCEPT ![b].hello = TRUE] => broker' = [broker EXCEPT ![b] = r]
    BY <1>1 DEF Brokers
  <2>2. /\ r \in Brokers
        /\ r.stage = broker[b].stage /\ r.lease = broker[b].lease /\ r.frees = broker[b].frees
        /\ r.hello = TRUE
    BY <1>1, <1>3 DEF Brokers
  <2> HIDE DEF r
  <2> QED
    BY <1>2, <2>1, <2>2
<1>8. broker' = [broker EXCEPT ![b] = [NoBrokerYet EXCEPT !.stage = "stopped"]]
        => BrokerAfter(b, "stopped", NoBroker, NoBroker, FALSE)
  BY <1>2, <1>3 DEF NoBrokerYet
<1> QED
  BY <1>4, <1>5, <1>6, <1>7, <1>8


-----------------------------------------------------------------------------
(* What the parts of the invariant need of a step                          *)

(* Whoever waits for a broker waits until its task was stopped.            *)
LEMMA WaitKept ==
  ASSUME WaitInv,
         \A a \in Calls : act[a].at = "closing" =>
           act'[a] = act[a] \/ broker'[act[a].takes].stage = "stopped",
         \A p \in Launches : exits[p].at = "closing" =>
           exits'[p] = exits[p] \/ broker'[exits[p].takes].stage = "stopped",
         \A b \in Launches : broker'[b].stage \in {"taken", "closed", "unlisted"} =>
           \/ broker[b].stage \in {"taken", "closed", "unlisted"}
           \/ \E a \in Calls : act'[a].at = "closing" /\ act'[a].takes = b
           \/ \E p \in Launches : exits'[p].at = "closing" /\ exits'[p].takes = b
  PROVE  WaitInv'
<1>1. ASSUME NEW b \in Launches, broker'[b].stage \in {"taken", "closed", "unlisted"}
      PROVE  \/ \E a \in Calls : act'[a].at = "closing" /\ act'[a].takes = b
             \/ \E p \in Launches : exits'[p].at = "closing" /\ exits'[p].takes = b
  <2>1. CASE broker[b].stage \in {"taken", "closed", "unlisted"}
    <3>1. CASE \E a \in Calls : act[a].at = "closing" /\ act[a].takes = b
      BY <1>1, <3>1
    <3>2. CASE \E p \in Launches : exits[p].at = "closing" /\ exits[p].takes = b
      BY <1>1, <3>2
    <3> QED
      BY <2>1, <3>1, <3>2 DEF WaitInv
  <2>2. CASE broker[b].stage \notin {"taken", "closed", "unlisted"}
    BY <1>1, <2>2
  <2> QED
    BY <2>1, <2>2
<1> QED
  BY <1>1 DEF WaitInv

(* A lease stays with the thread, or with who is about to end it.          *)
LEMMA LeaseKept ==
  ASSUME LeaseInv,
         \A l \in Launches : taskLeases'[l] = "live" => taskLeases[l] = "live" \/ threadTask' = l,
         \A l \in Launches : threadTask = l =>
           \/ threadTask' = l \/ taskLeases'[l] # "live"
           \/ \E s \in Launches : act'[s].at = "release" /\ act'[s].takes = l
           \/ \E b \in Launches : broker'[b].stage = "unlisted" /\ broker'[b].frees = l,
         \A s \in Launches : act[s].at = "release" =>
           act'[s] = act[s] \/ taskLeases'[act[s].takes] # "live",
         \A b \in Launches : broker[b].stage = "unlisted" =>
           \/ broker'[b].stage = "unlisted" /\ broker'[b].frees = broker[b].frees
           \/ taskLeases'[broker[b].frees] # "live"
  PROVE  LeaseInv'
<1>1. ASSUME NEW l \in Launches, taskLeases'[l] = "live"
      PROVE  \/ threadTask' = l
             \/ \E s \in Launches : act'[s].at = "release" /\ act'[s].takes = l
             \/ \E b \in Launches : broker'[b].stage = "unlisted" /\ broker'[b].frees = l
  <2>1. CASE threadTask = l
    BY <1>1, <2>1
  <2>2. CASE \E s \in Launches : act[s].at = "release" /\ act[s].takes = l
    BY <1>1, <2>2
  <2>3. CASE \E b \in Launches : broker[b].stage = "unlisted" /\ broker[b].frees = l
    BY <1>1, <2>3
  <2> QED
    BY <1>1, <2>1, <2>2, <2>3 DEF LeaseInv
<1> QED
  BY <1>1 DEF LeaseInv

(* The task of the thread keeps somebody who answers for it.               *)
LEMMA TaskKept ==
  ASSUME TaskInv, threadTask' # NoBroker => threadTask' = threadTask,
         threadTask \in Launches =>
           (taskLeases'[threadTask] = "live" => taskLeases[threadTask] = "live"),
         threadTask' # NoBroker => \A s \in Launches : act[s].at \in {"backend", "give up"} =>
           \/ act'[s].at \in {"backend", "give up"}
           \/ broker'[s].stage = "open" /\ broker'[s].lease = threadTask,
         threadTask' # NoBroker => \A b \in Launches : broker[b].stage = "open" =>
           \/ broker'[b].stage = "open" /\ broker'[b].lease \in {broker[b].lease, threadTask}
           \/ broker'[b].stage \in {"taken", "closed"},
         threadTask' # NoBroker => \A b \in Launches : broker[b].stage \in {"taken", "closed"} =>
           \/ broker'[b].stage \in {"taken", "closed"}
           \/ broker'[b].stage = "open" /\ broker'[b].lease = threadTask,
         threadTask \in Launches \cup {NoBroker}
  PROVE  TaskInv'
<1> SUFFICES ASSUME threadTask' # NoBroker, taskLeases'[threadTask'] = "live"
             PROVE  \/ \E s \in Launches : act'[s].at \in {"backend", "give up"}
                    \/ \E b \in Launches :
                         broker'[b].stage = "open" /\ broker'[b].lease = threadTask'
                    \/ \E b \in Launches : broker'[b].stage \in {"taken", "closed"}
  BY DEF TaskInv
<1>1. threadTask' = threadTask /\ threadTask # NoBroker /\ taskLeases[threadTask] = "live"
  OBVIOUS
<1>2. CASE \E s \in Launches : act[s].at \in {"backend", "give up"}
  BY <1>1, <1>2
<1>3. CASE \E b \in Launches : broker[b].stage = "open" /\ broker[b].lease = threadTask
  BY <1>1, <1>3
<1>4. CASE \E b \in Launches : broker[b].stage \in {"taken", "closed"}
  BY <1>1, <1>4
<1> QED
  BY <1>1, <1>2, <1>3, <1>4 DEF TaskInv

(* While a Pi that was greeted runs, no session but its own launches one.  *)
LEMMA OtherKept ==
  ASSUME OtherInv, PiInv, pi'.at = "running" => pi' = pi,
         session'.broker \in {NoBroker, session.broker},
         \A p \in Launches : Greeted(p)' => Greeted(p) \/ session.broker = p,
         \A b \in Launches : act[b].at \in {"launch", "close"} /\ session'.broker = b
                               /\ pi'.at = "running" =>
           act'[b].at \in {"launch", "close"},
         session.broker \in Launches \cup {NoBroker}
  PROVE  OtherInv'
<1> SUFFICES ASSUME pi'.at = "running", Greeted(pi.of)', session'.broker \notin {NoBroker, pi'.of}
             PROVE  act'[session'.broker].at \in {"launch", "close"}
  BY DEF OtherInv
<1>1. pi' = pi /\ session'.broker = session.broker /\ session.broker \in Launches
  OBVIOUS
<1>2. pi.of \in Launches
  BY <1>1 DEF PiInv
<1>3. Greeted(pi.of)
  <2>1. PICK p \in Launches : p = pi.of
    BY <1>2
  <2>2. Greeted(p)'
    BY <1>1, <2>1 DEF Greeted
  <2> QED
    BY <1>1, <2>1, <2>2
<1> QED
  BY <1>1, <1>2, <1>3 DEF OtherInv


-----------------------------------------------------------------------------
(* The steps                                                               *)

(* A launch goes on, or fails, without touching anything shared.           *)
LEMMA LaunchMoves ==
  ASSUME TInv, CallsAreDistinct,
         NEW s \in Launches, NEW l, NEW t, NEW h,
         ActAfter(s, l, t, h), UNCHANGED <<session, threadTask, taskLeases, broker, pi, exits>>,
         \/ act[s].at = "idle" /\ l = "acquire"
         \/ act[s].at = "acquire" /\ l = "failed"
         \/ act[s].at = "backend" /\ l = "give up"
         \/ act[s].at = "launch" /\ l = "close"
         \/ act[s].at = "ready" /\ l = "handshake"
         \/ act[s].at = "handshake" /\ l = "settle" /\ broker[s].hello
         \/ act[s].at \in {"handshake", "settle"} /\ l = "close" /\ h
  PROVE  TInv'
<1>1. /\ TypeOK /\ SessionInv /\ OpenInv /\ WaitInv /\ LeaseInv /\ TaskInv
      /\ PiInv /\ ExitInv /\ HelloInv /\ OtherInv
  BY DEF TInv
<1>2. /\ s \in Calls
      /\ \A e \in Calls : e # s => act'[e] = act[e]
      /\ act'[s].at = l /\ act'[s].takes = t /\ act'[s].halts = h
  BY DEF ActAfter, Calls
<1>3. /\ act \in [Calls -> Acts] /\ broker \in [Launches -> Brokers]
      /\ exits \in [Launches -> Exits]
      /\ \A e \in Launches : e \in Calls
      /\ session.broker \in Launches \cup {NoBroker} /\ threadTask \in Launches \cup {NoBroker}
  BY <1>1 DEF TypeOK, Calls
<1>4. \A a \in Calls : act[a].at \in {"closing", "release"} => act'[a] = act[a]
  BY <1>2
<1>5. TypeOK'
  BY <1>1 DEF TypeOK, ActAfter
<1>6. SessionInv'
  BY <1>1, <1>2, <1>3, <1>4 DEF SessionInv, Since
<1>7. OpenInv'
  BY <1>1, <1>2, <1>3, <1>4 DEF OpenInv
<1>8. WaitInv'
  BY <1>1, <1>2, <1>3, <1>4, WaitKept
<1>9. LeaseInv'
  BY <1>1, <1>2, <1>3, <1>4, LeaseKept
<1>10. TaskInv'
  BY <1>1, <1>2, <1>3, <1>4, TaskKept
<1>11. PiInv'
  BY <1>1, <1>2, <1>3, <1>4 DEF PiInv, Keeping, Since
<1>12. ExitInv'
  BY <1>1, <1>2, <1>3, <1>4 DEF ExitInv, Before
<1>13. HelloInv'
  BY <1>1, <1>2, <1>3, <1>4 DEF HelloInv, Before
<1>14. OtherInv'
  BY <1>1, <1>2, <1>3, <1>4, OtherKept DEF Greeted
<1> QED
  BY <1>5, <1>6, <1>7, <1>8, <1>9, <1>10, <1>11, <1>12, <1>13, <1>14 DEF TInv

(* A call that ends the session begins, or has found none, or waited.      *)
LEMMA EnderMoves ==
  ASSUME TInv, CallsAreDistinct,
         NEW s \in Calls, NEW l, NEW t, NEW h,
         ActAfter(s, l, t, h), UNCHANGED <<session, threadTask, taskLeases, broker, pi, exits>>,
         \/ s \in Stoppers /\ act[s].at = "idle" /\ l = "close"
         \/ /\ act[s].at = "close" /\ session.broker = NoBroker
            /\ \/ act[s].halts /\ l = "stop pi"
               \/ ~act[s].halts /\ l = "failed"
         \/ /\ act[s].at = "closing" /\ broker[act[s].takes].stage = "stopped"
            /\ \/ act[s].halts /\ l = "stop pi"
               \/ ~act[s].halts /\ l = "failed"
  PROVE  TInv'
<1>1. /\ TypeOK /\ SessionInv /\ OpenInv /\ WaitInv /\ LeaseInv /\ TaskInv
      /\ PiInv /\ ExitInv /\ HelloInv /\ OtherInv
  BY DEF TInv
<1>2. /\ s \in Calls
      /\ \A e \in Calls : e # s => act'[e] = act[e]
      /\ act'[s].at = l /\ act'[s].takes = t /\ act'[s].halts = h
  BY DEF ActAfter, Calls
<1>3. /\ act \in [Calls -> Acts] /\ broker \in [Launches -> Brokers]
      /\ exits \in [Launches -> Exits]
      /\ \A e \in Launches : e \in Calls
      /\ session.broker \in Launches \cup {NoBroker} /\ threadTask \in Launches \cup {NoBroker}
  BY <1>1 DEF TypeOK, Calls
<1>4. s \in Launches => s \notin Stoppers
  BY DEF CallsAreDistinct
<1>5. TypeOK'
  BY <1>1 DEF TypeOK, ActAfter
<1>6. SessionInv'
  BY <1>1, <1>2, <1>3, <1>4 DEF SessionInv, Since
<1>7. OpenInv'
  BY <1>1, <1>2, <1>3, <1>4 DEF OpenInv
<1>8. WaitInv'
  BY <1>1, <1>2, <1>3, <1>4, WaitKept
<1>9. LeaseInv'
  BY <1>1, <1>2, <1>3, <1>4, LeaseKept
<1>10. TaskInv'
  BY <1>1, <1>2, <1>3, <1>4, TaskKept
<1>11. PiInv'
  BY <1>1, <1>2, <1>3, <1>4 DEF PiInv, Keeping, Since
<1>12. ExitInv'
  BY <1>1, <1>2, <1>3, <1>4 DEF ExitInv, Before
<1>13. HelloInv'
  BY <1>1, <1>2, <1>3, <1>4 DEF HelloInv, Before
<1>14. OtherInv'
  BY <1>1, <1>2, <1>3, <1>4, OtherKept DEF Greeted
<1> QED
  BY <1>5, <1>6, <1>7, <1>8, <1>9, <1>10, <1>11, <1>12, <1>13, <1>14 DEF TInv

(* The task of the thread is the one of the launch, which answers for it.  *)
LEMMA AcquireKeeps ==
  ASSUME TInv, CallsAreDistinct,
         NEW s \in Launches, act[s].at = "acquire", threadTask = NoBroker, threadTask' = s,
         ActAfter(s, "backend", act[s].takes, act[s].halts),
         taskLeases' = [taskLeases EXCEPT ![s] = "live"], UNCHANGED <<session, broker, pi, exits>>
  PROVE  TInv'
<1>1. /\ TypeOK /\ SessionInv /\ OpenInv /\ WaitInv /\ LeaseInv /\ TaskInv
      /\ PiInv /\ ExitInv /\ HelloInv /\ OtherInv
  BY DEF TInv
<1>2. /\ \A e \in Calls : e # s => act'[e] = act[e]
      /\ act'[s].at = "backend" /\ act'[s].takes = act[s].takes /\ act'[s].halts = act[s].halts
  BY DEF ActAfter
<1>3. /\ act \in [Calls -> Acts] /\ broker \in [Launches -> Brokers]
      /\ exits \in [Launches -> Exits]
      /\ \A e \in Launches : e \in Calls
      /\ session.broker \in Launches \cup {NoBroker} /\ threadTask \in Launches \cup {NoBroker}
  BY <1>1 DEF TypeOK, Calls
<1>4. /\ taskLeases \in [Launches -> {"none", "live", "ended"}] /\ s \in Calls /\ s # NoBroker
      /\ \A l \in Launches : l # s => taskLeases'[l] = taskLeases[l]
  BY <1>1 DEF TypeOK, Calls, CallsAreDistinct
<1>5. TypeOK'
  BY <1>1, <1>4 DEF TypeOK, ActAfter
<1>6. SessionInv'
  BY <1>1, <1>2, <1>3, <1>4 DEF SessionInv, Since
<1>7. OpenInv'
  BY <1>1, <1>2, <1>3, <1>4 DEF OpenInv
<1>8. WaitInv'
  BY <1>1, <1>2, <1>3, <1>4, WaitKept
<1>9. LeaseInv'
  BY <1>1, <1>2, <1>3, <1>4, LeaseKept
<1>10. TaskInv'
  BY <1>1, <1>2, <1>3, <1>4 DEF TaskInv
<1>11. PiInv'
  BY <1>1, <1>2, <1>3, <1>4 DEF PiInv, Keeping, Since
<1>12. ExitInv'
  BY <1>1, <1>2, <1>3, <1>4 DEF ExitInv, Before
<1>13. HelloInv'
  BY <1>1, <1>2, <1>3, <1>4 DEF HelloInv, Before
<1>14. OtherInv'
  BY <1>1, <1>2, <1>3, <1>4, OtherKept DEF Greeted
<1> QED
  BY <1>5, <1>6, <1>7, <1>8, <1>9, <1>10, <1>11, <1>12, <1>13, <1>14 DEF TInv

(* The launch makes its broker on the lease the thread has now.            *)
LEMMA NewBrokerKeeps ==
  ASSUME TInv, CallsAreDistinct,
         NEW s \in Launches, act[s].at = "backend", threadTask # NoBroker,
         ActAfter(s, "register", act[s].takes, act[s].halts),
         BrokerAfter(s, "open", threadTask, broker[s].frees, broker[s].hello),
         UNCHANGED <<session, threadTask, taskLeases, pi, exits>>
  PROVE  TInv'
<1>1. /\ TypeOK /\ SessionInv /\ OpenInv /\ WaitInv /\ LeaseInv /\ TaskInv
      /\ PiInv /\ ExitInv /\ HelloInv /\ OtherInv
  BY DEF TInv
<1>2. /\ \A e \in Calls : e # s => act'[e] = act[e]
      /\ act'[s].at = "register" /\ act'[s].takes = act[s].takes /\ act'[s].halts = act[s].halts
  BY DEF ActAfter
<1>3. /\ \A e \in Launches : e # s => broker'[e] = broker[e]
      /\ broker'[s].stage = "open" /\ broker'[s].lease = threadTask
      /\ broker'[s].frees = broker[s].frees /\ broker'[s].hello = broker[s].hello
  BY DEF BrokerAfter
<1>4. /\ act \in [Calls -> Acts] /\ broker \in [Launches -> Brokers]
      /\ exits \in [Launches -> Exits]
      /\ \A e \in Launches : e \in Calls
      /\ session.broker \in Launches \cup {NoBroker} /\ threadTask \in Launches \cup {NoBroker}
  BY <1>1 DEF TypeOK, Calls
<1>5. s \in Calls /\ broker[s].stage = "none"
  BY <1>1 DEF OpenInv, Calls
<1>6. TypeOK'
  BY <1>1 DEF TypeOK, ActAfter, BrokerAfter
<1>7. SessionInv'
  BY <1>1, <1>2, <1>3, <1>4, <1>5 DEF SessionInv, Since
<1>8. OpenInv'
  BY <1>1, <1>2, <1>3, <1>4, <1>5 DEF OpenInv
<1>9. WaitInv'
  BY <1>1, <1>2, <1>3, <1>4, <1>5, WaitKept
<1>10. LeaseInv'
  BY <1>1, <1>2, <1>3, <1>4, <1>5, LeaseKept
<1>11. TaskInv'
  BY <1>1, <1>2, <1>3, <1>4, <1>5, TaskKept
<1>12. PiInv'
  BY <1>1, <1>2, <1>3, <1>4, <1>5 DEF PiInv, Keeping, Since
<1>13. ExitInv'
  BY <1>1, <1>2, <1>3, <1>4, <1>5 DEF ExitInv, Before
<1>14. HelloInv'
  BY <1>1, <1>2, <1>3, <1>4, <1>5 DEF HelloInv, Before
<1>15. OtherInv'
  BY <1>1, <1>2, <1>3, <1>4, <1>5, OtherKept DEF Greeted
<1> QED
  BY <1>6, <1>7, <1>8, <1>9, <1>10, <1>11, <1>12, <1>13, <1>14, <1>15 DEF TInv

(* A launch that failed takes whatever task the thread has, to end it.     *)
LEMMA GiveUpKeeps ==
  ASSUME TInv, CallsAreDistinct,
         NEW s \in Launches, act[s].at = "give up", threadTask' = NoBroker,
         ActAfter(s, "release", threadTask, act[s].halts),
         UNCHANGED <<session, taskLeases, broker, pi, exits>>
  PROVE  TInv'
<1>1. /\ TypeOK /\ SessionInv /\ OpenInv /\ WaitInv /\ LeaseInv /\ TaskInv
      /\ PiInv /\ ExitInv /\ HelloInv /\ OtherInv
  BY DEF TInv
<1>2. /\ \A e \in Calls : e # s => act'[e] = act[e]
      /\ act'[s].at = "release" /\ act'[s].takes = threadTask /\ act'[s].halts = act[s].halts
  BY DEF ActAfter
<1>3. /\ act \in [Calls -> Acts] /\ broker \in [Launches -> Brokers]
      /\ exits \in [Launches -> Exits]
      /\ \A e \in Launches : e \in Calls
      /\ session.broker \in Launches \cup {NoBroker} /\ threadTask \in Launches \cup {NoBroker}
  BY <1>1 DEF TypeOK, Calls
<1>4. s \in Calls
  BY DEF Calls
<1>5. TypeOK'
  BY <1>1 DEF TypeOK, ActAfter
<1>6. SessionInv'
  BY <1>1, <1>2, <1>3, <1>4 DEF SessionInv, Since
<1>7. OpenInv'
  BY <1>1, <1>2, <1>3, <1>4 DEF OpenInv
<1>8. WaitInv'
  BY <1>1, <1>2, <1>3, <1>4, WaitKept
<1>9. LeaseInv'
  BY <1>1, <1>2, <1>3, <1>4, LeaseKept
<1>10. TaskInv'
  BY <1>1, <1>2, <1>3, <1>4, TaskKept
<1>11. PiInv'
  BY <1>1, <1>2, <1>3, <1>4 DEF PiInv, Keeping, Since
<1>12. ExitInv'
  BY <1>1, <1>2, <1>3, <1>4 DEF ExitInv, Before
<1>13. HelloInv'
  BY <1>1, <1>2, <1>3, <1>4 DEF HelloInv, Before
<1>14. OtherInv'
  BY <1>1, <1>2, <1>3, <1>4, OtherKept DEF Greeted
<1> QED
  BY <1>5, <1>6, <1>7, <1>8, <1>9, <1>10, <1>11, <1>12, <1>13, <1>14 DEF TInv

(* It ends, and the launch with it.                                        *)
LEMMA GivenUpKeeps ==
  ASSUME TInv, CallsAreDistinct,
         NEW s \in Launches, act[s].at = "release", taskLeases' = Ending(act[s].takes),
         ActAfter(s, "failed", NoBroker, FALSE), UNCHANGED <<session, threadTask, broker, pi, exits>>
  PROVE  TInv'
<1>1. /\ TypeOK /\ SessionInv /\ OpenInv /\ WaitInv /\ LeaseInv /\ TaskInv
      /\ PiInv /\ ExitInv /\ HelloInv /\ OtherInv
  BY DEF TInv
<1>2. /\ \A e \in Calls : e # s => act'[e] = act[e]
      /\ act'[s].at = "failed" /\ act'[s].takes = NoBroker /\ act'[s].halts = FALSE
  BY DEF ActAfter
<1>3. /\ act \in [Calls -> Acts] /\ broker \in [Launches -> Brokers]
      /\ exits \in [Launches -> Exits]
      /\ \A e \in Launches : e \in Calls
      /\ session.broker \in Launches \cup {NoBroker} /\ threadTask \in Launches \cup {NoBroker}
  BY <1>1 DEF TypeOK, Calls
<1>4. /\ s \in Calls /\ taskLeases \in [Launches -> {"none", "live", "ended"}]
      /\ act[s].takes \in Launches \cup {NoBroker}
  BY <1>1 DEF TypeOK, Calls, Acts
<1>5. /\ taskLeases' \in [Launches -> {"none", "live", "ended"}]
      /\ \A l \in Launches : taskLeases'[l] = "live" => taskLeases[l] = "live" /\ l # act[s].takes
  BY <1>4 DEF Ending
<1>6. TypeOK'
  BY <1>1, <1>5 DEF TypeOK, ActAfter
<1>7. SessionInv'
  BY <1>1, <1>2, <1>3, <1>4, <1>5 DEF SessionInv, Since
<1>8. OpenInv'
  BY <1>1, <1>2, <1>3, <1>4, <1>5 DEF OpenInv
<1>9. WaitInv'
  BY <1>1, <1>2, <1>3, <1>4, <1>5, WaitKept
<1>10. LeaseInv'
  <2>1. taskLeases'[act[s].takes] # "live" \/ act[s].takes = NoBroker
    BY <1>4, <1>5
  <2> QED
    BY <1>1, <1>2, <1>3, <1>4, <1>5, <2>1 DEF LeaseInv
<1>11. TaskInv'
  BY <1>1, <1>2, <1>3, <1>4, <1>5, TaskKept
<1>12. PiInv'
  BY <1>1, <1>2, <1>3, <1>4, <1>5 DEF PiInv, Keeping, Since
<1>13. ExitInv'
  BY <1>1, <1>2, <1>3, <1>4, <1>5 DEF ExitInv, Before
<1>14. HelloInv'
  BY <1>1, <1>2, <1>3, <1>4, <1>5 DEF HelloInv, Before
<1>15. OtherInv'
  BY <1>1, <1>2, <1>3, <1>4, <1>5, OtherKept DEF Greeted
<1> QED
  BY <1>6, <1>7, <1>8, <1>9, <1>10, <1>11, <1>12, <1>13, <1>14, <1>15 DEF TInv

(* The session is the one of the launch.                                   *)
LEMMA RegisterKeeps ==
  ASSUME TInv, CallsAreDistinct,
         NEW s \in Launches, act[s].at = "register", session.broker = NoBroker,
         ActAfter(s, "launch", act[s].takes, act[s].halts),
         session' = [session EXCEPT !.broker = s],
         UNCHANGED <<threadTask, taskLeases, broker, pi, exits>>
  PROVE  TInv'
<1>1. /\ TypeOK /\ SessionInv /\ OpenInv /\ WaitInv /\ LeaseInv /\ TaskInv
      /\ PiInv /\ ExitInv /\ HelloInv /\ OtherInv
  BY DEF TInv
<1>2. /\ \A e \in Calls : e # s => act'[e] = act[e]
      /\ act'[s].at = "launch" /\ act'[s].takes = act[s].takes /\ act'[s].halts = act[s].halts
  BY DEF ActAfter
<1>3. /\ act \in [Calls -> Acts] /\ broker \in [Launches -> Brokers]
      /\ exits \in [Launches -> Exits]
      /\ \A e \in Launches : e \in Calls
      /\ session.broker \in Launches \cup {NoBroker} /\ threadTask \in Launches \cup {NoBroker}
  BY <1>1 DEF TypeOK, Calls
<1>4. /\ s \in Calls /\ s # NoBroker
      /\ session \in [broker : Launches \cup {NoBroker}, generation : Launches \cup {NoBroker}]
  BY <1>1 DEF TypeOK, Calls, CallsAreDistinct
<1>5. session'.broker = s /\ session'.generation = NoBroker
  BY <1>1, <1>4 DEF SessionInv
<1>6. exits[s].at = "none" /\ broker[s].stage = "open"
  BY <1>1 DEF ExitInv, OpenInv, Before
<1>7. TypeOK'
  BY <1>1, <1>4 DEF TypeOK, ActAfter
<1>8. SessionInv'
  BY <1>1, <1>2, <1>3, <1>4, <1>5, <1>6 DEF SessionInv, Since
<1>9. OpenInv'
  BY <1>1, <1>2, <1>3, <1>4, <1>5, <1>6 DEF OpenInv
<1>10. WaitInv'
  BY <1>1, <1>2, <1>3, <1>4, <1>5, <1>6, WaitKept
<1>11. LeaseInv'
  BY <1>1, <1>2, <1>3, <1>4, <1>5, <1>6, LeaseKept
<1>12. TaskInv'
  BY <1>1, <1>2, <1>3, <1>4, <1>5, <1>6, TaskKept
<1>13. PiInv'
  BY <1>1, <1>2, <1>3, <1>4, <1>5, <1>6 DEF PiInv, Keeping, Since
<1>14. ExitInv'
  BY <1>1, <1>2, <1>3, <1>4, <1>5, <1>6 DEF ExitInv, Before
<1>15. HelloInv'
  BY <1>1, <1>2, <1>3, <1>4, <1>5, <1>6 DEF HelloInv, Before
<1>16. OtherInv'
  <2>1. act'[session'.broker].at = "launch"
    BY <1>2, <1>5
  <2> QED
    BY <2>1 DEF OtherInv
<1> QED
  BY <1>7, <1>8, <1>9, <1>10, <1>11, <1>12, <1>13, <1>14, <1>15, <1>16 DEF TInv

(* Another launch has registered its own: the broker is closed.            *)
LEMMA RegisterFails ==
  ASSUME TInv, CallsAreDistinct,
         NEW s \in Launches, act[s].at = "register", session.broker # NoBroker,
         ActAfter(s, "closing", s, act[s].halts),
         BrokerAfter(s, "taken", broker[s].lease, broker[s].frees, broker[s].hello),
         UNCHANGED <<session, threadTask, taskLeases, pi, exits>>
  PROVE  TInv'
<1>1. /\ TypeOK /\ SessionInv /\ OpenInv /\ WaitInv /\ LeaseInv /\ TaskInv
      /\ PiInv /\ ExitInv /\ HelloInv /\ OtherInv
  BY DEF TInv
<1>2. /\ \A e \in Calls : e # s => act'[e] = act[e]
      /\ act'[s].at = "closing" /\ act'[s].takes = s /\ act'[s].halts = act[s].halts
  BY DEF ActAfter
<1>3. /\ \A e \in Launches : e # s => broker'[e] = broker[e]
      /\ broker'[s].stage = "taken" /\ broker'[s].lease = broker[s].lease
      /\ broker'[s].frees = broker[s].frees /\ broker'[s].hello = broker[s].hello
  BY DEF BrokerAfter
<1>4. /\ act \in [Calls -> Acts] /\ broker \in [Launches -> Brokers]
      /\ exits \in [Launches -> Exits]
      /\ \A e \in Launches : e \in Calls
      /\ session.broker \in Launches \cup {NoBroker} /\ threadTask \in Launches \cup {NoBroker}
  BY <1>1 DEF TypeOK, Calls
<1>5. s \in Calls /\ broker[s].stage = "open"
  BY <1>1 DEF OpenInv, Calls
<1>6. TypeOK'
  BY <1>1 DEF TypeOK, ActAfter, BrokerAfter
<1>7. SessionInv'
  BY <1>1, <1>2, <1>3, <1>4, <1>5 DEF SessionInv, Since
<1>8. OpenInv'
  BY <1>1, <1>2, <1>3, <1>4, <1>5 DEF OpenInv
<1>9. WaitInv'
  BY <1>1, <1>2, <1>3, <1>4, <1>5, WaitKept
<1>10. LeaseInv'
  BY <1>1, <1>2, <1>3, <1>4, <1>5, LeaseKept
<1>11. TaskInv'
  BY <1>1, <1>2, <1>3, <1>4, <1>5, TaskKept
<1>12. PiInv'
  BY <1>1, <1>2, <1>3, <1>4, <1>5 DEF PiInv, Keeping, Since
<1>13. ExitInv'
  BY <1>1, <1>2, <1>3, <1>4, <1>5 DEF ExitInv, Before
<1>14. HelloInv'
  BY <1>1, <1>2, <1>3, <1>4, <1>5 DEF HelloInv, Before
<1>15. OtherInv'
  BY <1>1, <1>2, <1>3, <1>4, <1>5, OtherKept DEF Greeted
<1> QED
  BY <1>6, <1>7, <1>8, <1>9, <1>10, <1>11, <1>12, <1>13, <1>14, <1>15 DEF TInv

(* A Pi is launched when none runs; its broker has not heard of it.        *)
LEMMA LaunchKeeps ==
  ASSUME TInv, CallsAreDistinct,
         NEW s \in Launches, act[s].at = "launch", pi.at = "free", pi' = [at |-> "running", of |-> s],
         ActAfter(s, "ready", act[s].takes, act[s].halts),
         UNCHANGED <<session, threadTask, taskLeases, broker, exits>>
  PROVE  TInv'
<1>1. /\ TypeOK /\ SessionInv /\ OpenInv /\ WaitInv /\ LeaseInv /\ TaskInv
      /\ PiInv /\ ExitInv /\ HelloInv /\ OtherInv
  BY DEF TInv
<1>2. /\ \A e \in Calls : e # s => act'[e] = act[e]
      /\ act'[s].at = "ready" /\ act'[s].takes = act[s].takes /\ act'[s].halts = act[s].halts
  BY DEF ActAfter
<1>3. /\ act \in [Calls -> Acts] /\ broker \in [Launches -> Brokers]
      /\ exits \in [Launches -> Exits]
      /\ \A e \in Launches : e \in Calls
      /\ session.broker \in Launches \cup {NoBroker} /\ threadTask \in Launches \cup {NoBroker}
  BY <1>1 DEF TypeOK, Calls
<1>4. s \in Calls /\ pi'.of = s /\ exits[s].at = "none"
  BY <1>1 DEF ExitInv, Before, Calls
<1>5. TypeOK'
  BY <1>1 DEF TypeOK, ActAfter
<1>6. SessionInv'
  BY <1>1, <1>2, <1>3, <1>4 DEF SessionInv, Since
<1>7. OpenInv'
  BY <1>1, <1>2, <1>3, <1>4 DEF OpenInv
<1>8. WaitInv'
  BY <1>1, <1>2, <1>3, <1>4, WaitKept
<1>9. LeaseInv'
  BY <1>1, <1>2, <1>3, <1>4, LeaseKept
<1>10. TaskInv'
  BY <1>1, <1>2, <1>3, <1>4, TaskKept
<1>11. PiInv'
  BY <1>1, <1>2, <1>3, <1>4 DEF PiInv, Keeping, Since
<1>12. ExitInv'
  BY <1>1, <1>2, <1>3, <1>4 DEF ExitInv, Before
<1>13. HelloInv'
  BY <1>1, <1>2, <1>3, <1>4 DEF HelloInv, Before
<1>14. OtherInv'
  <2>1. ~Greeted(s)'
    BY <1>1, <1>2 DEF HelloInv, Before, Greeted
  <2>2. ~Greeted(pi.of)'
    BY <2>1, <1>4 DEF Greeted
  <2> QED
    BY <2>2 DEF OtherInv
<1> QED
  BY <1>5, <1>6, <1>7, <1>8, <1>9, <1>10, <1>11, <1>12, <1>13, <1>14 DEF TInv

(* A Pi that does not get ready is stopped, if it runs.                    *)
LEMMA UnreadyKeeps ==
  ASSUME TInv, CallsAreDistinct,
         NEW s \in Launches, act[s].at = "ready",
         pi' = IF pi = [at |-> "running", of |-> s] THEN NoPi ELSE pi,
         ActAfter(s, "close", act[s].takes, FALSE),
         UNCHANGED <<session, threadTask, taskLeases, broker, exits>>
  PROVE  TInv'
<1>1. /\ TypeOK /\ SessionInv /\ OpenInv /\ WaitInv /\ LeaseInv /\ TaskInv
      /\ PiInv /\ ExitInv /\ HelloInv /\ OtherInv
  BY DEF TInv
<1>2. /\ \A e \in Calls : e # s => act'[e] = act[e]
      /\ act'[s].at = "close" /\ act'[s].takes = act[s].takes /\ act'[s].halts = FALSE
  BY DEF ActAfter
<1>3. /\ act \in [Calls -> Acts] /\ broker \in [Launches -> Brokers]
      /\ exits \in [Launches -> Exits]
      /\ \A e \in Launches : e \in Calls
      /\ session.broker \in Launches \cup {NoBroker} /\ threadTask \in Launches \cup {NoBroker}
  BY <1>1 DEF TypeOK, Calls
<1>4. /\ s \in Calls /\ pi \in [at : {"free", "running", "exiting"}, of : Launches \cup {NoBroker}]
      /\ pi' \in [at : {"free", "running", "exiting"}, of : Launches \cup {NoBroker}]
  BY <1>1 DEF TypeOK, Calls, NoPi
<1>5. pi'.at = "running" => pi' = pi /\ pi.of # s
  BY <1>4 DEF NoPi
<1>6. TypeOK'
  BY <1>1, <1>4 DEF TypeOK, ActAfter
<1>7. SessionInv'
  BY <1>1, <1>2, <1>3, <1>4, <1>5 DEF SessionInv, Since
<1>8. OpenInv'
  BY <1>1, <1>2, <1>3, <1>4, <1>5 DEF OpenInv
<1>9. WaitInv'
  BY <1>1, <1>2, <1>3, <1>4, <1>5, WaitKept
<1>10. LeaseInv'
  BY <1>1, <1>2, <1>3, <1>4, <1>5, LeaseKept
<1>11. TaskInv'
  BY <1>1, <1>2, <1>3, <1>4, <1>5, TaskKept
<1>12. PiInv'
  BY <1>1, <1>2, <1>3, <1>4, <1>5 DEF PiInv, Keeping, Since
<1>13. ExitInv'
  BY <1>1, <1>2, <1>3, <1>4, <1>5 DEF ExitInv, Before
<1>14. HelloInv'
  BY <1>1, <1>2, <1>3, <1>4, <1>5 DEF HelloInv, Before
<1>15. OtherInv'
  BY <1>1, <1>2, <1>3, <1>4, <1>5, OtherKept DEF Greeted
<1> QED
  BY <1>6, <1>7, <1>8, <1>9, <1>10, <1>11, <1>12, <1>13, <1>14, <1>15 DEF TInv

(* The adapter reaches its broker, which is then the one of the session.   *)
LEMMA HelloKeeps ==
  ASSUME TInv, CallsAreDistinct,
         NEW s \in Launches, act[s].at \in {"ready", "handshake"}, broker[s].stage = "open",
         BrokerAfter(s, broker[s].stage, broker[s].lease, broker[s].frees, TRUE),
         UNCHANGED <<act, session, threadTask, taskLeases, pi, exits>>
  PROVE  TInv'
<1>1. /\ TypeOK /\ SessionInv /\ OpenInv /\ WaitInv /\ LeaseInv /\ TaskInv
      /\ PiInv /\ ExitInv /\ HelloInv /\ OtherInv
  BY DEF TInv
<1>2. /\ \A e \in Launches : e # s => broker'[e] = broker[e]
      /\ broker'[s].stage = broker[s].stage /\ broker'[s].lease = broker[s].lease
      /\ broker'[s].frees = broker[s].frees /\ broker'[s].hello = TRUE
  BY DEF BrokerAfter
<1>3. /\ act \in [Calls -> Acts] /\ broker \in [Launches -> Brokers]
      /\ exits \in [Launches -> Exits]
      /\ \A e \in Launches : e \in Calls
      /\ session.broker \in Launches \cup {NoBroker} /\ threadTask \in Launches \cup {NoBroker}
  BY <1>1 DEF TypeOK, Calls
<1>4. session.broker = s
  BY <1>1 DEF OpenInv
<1>5. TypeOK'
  BY <1>1 DEF TypeOK, BrokerAfter
<1>6. SessionInv'
  BY <1>1, <1>2, <1>3, <1>4 DEF SessionInv, Since
<1>7. OpenInv'
  BY <1>1, <1>2, <1>3, <1>4 DEF OpenInv
<1>8. WaitInv'
  BY <1>1, <1>2, <1>3, <1>4, WaitKept
<1>9. LeaseInv'
  BY <1>1, <1>2, <1>3, <1>4, LeaseKept
<1>10. TaskInv'
  BY <1>1, <1>2, <1>3, <1>4, TaskKept
<1>11. PiInv'
  BY <1>1, <1>2, <1>3, <1>4 DEF PiInv, Keeping, Since
<1>12. ExitInv'
  BY <1>1, <1>2, <1>3, <1>4 DEF ExitInv, Before
<1>13. HelloInv'
  BY <1>1, <1>2, <1>3, <1>4 DEF HelloInv, Before
<1>14. OtherInv'
  BY <1>1, <1>2, <1>3, <1>4, OtherKept DEF Greeted
<1> QED
  BY <1>5, <1>6, <1>7, <1>8, <1>9, <1>10, <1>11, <1>12, <1>13, <1>14 DEF TInv

(* The launch succeeds; its generation is noted if the session is its own. *)
LEMMA SettleKeeps ==
  ASSUME TInv, CallsAreDistinct,
         NEW s \in Launches, act[s].at = "settle", session.broker # NoBroker,
         session' = IF session.broker = s THEN [session EXCEPT !.generation = s] ELSE session,
         ActAfter(s, "started", NoBroker, FALSE),
         UNCHANGED <<threadTask, taskLeases, broker, pi, exits>>
  PROVE  TInv'
<1>1. /\ TypeOK /\ SessionInv /\ OpenInv /\ WaitInv /\ LeaseInv /\ TaskInv
      /\ PiInv /\ ExitInv /\ HelloInv /\ OtherInv
  BY DEF TInv
<1>2. /\ \A e \in Calls : e # s => act'[e] = act[e]
      /\ act'[s].at = "started" /\ act'[s].takes = NoBroker /\ act'[s].halts = FALSE
  BY DEF ActAfter
<1>3. /\ act \in [Calls -> Acts] /\ broker \in [Launches -> Brokers]
      /\ exits \in [Launches -> Exits]
      /\ \A e \in Launches : e \in Calls
      /\ session.broker \in Launches \cup {NoBroker} /\ threadTask \in Launches \cup {NoBroker}
  BY <1>1 DEF TypeOK, Calls
<1>4. /\ s \in Calls
      /\ session \in [broker : Launches \cup {NoBroker}, generation : Launches \cup {NoBroker}]
  BY <1>1 DEF TypeOK, Calls
<1>5. /\ session'.broker = session.broker
      /\ session'.generation = session.generation \/ session'.generation = session.broker
  BY <1>4
<1>6. TypeOK'
  BY <1>1, <1>4 DEF TypeOK, ActAfter
<1>7. SessionInv'
  BY <1>1, <1>2, <1>3, <1>4, <1>5 DEF SessionInv, Since
<1>8. OpenInv'
  BY <1>1, <1>2, <1>3, <1>4, <1>5 DEF OpenInv
<1>9. WaitInv'
  BY <1>1, <1>2, <1>3, <1>4, <1>5, WaitKept
<1>10. LeaseInv'
  BY <1>1, <1>2, <1>3, <1>4, <1>5, LeaseKept
<1>11. TaskInv'
  BY <1>1, <1>2, <1>3, <1>4, <1>5, TaskKept
<1>12. PiInv'
  BY <1>1, <1>2, <1>3, <1>4, <1>5 DEF PiInv, Keeping, Since
<1>13. ExitInv'
  BY <1>1, <1>2, <1>3, <1>4, <1>5 DEF ExitInv, Before
<1>14. HelloInv'
  BY <1>1, <1>2, <1>3, <1>4, <1>5 DEF HelloInv, Before
<1>15. OtherInv'
  BY <1>1, <1>2, <1>3, <1>4, <1>5, OtherKept DEF Greeted
<1> QED
  BY <1>6, <1>7, <1>8, <1>9, <1>10, <1>11, <1>12, <1>13, <1>14, <1>15 DEF TInv

(* Pi is stopped, whosever it is, unless it exits anyway.                  *)
LEMMA StopPiKeeps ==
  ASSUME TInv, CallsAreDistinct,
         NEW a \in Calls, NEW l, act[a].at = "stop pi", pi' = IF pi.at = "running" THEN NoPi ELSE pi,
         ActAfter(a, l, NoBroker, FALSE), l \in {"failed", "over"},
         UNCHANGED <<session, threadTask, taskLeases, broker, exits>>
  PROVE  TInv'
<1>1. /\ TypeOK /\ SessionInv /\ OpenInv /\ WaitInv /\ LeaseInv /\ TaskInv
      /\ PiInv /\ ExitInv /\ HelloInv /\ OtherInv
  BY DEF TInv
<1>2. /\ \A e \in Calls : e # a => act'[e] = act[e]
      /\ act'[a].at = l /\ act'[a].takes = NoBroker /\ act'[a].halts = FALSE
  BY DEF ActAfter
<1>3. /\ act \in [Calls -> Acts] /\ broker \in [Launches -> Brokers]
      /\ exits \in [Launches -> Exits]
      /\ \A e \in Launches : e \in Calls
      /\ session.broker \in Launches \cup {NoBroker} /\ threadTask \in Launches \cup {NoBroker}
  BY <1>1 DEF TypeOK, Calls
<1>4. /\ pi \in [at : {"free", "running", "exiting"}, of : Launches \cup {NoBroker}]
      /\ pi' \in [at : {"free", "running", "exiting"}, of : Launches \cup {NoBroker}]
  BY <1>1 DEF TypeOK, NoPi
<1>5. pi'.at # "running"
  BY <1>4 DEF NoPi
<1>6. TypeOK'
  BY <1>1, <1>4 DEF TypeOK, ActAfter
<1>7. SessionInv'
  BY <1>1, <1>2, <1>3, <1>4, <1>5 DEF SessionInv, Since
<1>8. OpenInv'
  BY <1>1, <1>2, <1>3, <1>4, <1>5 DEF OpenInv
<1>9. WaitInv'
  BY <1>1, <1>2, <1>3, <1>4, <1>5, WaitKept
<1>10. LeaseInv'
  BY <1>1, <1>2, <1>3, <1>4, <1>5, LeaseKept
<1>11. TaskInv'
  BY <1>1, <1>2, <1>3, <1>4, <1>5, TaskKept
<1>12. PiInv'
  BY <1>1, <1>2, <1>3, <1>4, <1>5 DEF PiInv, Keeping, Since
<1>13. ExitInv'
  BY <1>1, <1>2, <1>3, <1>4, <1>5 DEF ExitInv, Before
<1>14. HelloInv'
  BY <1>1, <1>2, <1>3, <1>4, <1>5 DEF HelloInv, Before
<1>15. OtherInv'
  BY <1>1, <1>2, <1>3, <1>4, <1>5, OtherKept DEF Greeted
<1> QED
  BY <1>6, <1>7, <1>8, <1>9, <1>10, <1>11, <1>12, <1>13, <1>14, <1>15 DEF TInv

(* The session is taken, to be closed by a call that waits for it.         *)
LEMMA TakeKeeps ==
  ASSUME TInv, CallsAreDistinct,
         NEW a \in Calls, act[a].at = "close", session.broker # NoBroker, session' = NoSession,
         ActAfter(a, "closing", session.broker, act[a].halts),
         broker' = [broker EXCEPT ![session.broker].stage = "taken"],
         UNCHANGED <<threadTask, taskLeases, pi, exits>>
  PROVE  TInv'
<1>1. /\ TypeOK /\ SessionInv /\ OpenInv /\ WaitInv /\ LeaseInv /\ TaskInv
      /\ PiInv /\ ExitInv /\ HelloInv /\ OtherInv
  BY DEF TInv
<1>2. /\ \A e \in Calls : e # a => act'[e] = act[e]
      /\ act'[a].at = "closing" /\ act'[a].takes = session.broker /\ act'[a].halts = act[a].halts
  BY DEF ActAfter
<1>3. /\ act \in [Calls -> Acts] /\ broker \in [Launches -> Brokers]
      /\ exits \in [Launches -> Exits]
      /\ \A e \in Launches : e \in Calls
      /\ session.broker \in Launches \cup {NoBroker} /\ threadTask \in Launches \cup {NoBroker}
  BY <1>1 DEF TypeOK, Calls
<1>4. PICK m \in Launches : m = session.broker
  BY <1>3
<1>5. broker' = [broker EXCEPT ![m].stage = "taken"]
  BY <1>4
<1>6. BrokerAfter(m, "taken", broker[m].lease, broker[m].frees, broker[m].hello)
  BY <1>1, <1>5, BrokerMoves DEF Names
<1>7. /\ \A e \in Launches : e # m => broker'[e] = broker[e]
      /\ broker'[m].stage = "taken" /\ broker'[m].lease = broker[m].lease
      /\ broker'[m].frees = broker[m].frees /\ broker'[m].hello = broker[m].hello
  BY <1>6 DEF BrokerAfter
<1>8. session'.broker = NoBroker /\ session'.generation = NoBroker
  BY DEF NoSession
<1>9. broker[m].stage = "open" /\ act[m].at # "register"
  BY <1>1, <1>4 DEF SessionInv, Since
<1>10. TypeOK'
  BY <1>1, <1>6 DEF TypeOK, ActAfter, BrokerAfter, NoSession
<1>11. SessionInv'
  BY <1>1, <1>2, <1>3, <1>4, <1>5, <1>6, <1>7, <1>8, <1>9 DEF SessionInv, Since
<1>12. OpenInv'
  BY <1>1, <1>2, <1>3, <1>4, <1>5, <1>6, <1>7, <1>8, <1>9 DEF OpenInv
<1>13. WaitInv'
  BY <1>1, <1>2, <1>3, <1>4, <1>5, <1>6, <1>7, <1>8, <1>9, WaitKept
<1>14. LeaseInv'
  BY <1>1, <1>2, <1>3, <1>4, <1>5, <1>6, <1>7, <1>8, <1>9, LeaseKept
<1>15. TaskInv'
  BY <1>1, <1>2, <1>3, <1>4, <1>5, <1>6, <1>7, <1>8, <1>9, TaskKept
<1>16. PiInv'
  BY <1>1, <1>2, <1>3, <1>4, <1>5, <1>6, <1>7, <1>8, <1>9 DEF PiInv, Keeping, Since
<1>17. ExitInv'
  BY <1>1, <1>2, <1>3, <1>4, <1>5, <1>6, <1>7, <1>8, <1>9 DEF ExitInv, Before
<1>18. HelloInv'
  <2>1. \A e \in Launches : /\ broker'[e].hello = broker[e].hello
                            /\ broker'[e].stage = "open" => broker[e].stage = "open"
    BY <1>3, <1>7
  <2>2. \A e \in Launches : act'[e].at \in {"settle", "started"} \cup Before => act[e].at = act'[e].at
    BY <1>2, <1>3 DEF Before
  <2> QED
    BY <1>1, <2>1, <2>2 DEF HelloInv
<1>19. OtherInv'
  BY <1>1, <1>2, <1>3, <1>4, <1>5, <1>6, <1>7, <1>8, <1>9, OtherKept DEF Greeted
<1> QED
  BY <1>10, <1>11, <1>12, <1>13, <1>14, <1>15, <1>16, <1>17, <1>18, <1>19 DEF TInv

(* A Pi that exits by itself was launched, and is not stopped any more.    *)
LEMMA ExitBegins ==
  ASSUME TInv, CallsAreDistinct,
         NEW p \in Launches, PiEnds(p)
  PROVE  TInv'
<1>1. /\ TypeOK /\ SessionInv /\ OpenInv /\ WaitInv /\ LeaseInv /\ TaskInv
      /\ PiInv /\ ExitInv /\ HelloInv /\ OtherInv
  BY DEF TInv
<1>2. /\ pi = [at |-> "running", of |-> p] /\ pi' = [pi EXCEPT !.at = "exiting"]
      /\ exits' = [exits EXCEPT ![p].at = "emitted"]
      /\ UNCHANGED <<act, session, threadTask, taskLeases, broker>>
  BY DEF PiEnds
<1>3. /\ act \in [Calls -> Acts] /\ broker \in [Launches -> Brokers]
      /\ exits \in [Launches -> Exits]
      /\ \A e \in Launches : e \in Calls
      /\ session.broker \in Launches \cup {NoBroker} /\ threadTask \in Launches \cup {NoBroker}
  BY <1>1 DEF TypeOK, Calls
<1>4. /\ exits' \in [Launches -> Exits]
      /\ \A e \in Launches : e # p => exits'[e] = exits[e]
      /\ exits'[p].at = "emitted" /\ exits'[p].takes = exits[p].takes
  BY <1>1, <1>2 DEF TypeOK, Exits
<1>5. /\ pi' \in [at : {"free", "running", "exiting"}, of : Launches \cup {NoBroker}]
      /\ pi'.at # "running"
  BY <1>2
<1>6. act[p].at \notin Before /\ exits[p].at = "none"
  BY <1>1, <1>2 DEF PiInv, Keeping, Since, Before
<1>7. TypeOK'
  BY <1>1, <1>2, <1>4, <1>5 DEF TypeOK
<1>8. SessionInv'
  BY <1>1, <1>2, <1>3, <1>4, <1>5, <1>6 DEF SessionInv, Since
<1>9. OpenInv'
  BY <1>1, <1>2, <1>3, <1>4, <1>5, <1>6 DEF OpenInv
<1>10. WaitInv'
  BY <1>1, <1>2, <1>3, <1>4, <1>5, <1>6, WaitKept
<1>11. LeaseInv'
  BY <1>1, <1>2, <1>3, <1>4, <1>5, <1>6, LeaseKept
<1>12. TaskInv'
  BY <1>1, <1>2, <1>3, <1>4, <1>5, <1>6, TaskKept
<1>13. PiInv'
  BY <1>1, <1>2, <1>3, <1>4, <1>5, <1>6 DEF PiInv, Keeping, Since
<1>14. ExitInv'
  BY <1>1, <1>2, <1>3, <1>4, <1>5, <1>6 DEF ExitInv, Before
<1>15. HelloInv'
  BY <1>1, <1>2, <1>3, <1>4, <1>5, <1>6 DEF HelloInv, Before
<1>16. OtherInv'
  BY <1>1, <1>2, <1>3, <1>4, <1>5, <1>6, OtherKept DEF Greeted
<1> QED
  BY <1>7, <1>8, <1>9, <1>10, <1>11, <1>12, <1>13, <1>14, <1>15, <1>16 DEF TInv

(* The runtime_exit takes the session, and waits for it to be closed.      *)
LEMMA ExitTakes ==
  ASSUME TInv, CallsAreDistinct,
         NEW p \in Launches, exits[p].at = "emitted", session.broker # NoBroker, session' = NoSession,
         broker' = [broker EXCEPT ![session.broker].stage = "taken"],
         exits' = [exits EXCEPT ![p] = [at |-> "closing", takes |-> session.broker]],
         UNCHANGED <<act, threadTask, taskLeases, pi>>
  PROVE  TInv'
<1>1. /\ TypeOK /\ SessionInv /\ OpenInv /\ WaitInv /\ LeaseInv /\ TaskInv
      /\ PiInv /\ ExitInv /\ HelloInv /\ OtherInv
  BY DEF TInv
<1>2. /\ act \in [Calls -> Acts] /\ broker \in [Launches -> Brokers]
      /\ exits \in [Launches -> Exits]
      /\ \A e \in Launches : e \in Calls
      /\ session.broker \in Launches \cup {NoBroker} /\ threadTask \in Launches \cup {NoBroker}
  BY <1>1 DEF TypeOK, Calls
<1>3. PICK m \in Launches : m = session.broker
  BY <1>2
<1>4. broker' = [broker EXCEPT ![m].stage = "taken"]
  BY <1>3
<1>5. BrokerAfter(m, "taken", broker[m].lease, broker[m].frees, broker[m].hello)
  BY <1>1, <1>4, BrokerMoves DEF Names
<1>6. /\ \A e \in Launches : e # m => broker'[e] = broker[e]
      /\ broker'[m].stage = "taken" /\ broker'[m].lease = broker[m].lease
      /\ broker'[m].frees = broker[m].frees /\ broker'[m].hello = broker[m].hello
  BY <1>5 DEF BrokerAfter
<1>7. session'.broker = NoBroker /\ session'.generation = NoBroker
  BY DEF NoSession
<1>8. broker[m].stage = "open" /\ act[m].at # "register"
  BY <1>1, <1>3 DEF SessionInv, Since
<1>9. /\ exits' \in [Launches -> Exits]
      /\ \A e \in Launches : e # p => exits'[e] = exits[e]
      /\ exits'[p].at = "closing" /\ exits'[p].takes = m
  BY <1>2, <1>3 DEF Exits
<1>10. TypeOK'
  BY <1>1, <1>5, <1>9 DEF TypeOK, BrokerAfter, NoSession
<1>11. SessionInv'
  BY <1>1, <1>2, <1>3, <1>4, <1>5, <1>6, <1>7, <1>8, <1>9 DEF SessionInv, Since
<1>12. OpenInv'
  BY <1>1, <1>2, <1>3, <1>4, <1>5, <1>6, <1>7, <1>8, <1>9 DEF OpenInv
<1>13. WaitInv'
  BY <1>1, <1>2, <1>3, <1>4, <1>5, <1>6, <1>7, <1>8, <1>9, WaitKept
<1>14. LeaseInv'
  BY <1>1, <1>2, <1>3, <1>4, <1>5, <1>6, <1>7, <1>8, <1>9, LeaseKept
<1>15. TaskInv'
  BY <1>1, <1>2, <1>3, <1>4, <1>5, <1>6, <1>7, <1>8, <1>9, TaskKept
<1>16. PiInv'
  BY <1>1, <1>2, <1>3, <1>4, <1>5, <1>6, <1>7, <1>8, <1>9 DEF PiInv, Keeping, Since
<1>17. ExitInv'
  BY <1>1, <1>2, <1>3, <1>4, <1>5, <1>6, <1>7, <1>8, <1>9 DEF ExitInv, Before
<1>18. HelloInv'
  <2>1. \A e \in Launches : /\ broker'[e].hello = broker[e].hello
                            /\ broker'[e].stage = "open" => broker[e].stage = "open"
    BY <1>2, <1>6
  <2>2. \A e \in Launches : act'[e].at \in {"settle", "started"} \cup Before => act[e].at = act'[e].at
    BY <1>1 DEF Before
  <2> QED
    BY <1>1, <2>1, <2>2 DEF HelloInv
<1>19. OtherInv'
  BY <1>1, <1>2, <1>3, <1>4, <1>5, <1>6, <1>7, <1>8, <1>9, OtherKept DEF Greeted
<1> QED
  BY <1>10, <1>11, <1>12, <1>13, <1>14, <1>15, <1>16, <1>17, <1>18, <1>19 DEF TInv

(* A runtime_exit that closed the session, or found no session of its Pi,  *)
(* is handled, and the thread is free again.                               *)
LEMMA ExitEnds ==
  ASSUME TInv, CallsAreDistinct,
         NEW p \in Launches, pi' = NoPi,
         \/ /\ exits[p].at = "emitted" /\ ~Closable(p) /\ exits' = [exits EXCEPT ![p].at = "handled"]
         \/ /\ exits[p].at = "closing" /\ broker[exits[p].takes].stage = "stopped"
            /\ exits' = [exits EXCEPT ![p] = [at |-> "handled", takes |-> NoBroker]],
         UNCHANGED <<act, session, threadTask, taskLeases, broker>>
  PROVE  TInv'
<1>1. /\ TypeOK /\ SessionInv /\ OpenInv /\ WaitInv /\ LeaseInv /\ TaskInv
      /\ PiInv /\ ExitInv /\ HelloInv /\ OtherInv
  BY DEF TInv
<1>2. /\ act \in [Calls -> Acts] /\ broker \in [Launches -> Brokers]
      /\ exits \in [Launches -> Exits]
      /\ \A e \in Launches : e \in Calls
      /\ session.broker \in Launches \cup {NoBroker} /\ threadTask \in Launches \cup {NoBroker}
  BY <1>1 DEF TypeOK, Calls
<1>3. /\ exits' \in [Launches -> Exits] /\ exits'[p].at = "handled"
      /\ \A e \in Launches : e # p => exits'[e] = exits[e]
  BY <1>2 DEF Exits
<1>4. session.broker # p
  BY <1>1 DEF SessionInv, Closable
<1>5. /\ pi' \in [at : {"free", "running", "exiting"}, of : Launches \cup {NoBroker}]
      /\ pi'.at # "running"
  BY DEF NoPi
<1>6. TypeOK'
  BY <1>1, <1>3, <1>5 DEF TypeOK
<1>7. SessionInv'
  BY <1>1, <1>2, <1>3, <1>4, <1>5 DEF SessionInv, Since
<1>8. OpenInv'
  BY <1>1, <1>2, <1>3, <1>4, <1>5 DEF OpenInv
<1>9. WaitInv'
  BY <1>1, <1>2, <1>3, <1>4, <1>5, WaitKept
<1>10. LeaseInv'
  BY <1>1, <1>2, <1>3, <1>4, <1>5, LeaseKept
<1>11. TaskInv'
  BY <1>1, <1>2, <1>3, <1>4, <1>5, TaskKept
<1>12. PiInv'
  BY <1>1, <1>2, <1>3, <1>4, <1>5 DEF PiInv, Keeping, Since
<1>13. ExitInv'
  BY <1>1, <1>2, <1>3, <1>4, <1>5 DEF ExitInv, Before
<1>14. HelloInv'
  BY <1>1, <1>2, <1>3, <1>4, <1>5 DEF HelloInv, Before
<1>15. OtherInv'
  BY <1>1, <1>2, <1>3, <1>4, <1>5, OtherKept DEF Greeted
<1> QED
  BY <1>6, <1>7, <1>8, <1>9, <1>10, <1>11, <1>12, <1>13, <1>14, <1>15 DEF TInv

(* Close of a broker whose session was taken.                              *)
LEMMA CloseKeeps ==
  ASSUME TInv, CallsAreDistinct,
         NEW b \in Launches, broker[b].stage = "taken",
         BrokerAfter(b, "closed", broker[b].lease, broker[b].frees, broker[b].hello),
         UNCHANGED <<act, session, threadTask, taskLeases, pi, exits>>
  PROVE  TInv'
<1>1. /\ TypeOK /\ SessionInv /\ OpenInv /\ WaitInv /\ LeaseInv /\ TaskInv
      /\ PiInv /\ ExitInv /\ HelloInv /\ OtherInv
  BY DEF TInv
<1>2. /\ \A e \in Launches : e # b => broker'[e] = broker[e]
      /\ broker'[b].stage = "closed" /\ broker'[b].lease = broker[b].lease
      /\ broker'[b].frees = broker[b].frees /\ broker'[b].hello = broker[b].hello
  BY DEF BrokerAfter
<1>3. /\ act \in [Calls -> Acts] /\ broker \in [Launches -> Brokers]
      /\ exits \in [Launches -> Exits]
      /\ \A e \in Launches : e \in Calls
      /\ session.broker \in Launches \cup {NoBroker} /\ threadTask \in Launches \cup {NoBroker}
  BY <1>1 DEF TypeOK, Calls
<1>4. TypeOK'
  BY <1>1 DEF TypeOK, BrokerAfter
<1>5. SessionInv'
  BY <1>1, <1>2, <1>3 DEF SessionInv, Since
<1>6. OpenInv'
  BY <1>1, <1>2, <1>3 DEF OpenInv
<1>7. WaitInv'
  BY <1>1, <1>2, <1>3, WaitKept
<1>8. LeaseInv'
  BY <1>1, <1>2, <1>3, LeaseKept
<1>9. TaskInv'
  BY <1>1, <1>2, <1>3, TaskKept
<1>10. PiInv'
  BY <1>1, <1>2, <1>3 DEF PiInv, Keeping, Since
<1>11. ExitInv'
  BY <1>1, <1>2, <1>3 DEF ExitInv, Before
<1>12. HelloInv'
  BY <1>1, <1>2, <1>3 DEF HelloInv, Before
<1>13. OtherInv'
  BY <1>1, <1>2, <1>3, OtherKept DEF Greeted
<1> QED
  BY <1>4, <1>5, <1>6, <1>7, <1>8, <1>9, <1>10, <1>11, <1>12, <1>13 DEF TInv

(* StopTask takes whatever task the thread has.                            *)
LEMMA StopTaskKeeps ==
  ASSUME TInv, CallsAreDistinct,
         NEW b \in Launches, broker[b].stage = "closed", threadTask' = NoBroker,
         BrokerAfter(b, "unlisted", broker[b].lease, threadTask, broker[b].hello),
         UNCHANGED <<act, session, taskLeases, pi, exits>>
  PROVE  TInv'
<1>1. /\ TypeOK /\ SessionInv /\ OpenInv /\ WaitInv /\ LeaseInv /\ TaskInv
      /\ PiInv /\ ExitInv /\ HelloInv /\ OtherInv
  BY DEF TInv
<1>2. /\ \A e \in Launches : e # b => broker'[e] = broker[e]
      /\ broker'[b].stage = "unlisted" /\ broker'[b].lease = broker[b].lease
      /\ broker'[b].frees = threadTask /\ broker'[b].hello = broker[b].hello
  BY DEF BrokerAfter
<1>3. /\ act \in [Calls -> Acts] /\ broker \in [Launches -> Brokers]
      /\ exits \in [Launches -> Exits]
      /\ \A e \in Launches : e \in Calls
      /\ session.broker \in Launches \cup {NoBroker} /\ threadTask \in Launches \cup {NoBroker}
  BY <1>1 DEF TypeOK, Calls
<1>4. TypeOK'
  BY <1>1 DEF TypeOK, BrokerAfter
<1>5. SessionInv'
  BY <1>1, <1>2, <1>3 DEF SessionInv, Since
<1>6. OpenInv'
  BY <1>1, <1>2, <1>3 DEF OpenInv
<1>7. WaitInv'
  BY <1>1, <1>2, <1>3, WaitKept
<1>8. LeaseInv'
  BY <1>1, <1>2, <1>3, LeaseKept
<1>9. TaskInv'
  BY <1>1, <1>2, <1>3, TaskKept
<1>10. PiInv'
  BY <1>1, <1>2, <1>3 DEF PiInv, Keeping, Since
<1>11. ExitInv'
  BY <1>1, <1>2, <1>3 DEF ExitInv, Before
<1>12. HelloInv'
  BY <1>1, <1>2, <1>3 DEF HelloInv, Before
<1>13. OtherInv'
  BY <1>1, <1>2, <1>3, OtherKept DEF Greeted
<1> QED
  BY <1>4, <1>5, <1>6, <1>7, <1>8, <1>9, <1>10, <1>11, <1>12, <1>13 DEF TInv

(* It ends, and whoever waits for the broker goes on.                      *)
LEMMA ReleaseKeeps ==
  ASSUME TInv, CallsAreDistinct,
         NEW b \in Launches, broker[b].stage = "unlisted", taskLeases' = Ending(broker[b].frees),
         BrokerAfter(b, "stopped", NoBroker, NoBroker, FALSE),
         UNCHANGED <<act, session, threadTask, pi, exits>>
  PROVE  TInv'
<1>1. /\ TypeOK /\ SessionInv /\ OpenInv /\ WaitInv /\ LeaseInv /\ TaskInv
      /\ PiInv /\ ExitInv /\ HelloInv /\ OtherInv
  BY DEF TInv
<1>2. /\ \A e \in Launches : e # b => broker'[e] = broker[e]
      /\ broker'[b].stage = "stopped" /\ broker'[b].lease = NoBroker
      /\ broker'[b].frees = NoBroker /\ broker'[b].hello = FALSE
  BY DEF BrokerAfter
<1>3. /\ act \in [Calls -> Acts] /\ broker \in [Launches -> Brokers]
      /\ exits \in [Launches -> Exits]
      /\ \A e \in Launches : e \in Calls
      /\ session.broker \in Launches \cup {NoBroker} /\ threadTask \in Launches \cup {NoBroker}
  BY <1>1 DEF TypeOK, Calls
<1>4. /\ taskLeases \in [Launches -> {"none", "live", "ended"}]
      /\ broker[b].frees \in Launches \cup {NoBroker}
  BY <1>1 DEF TypeOK, Brokers
<1>5. /\ taskLeases' \in [Launches -> {"none", "live", "ended"}]
      /\ \A l \in Launches : taskLeases'[l] = "live" => taskLeases[l] = "live" /\ l # broker[b].frees
  BY <1>4 DEF Ending
<1>6. TypeOK'
  BY <1>1, <1>5 DEF TypeOK, BrokerAfter
<1>7. SessionInv'
  BY <1>1, <1>2, <1>3, <1>4, <1>5 DEF SessionInv, Since
<1>8. OpenInv'
  BY <1>1, <1>2, <1>3, <1>4, <1>5 DEF OpenInv
<1>9. WaitInv'
  BY <1>1, <1>2, <1>3, <1>4, <1>5, WaitKept
<1>10. LeaseInv'
  <2>1. taskLeases'[broker[b].frees] # "live" \/ broker[b].frees = NoBroker
    BY <1>4, <1>5
  <2> QED
    BY <1>1, <1>2, <1>3, <1>4, <1>5, <2>1 DEF LeaseInv
<1>11. TaskInv'
  BY <1>1, <1>2, <1>3, <1>4, <1>5, TaskKept
<1>12. PiInv'
  BY <1>1, <1>2, <1>3, <1>4, <1>5 DEF PiInv, Keeping, Since
<1>13. ExitInv'
  BY <1>1, <1>2, <1>3, <1>4, <1>5 DEF ExitInv, Before
<1>14. HelloInv'
  BY <1>1, <1>2, <1>3, <1>4, <1>5 DEF HelloInv, Before
<1>15. OtherInv'
  BY <1>1, <1>2, <1>3, <1>4, <1>5, OtherKept DEF Greeted
<1> QED
  BY <1>6, <1>7, <1>8, <1>9, <1>10, <1>11, <1>12, <1>13, <1>14, <1>15 DEF TInv

(* Leases end with the connection, and are then no task of the thread.     *)
LEMMA LossKeeps ==
  ASSUME TInv, CallsAreDistinct,
         (\E l \in Launches : WatchTask(l)) \/ LoseConnection
  PROVE  TInv'
<1>1. /\ TypeOK /\ SessionInv /\ OpenInv /\ WaitInv /\ LeaseInv /\ TaskInv
      /\ PiInv /\ ExitInv /\ HelloInv /\ OtherInv
  BY DEF TInv
<1>2. /\ UNCHANGED <<act, session, broker, pi, exits>>
      /\ taskLeases' \in [Launches -> {"none", "live", "ended"}]
      /\ \A l \in Launches : taskLeases'[l] = "live" => taskLeases[l] = "live"
      /\ \/ threadTask' = threadTask
         \/ threadTask' = NoBroker /\ taskLeases'[threadTask] # "live"
  BY <1>1 DEF WatchTask, LoseConnection, TypeOK
<1>3. /\ act \in [Calls -> Acts] /\ broker \in [Launches -> Brokers]
      /\ exits \in [Launches -> Exits]
      /\ \A e \in Launches : e \in Calls
      /\ session.broker \in Launches \cup {NoBroker} /\ threadTask \in Launches \cup {NoBroker}
  BY <1>1 DEF TypeOK, Calls
<1>4. TypeOK'
  BY <1>1, <1>2, <1>3 DEF TypeOK
<1>5. SessionInv'
  BY <1>1, <1>2, <1>3 DEF SessionInv, Since
<1>6. OpenInv'
  BY <1>1, <1>2, <1>3 DEF OpenInv
<1>7. WaitInv'
  BY <1>1, <1>2, <1>3, WaitKept
<1>8. LeaseInv'
  BY <1>1, <1>2, <1>3, LeaseKept
<1>9. TaskInv'
  BY <1>1, <1>2, <1>3, TaskKept
<1>10. PiInv'
  BY <1>1, <1>2, <1>3 DEF PiInv, Keeping, Since
<1>11. ExitInv'
  BY <1>1, <1>2, <1>3 DEF ExitInv, Before
<1>12. HelloInv'
  BY <1>1, <1>2, <1>3 DEF HelloInv, Before
<1>13. OtherInv'
  BY <1>1, <1>2, <1>3, OtherKept DEF Greeted
<1> QED
  BY <1>4, <1>5, <1>6, <1>7, <1>8, <1>9, <1>10, <1>11, <1>12, <1>13 DEF TInv

-----------------------------------------------------------------------------
(* Theorems                                                                *)

(* The invariant holds initially.                                          *)
LEMMA InitInv == CallsAreDistinct /\ RemoteTaskInit => TInv
<1> SUFFICES ASSUME CallsAreDistinct, RemoteTaskInit PROVE TInv
  OBVIOUS
<1>1. Idle \in Acts /\ NoBrokerYet \in Brokers
  BY DEF Idle, Acts, Before, NoBrokerYet, Brokers
<1>2. TypeOK
  BY <1>1 DEF RemoteTaskInit, TypeOK, Calls, NoSession, NoPi, Exits
<1>3. /\ session.broker = NoBroker /\ session.generation = NoBroker /\ pi.at = "free"
      /\ threadTask = NoBroker
      /\ \A p \in Launches :
           /\ broker[p].stage = "none" /\ act[p].at = "idle" /\ taskLeases[p] = "none"
           /\ exits[p].at = "none" /\ ~broker[p].hello
  BY DEF RemoteTaskInit, NoSession, NoPi, NoBrokerYet, Idle
<1>4. SessionInv /\ OpenInv /\ WaitInv /\ LeaseInv /\ TaskInv
  BY <1>3 DEF SessionInv, OpenInv, WaitInv, LeaseInv, TaskInv
<1>5. PiInv /\ ExitInv /\ HelloInv /\ OtherInv
  BY <1>3 DEF PiInv, ExitInv, HelloInv, OtherInv
<1> QED
  BY <1>2, <1>4, <1>5 DEF TInv

(* Every action of a launch keeps the invariant.                           *)
LEMMA LaunchStep ==
  ASSUME TInv, CallsAreDistinct, NEW s \in Launches,
         \/ StartSession(s) \/ AcquireTask(s) \/ NewBroker(s) \/ GiveTaskUp(s) \/ ReleaseGivenUp(s)
         \/ RegisterSession(s) \/ LaunchPi(s) \/ PiIsReady(s) \/ AdapterHello(s) \/ AwaitHandshake(s)
         \/ SettleSession(s)
  PROVE  TInv'
<1>1. TypeOK /\ s \in Calls /\ s \in Names /\ NoBroker \in Names /\ threadTask \in Names
  BY DEF TInv, TypeOK, Calls, Names
<1>2. ASSUME NEW l \in Labels, Goes(s, l) PROVE ActAfter(s, l, act[s].takes, act[s].halts)
  BY <1>1, <1>2, ActMoves
<1>3. ASSUME NEW h \in BOOLEAN, Closes(s, h) PROVE ActAfter(s, "close", act[s].takes, h)
  BY <1>1, <1>3, ActMoves DEF Labels
<1>4. ASSUME NEW l \in Labels, Finishes(s, l) PROVE ActAfter(s, l, NoBroker, FALSE)
  BY <1>1, <1>4, ActMoves
<1>5. ASSUME NEW l \in Labels, NEW t \in Names, act' = [act EXCEPT ![s].at = l, ![s].takes = t]
      PROVE  ActAfter(s, l, t, act[s].halts)
  BY <1>1, <1>5, ActMoves
<1>6. /\ \A l \in {"acquire", "backend", "give up", "release", "register", "launch", "ready",
                   "handshake", "settle", "started", "failed", "closing"} : l \in Labels
  BY DEF Labels, Before, Since
<1>7. CASE StartSession(s)
  <2>1. ActAfter(s, "acquire", act[s].takes, act[s].halts)
    BY <1>1, <1>6, <1>7, ActMoves DEF StartSession
  <2> QED
    BY <1>7, <2>1, LaunchMoves DEF StartSession, Stands
<1>8. CASE AcquireTask(s)
  <2>1. CASE threadTask = NoBroker /\ threadTask' = s /\ Goes(s, "backend")
               /\ taskLeases' = [taskLeases EXCEPT ![s] = "live"]
    <3>1. ActAfter(s, "backend", act[s].takes, act[s].halts)
      BY <1>2, <1>6, <2>1
    <3> QED
      BY <1>8, <2>1, <3>1, AcquireKeeps DEF AcquireTask, Stands
  <2>2. CASE Finishes(s, "failed") /\ UNCHANGED <<threadTask, taskLeases>>
    <3>1. ActAfter(s, "failed", NoBroker, FALSE)
      BY <1>4, <1>6, <2>2
    <3> QED
      BY <1>8, <2>2, <3>1, LaunchMoves DEF AcquireTask, Stands
  <2> QED
    BY <1>8, <2>1, <2>2 DEF AcquireTask
<1>9. CASE NewBroker(s)
  <2>1. CASE Goes(s, "give up") /\ UNCHANGED broker
    <3>1. ActAfter(s, "give up", act[s].takes, act[s].halts)
      BY <1>2, <1>6, <2>1
    <3> QED
      BY <1>9, <2>1, <3>1, LaunchMoves DEF NewBroker, Stands
  <2>2. CASE threadTask # NoBroker /\ Goes(s, "register")
               /\ broker' = [broker EXCEPT ![s].stage = "open", ![s].lease = threadTask]
    <3>1. ActAfter(s, "register", act[s].takes, act[s].halts)
      BY <1>2, <1>6, <2>2
    <3>2. BrokerAfter(s, "open", threadTask, broker[s].frees, broker[s].hello)
      BY <1>1, <2>2, BrokerMoves
    <3> QED
      BY <1>9, <2>2, <3>1, <3>2, NewBrokerKeeps DEF NewBroker, Stands
  <2> QED
    BY <1>9, <2>1, <2>2 DEF NewBroker
<1>10. CASE GiveTaskUp(s)
  <2>1. ActAfter(s, "release", threadTask, act[s].halts)
    BY <1>1, <1>5, <1>6, <1>10 DEF GiveTaskUp
  <2> QED
    BY <1>10, <2>1, GiveUpKeeps DEF GiveTaskUp, Stands
<1>11. CASE ReleaseGivenUp(s)
  <2>1. ActAfter(s, "failed", NoBroker, FALSE)
    BY <1>4, <1>6, <1>11 DEF ReleaseGivenUp
  <2> QED
    BY <1>11, <2>1, GivenUpKeeps DEF ReleaseGivenUp, Stands
<1>12. CASE RegisterSession(s)
  <2>1. CASE session.broker = NoBroker
    <3>1. ActAfter(s, "launch", act[s].takes, act[s].halts)
      BY <1>2, <1>6, <1>12, <2>1 DEF RegisterSession
    <3> QED
      BY <1>12, <2>1, <3>1, RegisterKeeps DEF RegisterSession, Stands
  <2>2. CASE session.broker # NoBroker
    <3>1. ActAfter(s, "closing", s, act[s].halts)
      BY <1>1, <1>5, <1>6, <1>12, <2>2 DEF RegisterSession
    <3>2. BrokerAfter(s, "taken", broker[s].lease, broker[s].frees, broker[s].hello)
      BY <1>1, <1>12, <2>2, BrokerMoves DEF RegisterSession
    <3> QED
      BY <1>12, <2>2, <3>1, <3>2, RegisterFails DEF RegisterSession, Stands
  <2> QED
    BY <2>1, <2>2
<1>13. CASE LaunchPi(s)
  <2>1. CASE pi.at = "free" /\ pi' = [at |-> "running", of |-> s] /\ Goes(s, "ready")
    <3>1. ActAfter(s, "ready", act[s].takes, act[s].halts)
      BY <1>2, <1>6, <2>1
    <3> QED
      BY <1>13, <2>1, <3>1, LaunchKeeps DEF LaunchPi, Stands
  <2>2. CASE Closes(s, FALSE) /\ UNCHANGED pi
    <3>1. ActAfter(s, "close", act[s].takes, FALSE)
      BY <1>3, <2>2
    <3> QED
      BY <1>13, <2>2, <3>1, LaunchMoves DEF LaunchPi, Stands
  <2> QED
    BY <1>13, <2>1, <2>2 DEF LaunchPi
<1>14. CASE PiIsReady(s)
  <2>1. CASE Goes(s, "handshake") /\ UNCHANGED pi
    <3>1. ActAfter(s, "handshake", act[s].takes, act[s].halts)
      BY <1>2, <1>6, <2>1
    <3> QED
      BY <1>14, <2>1, <3>1, LaunchMoves DEF PiIsReady, Stands
  <2>2. CASE Closes(s, FALSE) /\ pi' = IF pi = [at |-> "running", of |-> s] THEN NoPi ELSE pi
    <3>1. ActAfter(s, "close", act[s].takes, FALSE)
      BY <1>3, <2>2
    <3> QED
      BY <1>14, <2>2, <3>1, UnreadyKeeps DEF PiIsReady, Stands
  <2> QED
    BY <1>14, <2>1, <2>2 DEF PiIsReady
<1>15. CASE AdapterHello(s)
  <2>1. BrokerAfter(s, broker[s].stage, broker[s].lease, broker[s].frees, TRUE)
    BY <1>1, <1>15, BrokerMoves DEF AdapterHello
  <2> QED
    BY <1>15, <2>1, HelloKeeps DEF AdapterHello, BrokerLives
<1>16. CASE AwaitHandshake(s)
  <2>1. CASE broker[s].hello /\ Goes(s, "settle")
    <3>1. ActAfter(s, "settle", act[s].takes, act[s].halts)
      BY <1>2, <1>6, <2>1
    <3> QED
      BY <1>16, <2>1, <3>1, LaunchMoves DEF AwaitHandshake, Stands
  <2>2. CASE Closes(s, TRUE)
    <3>1. ActAfter(s, "close", act[s].takes, TRUE)
      BY <1>3, <2>2
    <3> QED
      BY <1>16, <2>2, <3>1, LaunchMoves DEF AwaitHandshake, Stands
  <2> QED
    BY <1>16, <2>1, <2>2 DEF AwaitHandshake
<1>17. CASE SettleSession(s)
  <2>1. CASE session.broker = NoBroker
    <3>1. ActAfter(s, "close", act[s].takes, TRUE)
      BY <1>3, <1>17, <2>1 DEF SettleSession
    <3> QED
      BY <1>17, <2>1, <3>1, LaunchMoves DEF SettleSession, Stands
  <2>2. CASE session.broker # NoBroker
    <3>1. ActAfter(s, "started", NoBroker, FALSE)
      BY <1>4, <1>6, <1>17, <2>2 DEF SettleSession
    <3> QED
      BY <1>17, <2>2, <3>1, SettleKeeps DEF SettleSession, Stands
  <2> QED
    BY <2>1, <2>2
<1> QED
  BY <1>7, <1>8, <1>9, <1>10, <1>11, <1>12, <1>13, <1>14, <1>15, <1>16, <1>17

(* Every action of a call that ends the session, and of an exit, keeps it. *)
LEMMA EndStep ==
  ASSUME TInv, CallsAreDistinct, EndNext
  PROVE  TInv'
<1>1. TypeOK /\ NoBroker \in Names /\ session.broker \in Names
  BY DEF TInv, TypeOK, Names
<1>2. \A l \in {"close", "closing", "stop pi", "failed", "over"} : l \in Labels
  BY DEF Labels
<1>3. ASSUME NEW a \in Stoppers, NEW k \in {"stop", "maintain", "quit"}, Stop(a, k)
      PROVE  TInv'
  <2>1. a \in Calls /\ ActAfter(a, "close", NoBroker, TRUE)
    BY <1>1, <1>2, <1>3, ActMoves DEF Stop, Calls
  <2> QED
    BY <1>3, <2>1, EnderMoves DEF Stop, Stands
<1>4. ASSUME NEW a \in Calls, AfterClosing(a)
      PROVE  \/ act[a].halts /\ ActAfter(a, "stop pi", NoBroker, act[a].halts)
             \/ ~act[a].halts /\ ActAfter(a, "failed", NoBroker, FALSE)
  BY <1>1, <1>2, <1>4, ActMoves DEF AfterClosing
<1>5. ASSUME NEW a \in Calls, CloseSession(a)
      PROVE  TInv'
  <2>1. CASE session.broker # NoBroker
    <3>1. ActAfter(a, "closing", session.broker, act[a].halts)
      BY <1>1, <1>2, <1>5, <2>1, ActMoves DEF CloseSession, Closable
    <3> QED
      BY <1>5, <2>1, <3>1, TakeKeeps DEF CloseSession, Closable, SessionTaken, Stands
  <2>2. CASE session.broker = NoBroker
    <3>1. AfterClosing(a) /\ act[a].at = "close"
      BY <1>5, <2>2 DEF CloseSession, Closable, Stands
    <3> QED
      BY <1>4, <1>5, <2>2, <3>1, EnderMoves DEF CloseSession, Closable
  <2> QED
    BY <2>1, <2>2
<1>6. ASSUME NEW a \in Calls, SessionClosed(a)
      PROVE  TInv'
  BY <1>4, <1>6, EnderMoves DEF SessionClosed, Stands
<1>7. ASSUME NEW a \in Calls, StopPi(a)
      PROVE  TInv'
  <2>1. PICK l \in {"failed", "over"} :
          act' = [act EXCEPT ![a].at = l, ![a].takes = NoBroker, ![a].halts = FALSE]
    BY <1>7 DEF StopPi
  <2>2. ActAfter(a, l, NoBroker, FALSE)
    BY <1>1, <1>2, <2>1, ActMoves
  <2> QED
    BY <1>7, <2>2, StopPiKeeps DEF StopPi, Stands
<1>8. ASSUME NEW p \in Launches, CloseOfExit(p)
      PROVE  TInv'
  <2>1. CASE Closable(p)
    BY <1>8, <2>1, ExitTakes DEF CloseOfExit, Closable, SessionTaken
  <2>2. CASE ~Closable(p)
    BY <1>8, <2>2, ExitEnds DEF CloseOfExit
  <2> QED
    BY <2>1, <2>2
<1>9. ASSUME NEW p \in Launches, ExitHandled(p)
      PROVE  TInv'
  BY <1>9, ExitEnds DEF ExitHandled
<1> QED
  BY <1>3, <1>5, <1>6, <1>7, <1>8, <1>9, ExitBegins DEF EndNext, Calls

(* Every action of the brokers that end, and of the leases, keeps it.      *)
LEMMA TaskStep ==
  ASSUME TInv, CallsAreDistinct, TaskNext
  PROVE  TInv'
<1>1. TypeOK /\ NoBroker \in Names /\ threadTask \in Names
  BY DEF TInv, TypeOK, Names
<1>2. ASSUME NEW b \in Launches, CloseBroker(b)
      PROVE  TInv'
  <2>1. BrokerAfter(b, "closed", broker[b].lease, broker[b].frees, broker[b].hello)
    BY <1>1, <1>2, BrokerMoves DEF CloseBroker
  <2> QED
    BY <1>2, <2>1, CloseKeeps DEF CloseBroker
<1>3. ASSUME NEW b \in Launches, StopTask(b)
      PROVE  TInv'
  <2>1. BrokerAfter(b, "unlisted", broker[b].lease, threadTask, broker[b].hello)
    BY <1>1, <1>3, BrokerMoves DEF StopTask
  <2> QED
    BY <1>3, <2>1, StopTaskKeeps DEF StopTask
<1>4. ASSUME NEW b \in Launches, ReleaseTask(b)
      PROVE  TInv'
  <2>1. BrokerAfter(b, "stopped", NoBroker, NoBroker, FALSE)
    BY <1>1, <1>4, BrokerMoves DEF ReleaseTask
  <2> QED
    BY <1>4, <2>1, ReleaseKeeps DEF ReleaseTask
<1> QED
  BY <1>2, <1>3, <1>4, LossKeeps DEF TaskNext

(* The invariant is inductive.                                             *)
LEMMA StepInv == TInv /\ [RemoteTaskNext]_remoteTaskVars => TInv'
<1> SUFFICES ASSUME TInv, [RemoteTaskNext]_remoteTaskVars PROVE TInv'
  OBVIOUS
<1>1. CASE LaunchNext
  BY <1>1, CallsAreDistinct, LaunchStep DEF LaunchNext
<1>2. CASE EndNext
  BY <1>2, CallsAreDistinct, EndStep
<1>3. CASE TaskNext
  BY <1>3, CallsAreDistinct, TaskStep
<1>4. CASE UNCHANGED remoteTaskVars
  <2>1. TypeOK'
    BY <1>4 DEF remoteTaskVars, TInv, TypeOK
  <2>2. SessionInv' /\ OpenInv'
    BY <1>4 DEF remoteTaskVars, TInv, SessionInv, OpenInv
  <2>3. WaitInv'
    BY <1>4, WaitKept DEF remoteTaskVars, TInv
  <2>4. LeaseInv' /\ TaskInv'
    BY <1>4, LeaseKept, TaskKept DEF remoteTaskVars, TInv, TypeOK
  <2>5. PiInv' /\ ExitInv' /\ HelloInv' /\ OtherInv'
    BY <1>4 DEF remoteTaskVars, TInv, PiInv, Keeping, ExitInv, HelloInv, OtherInv, Greeted
  <2> QED
    BY <2>1, <2>2, <2>3, <2>4, <2>5 DEF TInv
<1> QED
  BY <1>1, <1>2, <1>3, <1>4 DEF RemoteTaskNext

(* The invariant holds in every state of every behaviour.                  *)
LEMMA InvHolds == RemoteTaskSpec => []TInv
<1>1. RemoteTaskInit => TInv
  BY InitInv, CallsAreDistinct
<1> QED
  BY <1>1, StepInv, PTL DEF RemoteTaskSpec

(* Type correctness of the calls, the session, its task, broker and Pi.    *)
THEOREM TaskTypes == RemoteTaskSpec => []TypeOK
<1>1. TInv => TypeOK
  BY DEF TInv
<1> QED
  BY <1>1, InvHolds, PTL

(* While no call runs, nobody waits for a broker: the open ones are the    *)
(* registered one, and so are lease and Pi.                                *)
LEMMA InvIsWhole == TInv => TaskIsWhole
<1> SUFFICES ASSUME TInv PROVE TaskIsWhole
  OBVIOUS
<1>1. /\ TypeOK /\ SessionInv /\ OpenInv /\ WaitInv /\ LeaseInv /\ TaskInv
      /\ PiInv /\ HelloInv /\ OtherInv
  BY DEF TInv
<1>2. /\ \A b \in Launches : b \in Calls
      /\ DOMAIN act = Calls
      /\ session.broker \in Launches \cup {NoBroker} /\ threadTask \in Launches \cup {NoBroker}
  BY <1>1 DEF TypeOK, Calls
<1>3. NoSessionOutlivesItsExit
  BY <1>1, <1>2 DEF NoSessionOutlivesItsExit, SessionInv
<1>4. ASSUME NoCallRuns
      PROVE  /\ \A a \in Calls : act[a].at \in {"idle", "started", "failed", "over"}
             /\ \A b \in Launches : broker[b].stage \notin {"taken", "closed", "unlisted"}
             /\ \A b \in Launches : broker[b].stage = "open" => session.broker = b
             /\ session.broker # NoBroker => act[session.broker].at = "started"
  <2>1. \A a \in Calls : act[a].at \in {"idle", "started", "failed", "over"}
    BY <1>2, <1>4 DEF NoCallRuns
  <2>2. \A b \in Launches : broker[b].stage \notin {"taken", "closed", "unlisted"}
    BY <1>1, <1>4, <2>1 DEF NoCallRuns, WaitInv
  <2>3. \A b \in Launches : broker[b].stage = "open" => session.broker = b
    BY <1>1, <1>2, <2>1 DEF OpenInv
  <2>4. session.broker # NoBroker => act[session.broker].at = "started"
    BY <1>1, <1>2, <2>1 DEF SessionInv, Since
  <2> QED
    BY <2>1, <2>2, <2>3, <2>4
<1>5. TasksHaveSessions
  <2> SUFFICES ASSUME NoCallRuns
               PROVE  /\ \A l \in Launches : taskLeases[l] = "live" =>
                           threadTask = l /\ session.broker # NoBroker
                             /\ broker[session.broker].lease = l
                      /\ \A b \in Launches : broker[b].stage = "open" => session.broker = b
    BY DEF TasksHaveSessions
  <2>1. ASSUME NEW l \in Launches, taskLeases[l] = "live"
        PROVE  threadTask = l /\ session.broker # NoBroker /\ broker[session.broker].lease = l
    <3>1. threadTask = l
      BY <1>1, <1>2, <1>4, <2>1 DEF LeaseInv
    <3>2. PICK b \in Launches : broker[b].stage = "open" /\ broker[b].lease = l
      BY <1>1, <1>2, <1>4, <2>1, <3>1, CallsAreDistinct DEF TaskInv
    <3> QED
      BY <1>4, <3>1, <3>2, CallsAreDistinct
  <2> QED
    BY <1>4, <2>1
<1>6. PromptsReachTheirPi
  <2> SUFFICES ASSUME NoCallRuns, PromptIsAdmitted, pi.at = "running"
               PROVE  pi.of = session.broker /\ broker[pi.of].hello
    BY DEF PromptsReachTheirPi
  <2>1. session.broker \in Launches /\ act[session.broker].at = "started"
          /\ broker[session.broker].stage = "open"
    BY <1>2, <1>4 DEF PromptIsAdmitted, BrokerLives
  <2>2. pi.of \in Launches /\ act[pi.of].at = "started"
    BY <1>1, <1>2, <1>4 DEF PiInv, Keeping, Since
  <2>3. pi.of = session.broker
    BY <1>1, <2>1, <2>2, CallsAreDistinct DEF OtherInv, Greeted
  <2> QED
    BY <1>1, <2>1, <2>3 DEF HelloInv
<1> QED
  BY <1>3, <1>5, <1>6 DEF TaskIsWhole

(* However launches, stops, exits of Pi and lost connections overlap: once *)
(* no call runs, a live lease is the task of the thread and its session is *)
(* registered with a broker on it, no other broker listens, no session     *)
(* outlives the exit of its Pi, and a prompt goes to the Pi of the broker  *)
(* that was asked (StartSession, closeRemoteSession, watchTask).     *)
THEOREM TaskSafety == RemoteTaskSpec => []TaskIsWhole
<1> QED
  BY InvIsWhole, InvHolds, PTL

-----------------------------------------------------------------------------
(* The broker                                                              *)

Peers == {"none", "pi", "child"}
Holding == {"accepted", "admitted"}
Working == {"reading", "deciding", "remote", "asking", "answering"}
DialStates == [at : {"none", "backlog", "gone"} \cup Holding \cup Working, peer : Peers,
               op : {"none", "hello", "bad hello", "query", "mutation"},
               open : BOOLEAN, tracked : BOOLEAN, told : BOOLEAN]

DialsTypeOK ==
  /\ stage \in {"open", "cancelled", "swept", "late", "closed"} /\ lease \in BOOLEAN
  /\ handshake \in [result : {"none", "good", "bad"}, peer : Peers]
  /\ launcher \in {"awaited", "launched", "gone"}
  /\ serve \in {"accepting", "holding", "ended"} /\ running \in Nat
  /\ dial \in [Dials -> DialStates]

Busy == {d \in Dials : dial[d].at \in Working}

(* wg counts the handlers and serve, and what serve holds is its own.      *)
Counted ==
  /\ IsFiniteSet(Busy)
  /\ running = Cardinality(Busy) + IF serve = "ended" THEN 0 ELSE 1
Held ==
  \A d \in Dials : dial[d].at \in Holding =>
    serve = "holding" /\ \A e \in Dials : dial[e].at \in Holding => e = d

(* The listener takes its backlog along, and after Wait nothing is left.   *)
Ended ==
  /\ \A d \in Dials : dial[d].at = "backlog" => stage = "open"
  /\ stage = "closed" => serve = "ended" /\ Busy = {}

(* Pi was launched after its own handshake, and is the only one served.    *)
Launched ==
  /\ launcher = "launched" => handshake.result = "good" /\ PeerMatches(handshake.peer)
  /\ \A d \in Dials : dial[d].at = "remote" => launcher = "launched" /\ PeerMatches(dial[d].peer)

(* An answer is given once, and one of a mutation in doubt ends the lease. *)
Answered ==
  \A d \in Dials :
    /\ dial[d].at # "gone" => dial[d].told
    /\ dial[d].op = "mutation" /\ ~dial[d].told => ~lease

BInv == DialsTypeOK /\ Counted /\ Held /\ Ended /\ Launched /\ Answered

-----------------------------------------------------------------------------
(* Types                                                                   *)
DialLabels == {"none", "backlog", "gone"} \cup Holding \cup Working
Operations == {"none", "hello", "bad hello", "query", "mutation"}

(* One connection is at l now, its operation is op, the others stay.       *)
After(d, l, p, op, told) ==
  /\ dial' \in [Dials -> DialStates]
  /\ \A e \in Dials : e # d => dial'[e] = dial[e]
  /\ dial'[d].at = l /\ dial'[d].peer = p /\ dial'[d].op = op /\ dial'[d].told = told

(* Where a connection is after it has moved.                               *)
LEMMA Moved ==
  ASSUME DialsTypeOK, NEW d \in Dials, NEW l \in DialLabels, NEW op \in Operations
  PROVE  /\ DialMoves(d, l) => After(d, l, dial[d].peer, dial[d].op, dial[d].told)
         /\ Handles(d, op, l) => After(d, l, dial[d].peer, op, dial[d].told)
<1>1. dial \in [Dials -> DialStates] /\ dial[d] \in DialStates
  BY DEF DialsTypeOK
<1>2. /\ [dial[d] EXCEPT !.at = l] \in DialStates
      /\ [dial[d] EXCEPT !.at = l, !.op = op] \in DialStates
  BY <1>1 DEF DialStates, DialLabels, Operations
<1>3. ASSUME DialMoves(d, l) PROVE After(d, l, dial[d].peer, dial[d].op, dial[d].told)
  <2>1. dial' = [dial EXCEPT ![d] = [dial[d] EXCEPT !.at = l]]
    BY <1>1, <1>3 DEF DialMoves, DialStates
  <2>2. dial'[d] = [dial[d] EXCEPT !.at = l] /\ \A e \in Dials : e # d => dial'[e] = dial[e]
    BY <1>1, <2>1
  <2>3. dial' \in [Dials -> DialStates]
    BY <1>1, <1>2, <2>1
  <2> QED
    BY <1>1, <2>2, <2>3 DEF After, DialStates
<1>4. ASSUME Handles(d, op, l) PROVE After(d, l, dial[d].peer, op, dial[d].told)
  <2>1. dial' = [dial EXCEPT ![d] = [dial[d] EXCEPT !.at = l, !.op = op]]
    BY <1>1, <1>4 DEF Handles, DialStates
  <2>2. /\ dial'[d] = [dial[d] EXCEPT !.at = l, !.op = op]
        /\ \A e \in Dials : e # d => dial'[e] = dial[e]
    BY <1>1, <2>1
  <2>3. dial' \in [Dials -> DialStates]
    BY <1>1, <1>2, <2>1
  <2> QED
    BY <1>1, <2>2, <2>3 DEF After, DialStates
<1> QED
  BY <1>3, <1>4

(* The connections that come, are entered in conns, and go.                *)
LEMMA Turned ==
  ASSUME DialsTypeOK, NEW d \in Dials
  PROVE  /\ \A p \in {"pi", "child"} :
              Dial(d, p) => After(d, "backlog", p, dial[d].op, dial[d].told)
         /\ Track(d) => After(d, "reading", dial[d].peer, dial[d].op, dial[d].told)
         /\ dial' = DialGone(d) => After(d, "gone", dial[d].peer, dial[d].op, dial[d].told)
         /\ \A told \in BOOLEAN : dial' = [DialGone(d) EXCEPT ![d].told = told]
              => After(d, "gone", dial[d].peer, dial[d].op, told)
<1>1. dial \in [Dials -> DialStates] /\ dial[d] \in DialStates
  BY DEF DialsTypeOK
<1>2. ASSUME NEW r \in DialStates, dial' = [dial EXCEPT ![d] = r]
      PROVE  /\ dial'[d] = r /\ dial' \in [Dials -> DialStates]
             /\ \A e \in Dials : e # d => dial'[e] = dial[e]
  BY <1>1, <1>2
<1>3. ASSUME NEW p \in {"pi", "child"}, Dial(d, p)
      PROVE  After(d, "backlog", p, dial[d].op, dial[d].told)
  <2>1. dial' = [dial EXCEPT ![d] = [dial[d] EXCEPT !.at = "backlog", !.peer = p]]
    BY <1>1, <1>3 DEF Dial, DialStates
  <2>2. [dial[d] EXCEPT !.at = "backlog", !.peer = p] \in DialStates
    BY <1>1 DEF DialStates, Peers
  <2> QED
    BY <1>1, <1>2, <2>1, <2>2 DEF After, DialStates
<1>4. ASSUME Track(d) PROVE After(d, "reading", dial[d].peer, dial[d].op, dial[d].told)
  <2>1. dial' = [dial EXCEPT ![d] = [dial[d] EXCEPT !.at = "reading", !.tracked = TRUE]]
    BY <1>1, <1>4 DEF Track, DialStates
  <2>2. [dial[d] EXCEPT !.at = "reading", !.tracked = TRUE] \in DialStates
    BY <1>1 DEF DialStates, Working
  <2> QED
    BY <1>1, <1>2, <2>1, <2>2 DEF After, DialStates
<1>5. DEFINE r == [dial[d] EXCEPT !.at = "gone", !.open = FALSE, !.tracked = FALSE]
<1>6. r \in DialStates /\ DialGone(d) = [dial EXCEPT ![d] = r]
  BY <1>1 DEF DialStates, DialGone
<1>7. ASSUME dial' = DialGone(d)
      PROVE  After(d, "gone", dial[d].peer, dial[d].op, dial[d].told)
  <2>1. dial' = [dial EXCEPT ![d] = r]
    BY <1>6, <1>7
  <2>2. /\ dial'[d] = r /\ dial' \in [Dials -> DialStates]
        /\ \A e \in Dials : e # d => dial'[e] = dial[e]
    BY <1>2, <1>6, <2>1
  <2>3. r.at = "gone" /\ r.peer = dial[d].peer /\ r.op = dial[d].op /\ r.told = dial[d].told
    BY <1>1 DEF DialStates
  <2> HIDE DEF r
  <2> QED
    BY <2>2, <2>3 DEF After
<1>8. ASSUME NEW told \in BOOLEAN, dial' = [DialGone(d) EXCEPT ![d].told = told]
      PROVE  After(d, "gone", dial[d].peer, dial[d].op, told)
  <2>1. [r EXCEPT !.told = told] \in DialStates
    BY <1>6 DEF DialStates
  <2>2. dial' = [dial EXCEPT ![d] = [r EXCEPT !.told = told]]
    <3> HIDE DEF r
    <3> QED
      BY <1>1, <1>6, <1>8 DEF DialStates
  <2> QED
    BY <1>1, <1>2, <2>1, <2>2 DEF After, DialStates
<1> QED
  BY <1>3, <1>4, <1>7, <1>8

-----------------------------------------------------------------------------
(* The actions of serve and of the handlers                                *)

(* A handler goes on, and only its Pi gets to the remote host.             *)
DialGoes(d) ==
  \E l \in Working, op \in Operations :
    /\ After(d, l, dial[d].peer, op, dial[d].told) /\ dial[d].at \in Working
    /\ l = "remote" => Allowed(d)
    /\ UNCHANGED <<stage, lease, launcher, serve, running>>
    /\ handshake.result # "none" => UNCHANGED handshake
    /\ handshake' \in [result : {"none", "good", "bad"}, peer : Peers]

(* What a handler does between its start and its answer.                   *)
LEMMA HandlerGoes ==
  ASSUME DialsTypeOK, NEW d \in Dials,
         \/ InvalidRequest(d)
         \/ \E op \in {"hello", "bad hello", "query", "mutation"} : ReadRequest(d, op)
         \/ Execute(d) \/ Executed(d) \/ Hello(d) \/ HelloEnds(d)
  PROVE  DialGoes(d)
<1>1. dial[d].op \in Operations /\ dial[d].peer \in Peers
      /\ handshake \in [result : {"none", "good", "bad"}, peer : Peers]
  BY DEF DialsTypeOK, DialStates, Operations
<1>2. ASSUME NEW l \in Working, DialMoves(d, l)
      PROVE  After(d, l, dial[d].peer, dial[d].op, dial[d].told)
  BY <1>1, <1>2, Moved DEF DialLabels
<1>3. ASSUME NEW result \in {"good", "bad"}, NEW q \in Peers, CompleteHandshake(result, q)
      PROVE  /\ handshake.result # "none" => UNCHANGED handshake
             /\ handshake' \in [result : {"none", "good", "bad"}, peer : Peers]
  BY <1>1, <1>3 DEF CompleteHandshake
<1>4. CASE InvalidRequest(d)
  <2>1. After(d, "answering", dial[d].peer, "none", dial[d].told)
    BY <1>4, Moved DEF InvalidRequest, DialLabels, Working, Operations
  <2> QED
    BY <1>1, <1>4, <2>1 DEF InvalidRequest, DialGoes, Working, Operations
<1>5. CASE \E op \in {"hello", "bad hello", "query", "mutation"} : ReadRequest(d, op)
  <2>1. PICK op \in {"hello", "bad hello", "query", "mutation"} : ReadRequest(d, op)
    BY <1>5
  <2>2. After(d, "deciding", dial[d].peer, op, dial[d].told)
    BY <2>1, Moved DEF ReadRequest, DialLabels, Working, Operations
  <2> QED
    BY <1>1, <2>1, <2>2 DEF ReadRequest, DialGoes, Working, Operations
<1>6. CASE Execute(d)
  <2>1. PICK l \in {"remote", "answering"} : DialMoves(d, l) /\ (l = "remote" => Allowed(d))
    BY <1>6 DEF Execute
  <2>2. After(d, l, dial[d].peer, dial[d].op, dial[d].told)
    BY <1>2, <2>1 DEF Working
  <2> QED
    BY <1>1, <1>6, <2>1, <2>2 DEF Execute, DialGoes, Working
<1>7. CASE Executed(d)
  <2>1. After(d, "answering", dial[d].peer, dial[d].op, dial[d].told)
    BY <1>2, <1>7 DEF Executed, Working
  <2> QED
    BY <1>1, <1>7, <2>1 DEF Executed, DialGoes, Working
<1>8. CASE Hello(d)
  <2>1. PICK l \in {"asking", "answering"} :
          DialMoves(d, l) /\ (CompleteHandshake("bad", "none") \/ UNCHANGED handshake)
    BY <1>8 DEF Hello
  <2>2. After(d, l, dial[d].peer, dial[d].op, dial[d].told)
    BY <1>2, <2>1 DEF Working
  <2>3. /\ handshake.result # "none" => UNCHANGED handshake
        /\ handshake' \in [result : {"none", "good", "bad"}, peer : Peers]
    BY <1>1, <1>3, <2>1 DEF Peers
  <2> QED
    BY <1>1, <1>8, <2>2, <2>3 DEF Hello, DialGoes, Working
<1>9. CASE HelloEnds(d)
  <2>1. After(d, "answering", dial[d].peer, dial[d].op, dial[d].told)
    BY <1>2, <1>9 DEF HelloEnds, Working
  <2>2. /\ handshake.result # "none" => UNCHANGED handshake
        /\ handshake' \in [result : {"none", "good", "bad"}, peer : Peers]
    BY <1>1, <1>3, <1>9 DEF HelloEnds, Peers
  <2> QED
    BY <1>1, <1>9, <2>1, <2>2 DEF HelloEnds, DialGoes, Working
<1> QED
  BY <1>4, <1>5, <1>6, <1>7, <1>8, <1>9

(* How the handlers at work change with one of the connections.            *)
LEMMA BusyMoves ==
  ASSUME NEW d \in Dials, NEW l, NEW p, NEW op, NEW told, After(d, l, p, op, told)
  PROVE  /\ (dial[d].at \in Working <=> l \in Working) => Busy' = Busy
         /\ dial[d].at \notin Working /\ l \in Working => Busy' = Busy \cup {d} /\ d \notin Busy
         /\ dial[d].at \in Working /\ l \notin Working => Busy' = Busy \ {d} /\ d \in Busy
<1>1. \A e \in Dials : e # d => (dial'[e].at \in Working <=> dial[e].at \in Working)
  BY DEF After
<1>2. dial'[d].at = l
  BY DEF After
<1> QED
  BY <1>1, <1>2 DEF Busy

(* A handler that goes on keeps the invariant.                             *)
LEMMA GoesKeeps ==
  ASSUME BInv, NEW d \in Dials, DialGoes(d)
  PROVE  BInv'
<1>1. PICK l \in Working, op \in Operations :
        /\ After(d, l, dial[d].peer, op, dial[d].told) /\ dial[d].at \in Working
        /\ l = "remote" => Allowed(d)
        /\ UNCHANGED <<stage, lease, launcher, serve, running>>
        /\ handshake.result # "none" => UNCHANGED handshake
        /\ handshake' \in [result : {"none", "good", "bad"}, peer : Peers]
  BY DEF DialGoes
<1>2. /\ \A e \in Dials : e # d => dial'[e] = dial[e]
      /\ dial'[d].at = l /\ dial'[d].peer = dial[d].peer /\ dial'[d].told = dial[d].told
  BY <1>1 DEF After
<1>3. DialsTypeOK'
  BY <1>1 DEF BInv, DialsTypeOK, After
<1>4. Busy' = Busy
  BY <1>1, BusyMoves
<1>5. Counted'
  BY <1>1, <1>4 DEF BInv, Counted
<1>6. Held'
  BY <1>1, <1>2 DEF BInv, Held, Holding, Working
<1>7. Ended'
  BY <1>1, <1>2, <1>4 DEF BInv, Ended, Working
<1>8. Launched'
  BY <1>1, <1>2 DEF BInv, Launched, Allowed, PeerMatches
<1>9. Answered'
  BY <1>1, <1>2 DEF BInv, Answered, Working
<1> QED
  BY <1>3, <1>5, <1>6, <1>7, <1>8, <1>9 DEF BInv

(* Connections come, and serve has one of them in hand at a time, which is *)
(* then refused or handed to a handler of its own.                         *)
LEMMA ServeKeeps ==
  ASSUME BInv, NEW d \in Dials,
         \/ \E p \in {"pi", "child"} : Dial(d, p)
         \/ Accept(d) \/ Admit(d) \/ Refuse(d) \/ StopServing(d) \/ Track(d)
  PROVE  BInv'
<1>1. DialsTypeOK /\ Counted /\ Held /\ Ended /\ Launched /\ Answered
  BY DEF BInv
<1>2. dial[d].at \in Holding => serve = "holding"
  BY <1>1 DEF Held
<1>3. IsFiniteSet(Busy) /\ Cardinality(Busy) \in Nat /\ running \in Nat
  BY <1>1, FS_CardinalityType DEF Counted, DialsTypeOK
<1>4. CASE \E p \in {"pi", "child"} : Dial(d, p)
  <2>0. PICK p \in {"pi", "child"} : Dial(d, p)
    BY <1>4
  <2>1. After(d, "backlog", p, dial[d].op, dial[d].told)
    BY <1>1, <2>0, Turned DEF Dial
  <2>2. /\ \A e \in Dials : e # d => dial'[e] = dial[e]
        /\ dial'[d].at = "backlog" /\ dial'[d].peer = p
        /\ dial'[d].op = dial[d].op /\ dial'[d].told = dial[d].told
    BY <2>1 DEF After
  <2>3. Busy' = Busy
    BY <2>0, <2>1, BusyMoves DEF Dial, Working
  <2>4. Counted'
    BY <1>1, <1>2, <1>3, <2>0, <2>3 DEF Counted, Dial, Holding
  <2>5. running' \in Nat
    BY <1>1, <1>2, <1>3, <2>0 DEF Counted, Dial, Holding
  <2>6. DialsTypeOK'
    BY <1>1, <2>0, <2>1, <2>5 DEF DialsTypeOK, After, Dial
  <2>7. Held'
    BY <1>1, <2>0, <2>2 DEF Held, Holding, Dial
  <2>8. Ended'
    BY <1>1, <1>2, <2>0, <2>2, <2>3 DEF Ended, Holding, Dial
  <2>9. Launched'
    BY <1>1, <2>0, <2>2 DEF Launched, Dial
  <2>10. Answered'
    BY <1>1, <2>0, <2>2 DEF Answered, Dial
  <2> QED
    BY <2>4, <2>6, <2>7, <2>8, <2>9, <2>10 DEF BInv
<1>5. CASE Accept(d)
  <2>1. After(d, "accepted", dial[d].peer, dial[d].op, dial[d].told)
    <3>1. dial[d].op \in Operations
      BY <1>1 DEF DialsTypeOK, DialStates, Operations
    <3> QED
      BY <1>1, <1>5, <3>1, Moved DEF Accept, DialLabels, Holding
  <2>2. /\ \A e \in Dials : e # d => dial'[e] = dial[e]
        /\ dial'[d].at = "accepted" /\ dial'[d].peer = dial[d].peer
        /\ dial'[d].op = dial[d].op /\ dial'[d].told = dial[d].told
    BY <2>1 DEF After
  <2>3. Busy' = Busy
    BY <1>5, <2>1, BusyMoves DEF Accept, Working
  <2>4. Counted'
    BY <1>1, <1>2, <1>3, <1>5, <2>3 DEF Counted, Accept, Holding
  <2>5. running' \in Nat
    BY <1>1, <1>2, <1>3, <1>5 DEF Counted, Accept, Holding
  <2>6. DialsTypeOK'
    BY <1>1, <1>5, <2>1, <2>5 DEF DialsTypeOK, After, Accept
  <2>7. Held'
    BY <1>1, <1>5, <2>2 DEF Held, Holding, Accept
  <2>8. Ended'
    BY <1>1, <1>2, <1>5, <2>2, <2>3 DEF Ended, Holding, Accept
  <2>9. Launched'
    BY <1>1, <1>5, <2>2 DEF Launched, Accept
  <2>10. Answered'
    BY <1>1, <1>5, <2>2 DEF Answered, Accept
  <2> QED
    BY <2>4, <2>6, <2>7, <2>8, <2>9, <2>10 DEF BInv
<1>6. CASE Admit(d)
  <2>1. After(d, "admitted", dial[d].peer, dial[d].op, dial[d].told)
    <3>1. dial[d].op \in Operations
      BY <1>1 DEF DialsTypeOK, DialStates, Operations
    <3> QED
      BY <1>1, <1>6, <3>1, Moved DEF Admit, DialLabels, Holding
  <2>2. /\ \A e \in Dials : e # d => dial'[e] = dial[e]
        /\ dial'[d].at = "admitted" /\ dial'[d].peer = dial[d].peer
        /\ dial'[d].op = dial[d].op /\ dial'[d].told = dial[d].told
    BY <2>1 DEF After
  <2>3. Busy' = Busy
    BY <1>6, <2>1, BusyMoves DEF Admit, Working
  <2>4. Counted'
    BY <1>1, <1>2, <1>3, <1>6, <2>3 DEF Counted, Admit, Holding
  <2>5. running' \in Nat
    BY <1>1, <1>2, <1>3, <1>6 DEF Counted, Admit, Holding
  <2>6. DialsTypeOK'
    BY <1>1, <1>6, <2>1, <2>5 DEF DialsTypeOK, After, Admit
  <2>7. Held'
    BY <1>1, <1>6, <2>2 DEF Held, Holding, Admit
  <2>8. Ended'
    BY <1>1, <1>2, <1>6, <2>2, <2>3 DEF Ended, Holding, Admit
  <2>9. Launched'
    BY <1>1, <1>6, <2>2 DEF Launched, Admit
  <2>10. Answered'
    BY <1>1, <1>6, <2>2 DEF Answered, Admit
  <2> QED
    BY <2>4, <2>6, <2>7, <2>8, <2>9, <2>10 DEF BInv
<1>7. CASE Refuse(d)
  <2>1. After(d, "gone", dial[d].peer, dial[d].op, dial[d].told)
    BY <1>1, <1>7, Turned DEF Refuse
  <2>2. /\ \A e \in Dials : e # d => dial'[e] = dial[e]
        /\ dial'[d].at = "gone" /\ dial'[d].peer = dial[d].peer
        /\ dial'[d].op = dial[d].op /\ dial'[d].told = dial[d].told
    BY <2>1 DEF After
  <2>3. Busy' = Busy
    BY <1>7, <2>1, BusyMoves DEF Refuse, Working
  <2>4. Counted'
    BY <1>1, <1>2, <1>3, <1>7, <2>3 DEF Counted, Refuse, Holding
  <2>5. running' \in Nat
    BY <1>1, <1>2, <1>3, <1>7 DEF Counted, Refuse, Holding
  <2>6. DialsTypeOK'
    BY <1>1, <1>7, <2>1, <2>5 DEF DialsTypeOK, After, Refuse
  <2>7. Held'
    BY <1>1, <1>7, <2>2 DEF Held, Holding, Refuse
  <2>8. Ended'
    BY <1>1, <1>2, <1>7, <2>2, <2>3 DEF Ended, Holding, Refuse
  <2>9. Launched'
    BY <1>1, <1>7, <2>2 DEF Launched, Refuse
  <2>10. Answered'
    BY <1>1, <1>7, <2>2 DEF Answered, Refuse
  <2> QED
    BY <2>4, <2>6, <2>7, <2>8, <2>9, <2>10 DEF BInv
<1>8. CASE StopServing(d)
  <2>1. After(d, "gone", dial[d].peer, dial[d].op, dial[d].told)
    BY <1>1, <1>8, Turned DEF StopServing
  <2>2. /\ \A e \in Dials : e # d => dial'[e] = dial[e]
        /\ dial'[d].at = "gone" /\ dial'[d].peer = dial[d].peer
        /\ dial'[d].op = dial[d].op /\ dial'[d].told = dial[d].told
    BY <2>1 DEF After
  <2>3. Busy' = Busy
    BY <1>8, <2>1, BusyMoves DEF StopServing, Working
  <2>4. Counted'
    BY <1>1, <1>2, <1>3, <1>8, <2>3 DEF Counted, StopServing, Holding
  <2>5. running' \in Nat
    BY <1>1, <1>2, <1>3, <1>8 DEF Counted, StopServing, Holding
  <2>6. DialsTypeOK'
    BY <1>1, <1>8, <2>1, <2>5 DEF DialsTypeOK, After, StopServing
  <2>7. Held'
    BY <1>1, <1>8, <2>2 DEF Held, Holding, StopServing
  <2>8. Ended'
    BY <1>1, <1>2, <1>8, <2>2, <2>3 DEF Ended, Holding, StopServing
  <2>9. Launched'
    BY <1>1, <1>8, <2>2 DEF Launched, StopServing
  <2>10. Answered'
    BY <1>1, <1>8, <2>2 DEF Answered, StopServing
  <2> QED
    BY <2>4, <2>6, <2>7, <2>8, <2>9, <2>10 DEF BInv
<1>9. CASE Track(d)
  <2>1. After(d, "reading", dial[d].peer, dial[d].op, dial[d].told)
    BY <1>1, <1>9, Turned DEF Track
  <2>2. /\ \A e \in Dials : e # d => dial'[e] = dial[e]
        /\ dial'[d].at = "reading" /\ dial'[d].peer = dial[d].peer
        /\ dial'[d].op = dial[d].op /\ dial'[d].told = dial[d].told
    BY <2>1 DEF After
  <2>3. Busy' = Busy \cup {d} /\ d \notin Busy
    BY <1>9, <2>1, BusyMoves DEF Track, Working
  <2>4. Counted'
    <3>1. IsFiniteSet(Busy') /\ Cardinality(Busy') = Cardinality(Busy) + 1
      BY <1>3, <2>3, FS_AddElement
    <3> QED
      BY <1>1, <1>2, <1>3, <1>9, <3>1 DEF Counted, Track, Holding
  <2>5. running' \in Nat
    BY <1>1, <1>2, <1>3, <1>9 DEF Counted, Track, Holding
  <2>6. DialsTypeOK'
    BY <1>1, <1>9, <2>1, <2>5 DEF DialsTypeOK, After, Track
  <2>7. Held'
    BY <1>1, <1>9, <2>2 DEF Held, Holding, Track
  <2>8. Ended'
    BY <1>1, <1>2, <1>9, <2>2, <2>3 DEF Ended, Holding, Track
  <2>9. Launched'
    BY <1>1, <1>9, <2>2 DEF Launched, Track
  <2>10. Answered'
    BY <1>1, <1>9, <2>2 DEF Answered, Track
  <2> QED
    BY <2>4, <2>6, <2>7, <2>8, <2>9, <2>10 DEF BInv
<1> QED
  BY <1>4, <1>5, <1>6, <1>7, <1>8, <1>9

(* The answer ends its handler, and in doubt the lease.                    *)
LEMMA AnswerKeeps ==
  ASSUME BInv, NEW d \in Dials, Answer(d)
  PROVE  BInv'
<1>1. DialsTypeOK /\ Counted /\ Held /\ Ended /\ Launched /\ Answered
  BY DEF BInv
<1>2. IsFiniteSet(Busy) /\ Cardinality(Busy) \in Nat /\ running \in Nat
  BY <1>1, FS_CardinalityType DEF Counted, DialsTypeOK
<1>3. PICK told \in BOOLEAN :
        /\ lease' = (lease /\ (told \/ ~remoteBrokerMutation(dial[d].op)))
        /\ dial' = [DialGone(d) EXCEPT ![d].told = told]
  BY DEF Answer
<1>4. After(d, "gone", dial[d].peer, dial[d].op, told)
  BY <1>1, <1>3, Turned
<1>5. /\ \A e \in Dials : e # d => dial'[e] = dial[e]
      /\ dial'[d].at = "gone" /\ dial'[d].op = dial[d].op /\ dial'[d].told = told
  BY <1>4 DEF After
<1>6. Busy' = Busy \ {d} /\ d \in Busy
  BY <1>4, BusyMoves DEF Answer, Working
<1>7. IsFiniteSet(Busy') /\ Cardinality(Busy') = Cardinality(Busy) - 1 /\ Cardinality(Busy') \in Nat
  BY <1>2, <1>6, FS_RemoveElement, FS_CardinalityType
<1>8. Counted' /\ running' \in Nat
  BY <1>1, <1>2, <1>7 DEF Counted, Answer
<1>9. DialsTypeOK'
  BY <1>1, <1>3, <1>4, <1>8 DEF DialsTypeOK, Answer, After
<1>10. Held'
  BY <1>1, <1>5 DEF Held, Holding, Answer
<1>11. Ended'
  BY <1>1, <1>5, <1>6 DEF Ended, Answer
<1>12. Launched'
  BY <1>1, <1>5 DEF Launched, Answer
<1>13. Answered'
  BY <1>1, <1>3, <1>5 DEF Answered, remoteBrokerMutation
<1> QED
  BY <1>8, <1>9, <1>10, <1>11, <1>12, <1>13 DEF BInv

(* Wait of Close returns when the count is zero: nothing is at work then,  *)
(* and serve has ended, which alone could start anything.                  *)
LEMMA WaitKeeps ==
  ASSUME BInv, Wait
  PROVE  BInv'
<1>1. DialsTypeOK /\ Counted /\ Held /\ Ended /\ Launched /\ Answered
  BY DEF BInv
<1>2. Busy' = Busy
  BY DEF Wait, Busy
<1>3. IsFiniteSet(Busy) /\ Cardinality(Busy) \in Nat
  BY <1>1, FS_CardinalityType DEF Counted
<1>4. running = 0 => serve = "ended" /\ Cardinality(Busy) = 0
  BY <1>1, <1>3 DEF Counted
<1>5. running = 0 => Busy = {}
  BY <1>3, <1>4, FS_EmptySet
<1>6. Ended'
  BY <1>1, <1>2, <1>4, <1>5 DEF Wait, Ended
<1>7. DialsTypeOK' /\ Counted' /\ Held' /\ Launched' /\ Answered'
  BY <1>1, <1>2 DEF Wait, DialsTypeOK, Counted, Held, Launched, Answered
<1> QED
  BY <1>6, <1>7 DEF BInv

(* The two steps of Close that shut connections.                           *)
LEMMA BrokerCloseKeeps ==
  ASSUME BInv, CloseListener \/ CloseConnections
  PROVE  BInv'
<1>1. DialsTypeOK /\ Counted /\ Held /\ Ended /\ Launched /\ Answered
  BY DEF BInv
<1>2. /\ stage' \in {"cancelled", "swept"}
      /\ UNCHANGED <<lease, handshake, launcher, serve, running>>
  BY DEF CloseListener, CloseConnections
<1>3. ASSUME NEW d \in Dials
      PROVE  /\ dial'[d] \in DialStates
             /\ dial'[d].at = dial[d].at \/ (dial[d].at = "backlog" /\ dial'[d].at = "gone")
             /\ dial'[d].at # "backlog"
             /\ dial'[d].peer = dial[d].peer /\ dial'[d].op = dial[d].op
             /\ dial'[d].told = dial[d].told
  <2>1. dial[d] \in DialStates
    BY <1>1 DEF DialsTypeOK
  <2>2. CASE CloseListener
    BY <2>1, <2>2 DEF CloseListener, DialStates
  <2>3. CASE CloseConnections
    <3>1. dial[d].at # "backlog"
      BY <1>1, <2>3 DEF CloseConnections, Ended
    <3> QED
      BY <2>1, <2>3, <3>1 DEF CloseConnections, DialStates
  <2> QED
    BY <2>2, <2>3
<1>4. dial' \in [Dials -> DialStates]
  <2>1. dial' = [d \in Dials |-> dial'[d]]
    BY DEF CloseListener, CloseConnections
  <2> QED
    BY <1>3, <2>1
<1>5. Busy' = Busy
  BY <1>3 DEF Busy, Working
<1>6. DialsTypeOK'
  BY <1>1, <1>2, <1>4 DEF DialsTypeOK
<1>7. Counted'
  BY <1>1, <1>2, <1>5 DEF Counted
<1>8. Held'
  BY <1>1, <1>2, <1>3 DEF Held, Holding
<1>9. Ended' /\ Launched' /\ Answered'
  BY <1>1, <1>2, <1>3, <1>5 DEF Ended, Launched, Answered
<1> QED
  BY <1>6, <1>7, <1>8, <1>9 DEF BInv

(* What is left: serve ends, StartSession has its answer, the lease ends.  *)
LEMMA RestKeeps ==
  ASSUME BInv, ServeEnds \/ WaitHandshake \/ GiveUpWaiting \/ LeaseEnds \/ UNCHANGED brokerVars
  PROVE  BInv'
<1>1. DialsTypeOK /\ Counted /\ Held /\ Ended /\ Launched /\ Answered
  BY DEF BInv
<1>2. Busy' = Busy /\ dial' = dial /\ stage' = stage /\ handshake' = handshake
  BY DEF ServeEnds, WaitHandshake, GiveUpWaiting, LeaseEnds, brokerVars, Busy
<1>3. Cardinality(Busy) \in Nat /\ running \in Nat
  BY <1>1, FS_CardinalityType DEF Counted, DialsTypeOK
<1>4. Counted' /\ running' \in Nat
  BY <1>1, <1>2, <1>3
     DEF Counted, ServeEnds, WaitHandshake, GiveUpWaiting, LeaseEnds, brokerVars
<1>5. DialsTypeOK'
  BY <1>1, <1>2, <1>4
     DEF DialsTypeOK, ServeEnds, WaitHandshake, GiveUpWaiting, LeaseEnds, brokerVars
<1>6. Held' /\ Ended' /\ Answered'
  BY <1>1, <1>2
     DEF Held, Ended, Answered, ServeEnds, WaitHandshake, GiveUpWaiting, LeaseEnds, brokerVars
<1>7. Launched'
  BY <1>1, <1>2
     DEF Launched, PeerMatches, ServeEnds, WaitHandshake, GiveUpWaiting, LeaseEnds, brokerVars
<1> QED
  BY <1>4, <1>5, <1>6, <1>7 DEF BInv

-----------------------------------------------------------------------------
(* Theorems                                                                *)

(* The invariant holds initially: serve is the only goroutine.             *)
LEMMA BrokerStarts == BrokerInit => BInv
<1> SUFFICES ASSUME BrokerInit PROVE BInv
  OBVIOUS
<1>1. NoDial \in DialStates
  BY DEF NoDial, DialStates, Peers
<1>2. DialsTypeOK
  BY <1>1 DEF BrokerInit, DialsTypeOK, Peers
<1>3. \A d \in Dials : dial[d].at = "none" /\ dial[d].told
  BY DEF BrokerInit, NoDial
<1>4. Busy = {}
  BY <1>3 DEF Busy, Working
<1>5. Counted
  BY <1>4, FS_EmptySet DEF BrokerInit, Counted
<1>6. Held /\ Ended /\ Launched /\ Answered
  BY <1>3 DEF BrokerInit, Held, Holding, Ended, Launched, Answered
<1> QED
  BY <1>2, <1>5, <1>6 DEF BInv

(* The invariant is inductive.                                             *)
LEMMA BrokerStep == BInv /\ [BrokerNext]_brokerVars => BInv'
<1> SUFFICES ASSUME BInv, [BrokerNext]_brokerVars PROVE BInv'
  OBVIOUS
<1>1. DialsTypeOK
  BY DEF BInv
<1>2. CASE \E d \in Dials, p \in {"pi", "child"} : Dial(d, p)
  BY <1>2, ServeKeeps
<1>3. CASE \E d \in Dials, op \in {"hello", "bad hello", "query", "mutation"} : ReadRequest(d, op)
  BY <1>1, <1>3, HandlerGoes, GoesKeeps
<1>4. CASE \E d \in Dials : \/ Accept(d) \/ Admit(d) \/ Refuse(d) \/ StopServing(d) \/ Track(d)
  BY <1>4, ServeKeeps
<1>5. CASE \E d \in Dials :
             InvalidRequest(d) \/ Execute(d) \/ Executed(d) \/ Hello(d) \/ HelloEnds(d)
  BY <1>1, <1>5, HandlerGoes, GoesKeeps
<1>6. CASE \E d \in Dials : Answer(d)
  BY <1>6, AnswerKeeps
<1>7. CASE \/ ServeEnds \/ WaitHandshake \/ GiveUpWaiting \/ CloseListener \/ CloseConnections
           \/ Wait \/ LeaseEnds \/ UNCHANGED brokerVars
  BY <1>7, RestKeeps, BrokerCloseKeeps, WaitKeeps
<1> QED
  BY <1>2, <1>3, <1>4, <1>5, <1>6, <1>7 DEF BrokerNext

(* The invariant holds in every state of every behaviour.                  *)
LEMMA BrokerInvHolds == BrokerSpec => []BInv
<1> QED
  BY BrokerStarts, BrokerStep, PTL DEF BrokerSpec

(* Type correctness of the broker and its connections.                     *)
THEOREM BrokerTypes == BrokerSpec => []DialsTypeOK
<1>1. BInv => DialsTypeOK
  BY DEF BInv
<1> QED
  BY <1>1, BrokerInvHolds, PTL

(* Only the Pi that was launched is served, after its own handshake; after *)
(* Close has waited, nothing runs and nothing will; and a mutation whose   *)
(* answer was lost leaves no live lease (handle, execute and Close of      *)
(* remotebroker.go).                                                       *)
THEOREM BrokerSafety == BrokerSpec => []BrokerServesItsPi
<1>1. ASSUME BInv PROVE BrokerServesItsPi
  <2>1. DialsTypeOK /\ Held /\ Ended /\ Launched /\ Answered
    BY <1>1 DEF BInv
  <2>2. OnlyItsPiIsServed
    BY <2>1 DEF OnlyItsPiIsServed, Launched, PeerMatches
  <2>3. ClosedIsQuiet
    <3>1. \A d \in Dials : dial[d].at \in DialLabels
      BY <2>1 DEF DialsTypeOK, DialStates, DialLabels
    <3> QED
      BY <2>1, <3>1 DEF ClosedIsQuiet, Held, Ended, Busy, DialLabels
  <2>4. DoubtDisconnects
    BY <2>1 DEF DoubtDisconnects, Answered
  <2> QED
    BY <2>2, <2>3, <2>4 DEF BrokerServesItsPi
<1>2. BInv => BrokerServesItsPi
  BY <1>1
<1> QED
  BY <1>2, BrokerInvHolds, PTL
=============================================================================
