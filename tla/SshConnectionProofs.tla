------------------------- MODULE SshConnectionProofs -------------------------
(***************************************************************************)
(* Proofs about SshConnection, for any number of invocations of each kind. *)
(* What the runs check is not inductive: it rests on the order in which    *)
(* generations and attempts are drawn, on generationCancels holding the    *)
(* contexts of the live generation and no others, and on the identity of   *)
(* the channel that a teardown waits on.  IInv adds these facts.           *)
(***************************************************************************)
EXTENDS SshConnection, FiniteSetTheorems, TLAPS

Begun == {c \in Connects : at[c] # "idle"}

(* Generations are drawn by the Connects that have begun, one each.        *)
DrawnOnce == nextGeneration <= Cardinality(Begun)

(* An attempt is drawn by incrementing, so a Connect of an older one does  *)
(* not count any more.                                                     *)
Drawn == \A c \in Connects : attemptOf[c] <= attempt

(* The live generation is the last one drawn, and a Connect that draws one *)
(* tells nobody of it before it is ready.                                  *)
Numbers ==
  /\ state = "ready" => liveGeneration = nextGeneration
  /\ state # "ready" => liveGeneration = 0
  /\ state = "connecting" \/ state = "ready" => nextGeneration > 0
  /\ \A c \in Connects : answer[c] <= nextGeneration
  /\ \A c \in Connects : state = "connecting" => answer[c] < nextGeneration

(* A Connect is told of the generation it made ready, and of no other      *)
(* before.                                                                 *)
Told ==
  /\ \A c \in Connects : at[c] \in {"idle", "probing"} => answer[c] = 0
  /\ state = "ready" => liveGeneration \in Seen

(* A generation that was live and is not will not be live again.           *)
Over(g) ==
  /\ g \in Generations /\ g <= nextGeneration
  /\ g # liveGeneration
  /\ state = "connecting" => g < nextGeneration

(* An operation is bound once, to a generation that was live, and its      *)
(* cancel function is held exactly as long as that generation is live.     *)
Contexts ==
  /\ \A o \in contexts : boundTo[o] \in Generations
  /\ \A o \in contexts : boundTo[o] = liveGeneration \/ Over(boundTo[o])
  /\ \A o \in contexts : boundTo[o] = liveGeneration => o \in held
  /\ \A o \in held : boundTo[o] = liveGeneration
  /\ \A o \in contexts : o \in held \/ o \in cancelled \/ \E r \in Revokes : o \in taken[r]

(* A generation has an open channel while contexts are bound to it; the    *)
(* channel is known by the operation that made it.                         *)
Channels ==
  /\ \A g \in Generations : done[g] = Nobody => Bound(g) = {}
  /\ \A g \in Generations : done[g] # Nobody => boundTo[done[g]] = g /\ done[g] \notin idle
  /\ \A o \in idle : boundTo[o] # 0

(* A barrier is set up for a generation that is over, or for none, and its *)
(* channel is the open one of that generation, or is closed and nothing is *)
(* bound.                                                                  *)
Barriers ==
  \A w \in Waits :
    LET g == waits[w].generation
        channel == waits[w].channel
    IN /\ waits[w].at # "idle" => g = 0 \/ Over(g)
       /\ waits[w].at = "waiting" =>
            /\ Over(g) /\ channel # Nobody /\ boundTo[channel] = g
            /\ channel \in idle => Bound(g) = {}
            /\ channel \notin idle => done[g] = channel

(* A barrier that returned before its timeout found nothing bound.         *)
IInv ==
  /\ TypeOK /\ DrawnOnce /\ Drawn /\ OneProbeCounts /\ Numbers /\ Told
  /\ Contexts /\ Channels /\ Barriers /\ BarrierHolds
-----------------------------------------------------------------------------
(* The type invariant                                                      *)

(* The generations that were drawn index the table of channels.            *)
LEMMA DrawnAreGenerations ==
  ASSUME TypeOK, DrawnOnce, NEW g \in Nat, g > 0, g <= nextGeneration
  PROVE  g \in Generations
<1>1. IsFiniteSet(Begun) /\ Cardinality(Begun) <= Cardinality(Connects)
  BY ConnectsFinite, FS_Subset DEF Begun
<1>2. Cardinality(Begun) \in Nat /\ Cardinality(Connects) \in Nat
  BY <1>1, ConnectsFinite, FS_CardinalityType
<1>3. nextGeneration \in Nat /\ nextGeneration <= Cardinality(Begun)
  BY DEF TypeOK, DrawnOnce
<1>4. g <= Cardinality(Connects)
  BY <1>1, <1>2, <1>3
<1> QED
  BY <1>2, <1>4 DEF Generations

(* 0 stands for no generation.                                             *)
LEMMA ZeroIsNone == 0 \notin Generations
BY DEF Generations

(* What a caller was told of is a generation that was drawn.               *)
LEMMA SeenAreGenerations ==
  ASSUME IInv, NEW g \in Seen
  PROVE  g \in Generations /\ g \in Nat /\ g # 0 /\ g <= nextGeneration
<1>1. PICK c \in Connects : g = answer[c] /\ g # 0
  BY DEF Seen
<1>2. g \in Nat /\ g <= nextGeneration
  BY <1>1 DEF IInv, Numbers, TypeOK
<1> QED
  BY <1>1, <1>2, DrawnAreGenerations DEF IInv

(* The end of a wait changes nothing but where it is.                      *)
LEMMA WaitMoves ==
  ASSUME TypeOK, NEW w \in Waits, NEW l \in {"passed", "timed out"},
         waits' = [waits EXCEPT ![w].at = l]
  PROVE  /\ waits' \in [Waits -> [at : {"idle", "waiting", "passed", "timed out"},
                                  generation : Nat, channel : Operations \cup {Nobody}]]
         /\ \A v \in Waits \ {w} : waits'[v] = waits[v]
         /\ waits'[w].at = l /\ waits'[w].generation = waits[w].generation
BY DEF TypeOK

(* The initial state is well typed.                                        *)
LEMMA TypeInit == Init => TypeOK
BY DEF Init, TypeOK

(* Every step, and a stutter, keeps the types.                             *)
LEMMA TypeStep == IInv /\ [Next]_connectionVars => TypeOK'
<1> SUFFICES ASSUME IInv, TypeOK, [Next]_connectionVars PROVE TypeOK'
  BY DEF IInv
<1> USE DEF connectVars, contextVars
<1>1. ASSUME NEW c \in Connects, BeginConnect(c) PROVE TypeOK'
  <2>1. CASE state # "disconnected"
    <3>1. PICK how \in {"connected", "failed"}, n \in Nat :
            /\ at' = [at EXCEPT ![c] = how] /\ answer' = [answer EXCEPT ![c] = n]
            /\ UNCHANGED <<state, nextGeneration, liveGeneration, attempt, attemptCancel,
                           attemptOf, contextVars, cancelled, taken, waits>>
      BY <1>1, <2>1 DEF BeginConnect, Ends, TypeOK
    <3> QED
      BY <3>1 DEF TypeOK
  <2>2. CASE state = "disconnected"
    <3>1. /\ nextGeneration' = nextGeneration + 1 /\ attempt' = attempt + 1
          /\ attemptOf' = [attemptOf EXCEPT ![c] = attempt'] /\ attemptCancel' = c
          /\ state' = "connecting" /\ liveGeneration' = 0
          /\ at' = [at EXCEPT ![c] = "probing"] /\ answer' = [answer EXCEPT ![c] = 0]
          /\ UNCHANGED <<contextVars, cancelled, taken, waits>>
      BY <1>1, <2>2 DEF BeginConnect, Ends, Draw
    <3>2. nextGeneration \in Nat /\ attempt \in Nat
      BY DEF TypeOK
    <3>3. nextGeneration' \in Nat /\ attempt' \in Nat
      BY <3>1, <3>2
    <3> QED
      BY <3>1, <3>3 DEF TypeOK
  <2> QED
    BY <2>1, <2>2
<1>2. ASSUME NEW c \in Connects, FinishConnect(c) PROVE TypeOK'
  <2>1. PICK s \in {"disconnected", "connecting", "ready", "closed"}, l \in Nat,
             k \in Connects \cup {Nobody}, how \in {"connected", "failed"}, n \in Nat :
          /\ state' = s /\ liveGeneration' = l /\ attemptCancel' = k
          /\ at' = [at EXCEPT ![c] = how] /\ answer' = [answer EXCEPT ![c] = n]
          /\ cancelled' = cancelled \cup {c}
          /\ UNCHANGED <<nextGeneration, attempt, attemptOf, contextVars, taken, waits>>
    BY <1>2, NobodyIsNone DEF TypeOK, Ends, FinishConnect
  <2> QED
    BY <2>1 DEF TypeOK
<1>3. ASSUME NEW o \in Operations, NEW g \in Seen, Bind(o, g) PROVE TypeOK'
  <2>1. g \in Generations /\ g \in Nat
    BY SeenAreGenerations
  <2> QED
    BY <1>3, <2>1 DEF Bind, TypeOK
<1>4. ASSUME NEW o \in Operations, Release(o) PROVE TypeOK'
  <2>1. boundTo[o] \in Generations
    BY <1>4 DEF Release, IInv, Contexts
  <2>2. PICK ch \in Operations \cup {Nobody} :
          \/ ch # Nobody /\ idle' = idle \cup {ch} /\ done' = [done EXCEPT ![boundTo[o]] = Nobody]
          \/ UNCHANGED <<idle, done>>
    BY <1>4, <2>1 DEF TypeOK, Release
  <2>3. (idle \subseteq Operations)' /\ (done \in [Generations -> Operations \cup {Nobody}])'
    BY <2>2 DEF TypeOK
  <2>4. (contexts \subseteq Operations /\ held \subseteq contexts
          /\ cancelled \subseteq Connects \cup Operations)'
    BY <1>4 DEF TypeOK, Release
  <2> QED
    BY <1>4, <2>3, <2>4 DEF TypeOK, Release
<1>5. ASSUME NEW r \in Revokes, Disconnect(r) \/ Close(r) PROVE TypeOK'
  <2>1. PICK next \in {"disconnected", "closed"} : Revoke(r, next)
    BY <1>5 DEF Disconnect, Close
  <2>2. CASE state = "closed"
    BY <2>1, <2>2 DEF Revoke, TypeOK
  <2>3. CASE state # "closed"
    <3>1. takeGenerationCancels \cup ({attemptCancel} \ {Nobody}) \in SUBSET (Connects \cup Operations)
      BY NobodyIsNone DEF TypeOK, takeGenerationCancels, Bound
    <3>2. PICK new \in SUBSET (Connects \cup Operations) : taken' = [taken EXCEPT ![r] = @ \cup new]
      BY <2>1, <2>3, <3>1 DEF Revoke
    <3>3. (taken \in [Revokes -> SUBSET (Connects \cup Operations)])'
      BY <3>2 DEF TypeOK
    <3>4. (contexts \subseteq Operations /\ held \subseteq contexts)'
      BY <2>1, <2>3 DEF TypeOK, Revoke
    <3>5. /\ state' = next /\ liveGeneration' = 0
          /\ attempt' = attempt + 1 /\ attemptCancel' = Nobody
          /\ UNCHANGED <<nextGeneration, at, attemptOf, answer, boundTo, done, idle, cancelled, waits>>
      BY <2>1, <2>3 DEF Revoke, Forget
    <3>6. attempt \in Nat
      BY DEF TypeOK
    <3>7. attempt' \in Nat
      BY <3>5, <3>6
    <3> QED
      BY <3>3, <3>4, <3>5, <3>7 DEF TypeOK
  <2> QED
    BY <2>2, <2>3
<1>6. ASSUME NEW r \in Revokes, NEW x \in taken[r], Cancel(r, x) PROVE TypeOK'
  BY <1>6 DEF Cancel, TypeOK
<1>7. ASSUME NEW w \in Waits, NEW g \in Seen \cup {0}, Wait(w, g) PROVE TypeOK'
  <2>1. g \in Nat /\ (g # 0 => g \in Generations)
    BY SeenAreGenerations
  <2> DEFINE k == IF g = 0 THEN Nobody ELSE done[g]
             l == IF g = 0 \/ done[g] = Nobody THEN "passed" ELSE "waiting"
  <2>2. k \in Operations \cup {Nobody} /\ l \in {"waiting", "passed"}
    BY <2>1 DEF TypeOK
  <2>3. waits' = [waits EXCEPT ![w] = [at |-> l, generation |-> g, channel |-> k]]
    BY <1>7 DEF Wait
  <2> HIDE DEF k, l
  <2>4. waits' \in [Waits -> [at : {"idle", "waiting", "passed", "timed out"},
                             generation : Nat, channel : Operations \cup {Nobody}]]
    BY <2>1, <2>2, <2>3 DEF TypeOK
  <2>5. UNCHANGED <<connectVars, contextVars, cancelled, taken>>
    BY <1>7 DEF Wait
  <2> QED
    BY <2>4, <2>5 DEF connectVars, contextVars, TypeOK
<1>8. ASSUME NEW w \in Waits, WaitEnds(w) \/ WaitTimesOut(w) PROVE TypeOK'
  <2>1. PICK l \in {"passed", "timed out"} : waits' = [waits EXCEPT ![w].at = l]
    BY <1>8 DEF WaitEnds, WaitTimesOut
  <2>2. UNCHANGED <<connectVars, contextVars, cancelled, taken>>
    BY <1>8 DEF WaitEnds, WaitTimesOut
  <2>3. waits' \in [Waits -> [at : {"idle", "waiting", "passed", "timed out"},
                             generation : Nat, channel : Operations \cup {Nobody}]]
    BY <2>1, WaitMoves
  <2> QED
    BY <2>2, <2>3 DEF connectVars, contextVars, TypeOK
<1>9. CASE UNCHANGED connectionVars
  BY <1>9 DEF connectionVars, TypeOK
<1> QED
  BY <1>1, <1>2, <1>3, <1>4, <1>5, <1>6, <1>7, <1>8, <1>9 DEF Next

-----------------------------------------------------------------------------
(* The inductive invariant                                                 *)

(* The inductive invariant holds initially: nothing has begun.             *)
LEMMA InitIInv == Init => IInv
<1> SUFFICES ASSUME Init PROVE IInv
  OBVIOUS
<1>1. TypeOK /\ OneProbeCounts /\ Numbers /\ Drawn /\ Told
  BY TypeInit DEF Init, OneProbeCounts, Numbers, Drawn, Told
<1>2. DrawnOnce
  <2>1. Begun = {}
    BY DEF Init, Begun
  <2> QED
    BY <2>1, FS_EmptySet DEF Init, DrawnOnce
<1>3. Contexts /\ Channels
  BY NobodyIsNone DEF Init, Contexts, Channels, Bound
<1>4. Barriers /\ BarrierHolds
  BY DEF Init, Barriers, BarrierHolds
<1> QED
  BY <1>1, <1>2, <1>3, <1>4 DEF IInv

(* Which steps touch the variables of Connect, and how.                    *)
LEMMA ConnectSteps ==
  ASSUME IInv, [Next]_connectionVars
  PROVE  \/ \E c \in Connects : BeginConnect(c) \/ FinishConnect(c)
         \/ \E r \in Revokes, next \in {"disconnected", "closed"} :
              state # "closed" /\ Revoke(r, next)
         \/ UNCHANGED connectVars
BY DEF Next, connectionVars, Bind, Release, Disconnect, Close, Revoke, Cancel, Wait,
   WaitEnds, WaitTimesOut, connectVars

(* What BeginConnect does when the target is disconnected.                 *)
LEMMA BeginProbe ==
  ASSUME NEW c \in Connects, BeginConnect(c), state = "disconnected"
  PROVE  /\ nextGeneration' = nextGeneration + 1 /\ attempt' = attempt + 1
         /\ attemptOf' = [attemptOf EXCEPT ![c] = attempt'] /\ attemptCancel' = c
         /\ state' = "connecting" /\ liveGeneration' = 0
         /\ at' = [at EXCEPT ![c] = "probing"] /\ answer' = [answer EXCEPT ![c] = 0]
BY DEF BeginConnect, Ends, Draw

(* What it does otherwise: it fails, or answers with what is live.         *)
LEMMA BeginEnds ==
  ASSUME TypeOK, NEW c \in Connects, BeginConnect(c), state # "disconnected"
  PROVE  \E how \in {"connected", "failed"}, n \in {0, liveGeneration} :
           /\ at' = [at EXCEPT ![c] = how] /\ answer' = [answer EXCEPT ![c] = n]
           /\ n # 0 => state = "ready"
           /\ UNCHANGED <<state, nextGeneration, liveGeneration, attempt, attemptCancel,
                          attemptOf>>
BY DEF BeginConnect, Ends, TypeOK

(* A Connect draws at most one generation, when it begins.                 *)
LEMMA DrawnOnceStep ==
  ASSUME IInv, TypeOK', [Next]_connectionVars PROVE DrawnOnce'
<1> USE DEF IInv
<1>1. IsFiniteSet(Begun) /\ Cardinality(Begun) \in Nat /\ nextGeneration \in Nat
  BY ConnectsFinite, FS_Subset, FS_CardinalityType DEF Begun, TypeOK
<1>2. ASSUME NEW c \in Connects, at[c] = "idle", at'[c] # "idle",
             \A d \in Connects \ {c} : at'[d] = at[d],
             nextGeneration' <= nextGeneration + 1, nextGeneration' \in Nat
      PROVE  DrawnOnce'
  <2>1. Begun' = Begun \cup {c} /\ c \notin Begun
    BY <1>2 DEF Begun
  <2>2. Cardinality(Begun') = Cardinality(Begun) + 1
    BY <1>1, <2>1, FS_AddElement
  <2> QED
    BY <1>1, <1>2, <2>2 DEF DrawnOnce
<1>3. ASSUME NEW c \in Connects, BeginConnect(c) PROVE DrawnOnce'
  <2>1. at[c] = "idle" /\ at'[c] # "idle" /\ \A d \in Connects \ {c} : at'[d] = at[d]
    BY <1>3 DEF BeginConnect, Ends, TypeOK
  <2>2. nextGeneration' \in {nextGeneration, nextGeneration + 1}
    BY <1>3 DEF BeginConnect, Draw, TypeOK
  <2> QED
    BY <1>1, <1>2, <2>1, <2>2
<1>4. ASSUME NEW c \in Connects, FinishConnect(c) PROVE DrawnOnce'
  <2>1. Begun' = Begun /\ nextGeneration' = nextGeneration
    BY <1>4 DEF FinishConnect, Ends, Begun, TypeOK
  <2> QED
    BY <2>1 DEF DrawnOnce
<1>5. ASSUME UNCHANGED <<at, nextGeneration>> PROVE DrawnOnce'
  BY <1>5 DEF DrawnOnce, Begun
<1> QED
  BY <1>3, <1>4, <1>5, ConnectSteps DEF Revoke, connectVars

(* Attempts only grow, and the last one drawn is the newest.               *)
LEMMA DrawnStep ==
  ASSUME IInv, TypeOK', [Next]_connectionVars PROVE Drawn'
<1>1. attempt \in Nat /\ \A c \in Connects : attemptOf[c] \in Nat /\ attemptOf[c] <= attempt
  BY DEF IInv, TypeOK, Drawn
<1>2. ASSUME NEW c \in Connects, BeginConnect(c) PROVE Drawn'
  <2>1. CASE state = "disconnected"
    <3>1. attempt' = attempt + 1 /\ \A d \in Connects : attemptOf'[d] \in {attemptOf[d], attempt'}
      BY <1>2, <2>1, BeginProbe DEF IInv, TypeOK
    <3> QED
      BY <1>1, <3>1 DEF Drawn
  <2>2. CASE state # "disconnected"
    BY <1>1, <1>2, <2>2, BeginEnds DEF IInv, Drawn
  <2> QED
    BY <2>1, <2>2
<1>3. ASSUME NEW c \in Connects, FinishConnect(c) PROVE Drawn'
  BY <1>1, <1>3 DEF FinishConnect, Drawn
<1>4. ASSUME NEW r \in Revokes, NEW next \in {"disconnected", "closed"},
             state # "closed", Revoke(r, next)
      PROVE  Drawn'
  BY <1>1, <1>4 DEF Revoke, Forget, Drawn
<1>5. CASE UNCHANGED connectVars
  BY <1>1, <1>5 DEF connectVars, Drawn
<1> QED
  BY <1>2, <1>3, <1>4, <1>5, ConnectSteps

(* Another Connect cannot begin while one counts, and a revoke, which      *)
(* draws an attempt too, leaves none that counts.                          *)
LEMMA OneProbeCountsStep ==
  ASSUME IInv, TypeOK', [Next]_connectionVars PROVE OneProbeCounts'
<1>1. \A c \in Connects : attemptOf[c] # attempt + 1
  <2>1. attempt \in Nat /\ \A c \in Connects : attemptOf[c] \in Nat /\ attemptOf[c] <= attempt
    BY DEF IInv, TypeOK, Drawn
  <2> QED
    BY <2>1
<1>2. ASSUME NEW c \in Connects, BeginConnect(c) PROVE OneProbeCounts'
  <2>1. CASE state = "disconnected"
    <3>0. DOMAIN at = Connects /\ DOMAIN attemptOf = Connects
      BY DEF IInv, TypeOK
    <3>1. /\ state' = "connecting" /\ attemptCancel' = c /\ attempt' = attempt + 1
          /\ at'[c] = "probing" /\ attemptOf'[c] = attempt'
          /\ \A d \in Connects \ {c} : attemptOf'[d] = attemptOf[d]
      BY <1>2, <2>1, <3>0, BeginProbe
    <3> QED
      BY <1>1, <3>1, NobodyIsNone DEF OneProbeCounts
  <2>2. CASE state # "disconnected"
    <3>1. /\ at[c] # "probing" /\ at'[c] # "probing" /\ \A d \in Connects \ {c} : at'[d] = at[d]
          /\ UNCHANGED <<state, attempt, attemptCancel, attemptOf>>
      BY <1>2, <2>2 DEF BeginConnect, Ends, IInv, TypeOK
    <3> QED
      BY <3>1 DEF IInv, OneProbeCounts
  <2> QED
    BY <2>1, <2>2
<1>3. ASSUME NEW c \in Connects, FinishConnect(c) PROVE OneProbeCounts'
  <2>1. /\ at[c] = "probing" /\ at'[c] # "probing" /\ \A d \in Connects \ {c} : at'[d] = at[d]
        /\ UNCHANGED <<attempt, attemptOf>>
    BY <1>3 DEF FinishConnect, Ends, IInv, TypeOK
  <2>2. CASE state # "connecting" \/ attempt # attemptOf[c]
    BY <1>3, <2>1, <2>2 DEF FinishConnect, IInv, OneProbeCounts
  <2>3. CASE state = "connecting" /\ attempt = attemptOf[c]
    <3>1. state' # "connecting"
      BY <1>3, <2>3 DEF FinishConnect
    <3>2. {d \in Connects : at[d] = "probing" /\ attemptOf[d] = attempt} = {c}
      BY <2>1, <2>3 DEF IInv, OneProbeCounts
    <3> QED
      BY <2>1, <3>1, <3>2 DEF OneProbeCounts
  <2> QED
    BY <2>2, <2>3
<1>4. ASSUME NEW r \in Revokes, NEW next \in {"disconnected", "closed"},
             state # "closed", Revoke(r, next)
      PROVE  OneProbeCounts'
  BY <1>1, <1>4 DEF Revoke, Forget, OneProbeCounts
<1>5. CASE UNCHANGED connectVars
  BY <1>5 DEF connectVars, IInv, OneProbeCounts
<1> QED
  BY <1>2, <1>3, <1>4, <1>5, ConnectSteps

(* A generation becomes live at the end of the probe that drew it.         *)
LEMMA NumbersStep ==
  ASSUME IInv, TypeOK', [Next]_connectionVars PROVE Numbers'
<1>1. /\ nextGeneration \in Nat /\ liveGeneration \in Nat
      /\ \A c \in Connects : answer[c] \in Nat /\ answer[c] <= nextGeneration
      /\ DOMAIN answer = Connects
  BY DEF IInv, TypeOK, Numbers
<1>2. ASSUME NEW c \in Connects, BeginConnect(c) PROVE Numbers'
  <2>1. CASE state = "disconnected"
    <3>1. /\ nextGeneration' = nextGeneration + 1 /\ nextGeneration' > 0
          /\ state' = "connecting" /\ liveGeneration' = 0
          /\ answer' = [answer EXCEPT ![c] = 0]
      BY <1>1, <1>2, <2>1, BeginProbe
    <3>2. \A d \in Connects : answer'[d] < nextGeneration'
      BY <1>1, <3>1
    <3> QED
      BY <1>1, <3>1, <3>2 DEF Numbers
  <2>2. CASE state # "disconnected"
    <3>1. PICK n \in {0, liveGeneration} :
            /\ answer' = [answer EXCEPT ![c] = n]
            /\ n # 0 => state = "ready"
            /\ UNCHANGED <<state, nextGeneration, liveGeneration>>
      BY <1>2, <2>2, BeginEnds DEF IInv
    <3>2. /\ n \in Nat /\ n <= nextGeneration /\ 0 <= nextGeneration
          /\ state = "connecting" => n < nextGeneration
      <4>1. CASE n = 0
        BY <1>1, <4>1 DEF IInv, Numbers
      <4>2. CASE n # 0
        <5>1. state = "ready" /\ n = nextGeneration
          BY <3>1, <4>2 DEF IInv, Numbers
        <5> QED
          BY <1>1, <5>1
      <4> QED
        BY <4>1, <4>2
    <3>3. \A d \in Connects : answer'[d] = answer[d] \/ answer'[d] = n
      BY <1>1, <3>1
    <3>4. \A d \in Connects : answer'[d] <= nextGeneration
      BY <1>1, <3>2, <3>3
    <3>5. \A d \in Connects : state = "connecting" => answer'[d] < nextGeneration
      BY <3>2, <3>3 DEF IInv, Numbers
    <3> QED
      BY <3>1, <3>4, <3>5 DEF IInv, Numbers
  <2> QED
    BY <2>1, <2>2
<1>3. ASSUME NEW c \in Connects, FinishConnect(c) PROVE Numbers'
  <2>1. nextGeneration' = nextGeneration
    BY <1>3 DEF FinishConnect
  <2>2. CASE answer' = [answer EXCEPT ![c] = 0] /\ UNCHANGED <<state, liveGeneration>>
    BY <1>1, <2>1, <2>2 DEF IInv, Numbers
  <2>3. CASE /\ answer' = [answer EXCEPT ![c] = nextGeneration] /\ state = "connecting"
             /\ state' = "ready" /\ liveGeneration' = nextGeneration
    BY <1>1, <2>1, <2>3 DEF IInv, Numbers
  <2>4. CASE /\ answer' = [answer EXCEPT ![c] = 0] /\ state = "connecting"
             /\ state' = "disconnected" /\ liveGeneration' = liveGeneration
    BY <1>1, <2>1, <2>4 DEF IInv, Numbers
  <2> QED
    BY <1>3, <2>2, <2>3, <2>4 DEF FinishConnect, Ends
<1>4. ASSUME NEW r \in Revokes, NEW next \in {"disconnected", "closed"},
             state # "closed", Revoke(r, next)
      PROVE  Numbers'
  BY <1>1, <1>4 DEF Revoke, Forget, Numbers
<1>5. CASE UNCHANGED connectVars
  BY <1>5 DEF connectVars, IInv, Numbers
<1> QED
  BY <1>2, <1>3, <1>4, <1>5, ConnectSteps

(* A Connect that ends is told of the generation it made ready, or of the  *)
(* one that was.                                                           *)
LEMMA ToldStep ==
  ASSUME IInv, TypeOK', [Next]_connectionVars PROVE Told'
<1> USE DEF Seen
<1>1. /\ Told /\ Numbers /\ answer \in [Connects -> Nat] /\ nextGeneration \in Nat
      /\ at \in [Connects -> {"idle", "probing", "connected", "failed"}]
  BY DEF IInv, TypeOK
<1>2. ASSUME NEW c \in Connects, BeginConnect(c) PROVE Told'
  <2>1. CASE state = "disconnected"
    BY <1>1, <1>2, <2>1, BeginProbe DEF Told
  <2>2. CASE state # "disconnected"
    <3>1. PICK how \in {"connected", "failed"}, n \in {0, liveGeneration} :
            /\ at' = [at EXCEPT ![c] = how] /\ answer' = [answer EXCEPT ![c] = n]
            /\ UNCHANGED <<state, liveGeneration>>
      BY <1>2, <2>2, BeginEnds DEF IInv
    <3>2. state = "ready" => at[c] = "idle" /\ answer[c] = 0
      BY <1>1, <1>2 DEF BeginConnect, Told
    <3>3. state = "ready" => \E d \in Connects : answer'[d] = liveGeneration /\ liveGeneration # 0
      <4>1. ASSUME state = "ready" PROVE \E d \in Connects \ {c} : answer[d] = liveGeneration /\ liveGeneration # 0
        BY <1>1, <3>2, <4>1 DEF Told
      <4> QED
        BY <1>1, <3>1, <4>1
    <3>4. \A d \in Connects : at'[d] \in {"idle", "probing"} => answer'[d] = 0
      BY <1>1, <3>1 DEF Told
    <3> QED
      BY <3>1, <3>3, <3>4 DEF Told
  <2> QED
    BY <2>1, <2>2
<1>3. ASSUME NEW c \in Connects, FinishConnect(c) PROVE Told'
  <2>1. at[c] = "probing" /\ answer[c] = 0
    BY <1>1, <1>3 DEF FinishConnect, Told
  <2>2. PICK how \in {"connected", "failed"}, n \in {0, nextGeneration} :
          at' = [at EXCEPT ![c] = how] /\ answer' = [answer EXCEPT ![c] = n]
    BY <1>3 DEF FinishConnect, Ends
  <2>3. \A d \in Connects : at'[d] \in {"idle", "probing"} => answer'[d] = 0
    BY <1>1, <2>2 DEF Told
  <2>4. CASE UNCHANGED <<state, liveGeneration>>
    <3>1. state = "ready" => \E d \in Connects \ {c} : answer[d] = liveGeneration /\ liveGeneration # 0
      BY <1>1, <2>1 DEF Told
    <3>2. state = "ready" => \E d \in Connects : answer'[d] = liveGeneration /\ liveGeneration # 0
      BY <1>1, <2>2, <3>1
    <3> QED
      BY <2>3, <2>4, <3>2 DEF Told
  <2>5. CASE state' = "ready" /\ liveGeneration' = nextGeneration /\ state = "connecting"
             /\ answer' = [answer EXCEPT ![c] = nextGeneration]
    <3>1. nextGeneration # 0
      BY <1>1, <2>5 DEF Numbers
    <3>2. answer'[c] = nextGeneration
      BY <1>1, <2>5
    <3> QED
      BY <2>3, <2>5, <3>1, <3>2 DEF Told
  <2>6. CASE state' = "disconnected"
    BY <2>3, <2>6 DEF Told
  <2> QED
    BY <1>3, <2>4, <2>5, <2>6 DEF FinishConnect, Ends
<1>4. ASSUME NEW r \in Revokes, NEW next \in {"disconnected", "closed"},
             state # "closed", Revoke(r, next)
      PROVE  Told'
  BY <1>1, <1>4 DEF Revoke, Forget, Told
<1>5. CASE UNCHANGED connectVars
  BY <1>1, <1>5 DEF connectVars, Told
<1> QED
  BY <1>2, <1>3, <1>4, <1>5, ConnectSteps

(* How the live generation changes: a probe's end makes the last one drawn *)
(* live, a revoke forgets it.                                              *)
LEMMA LiveSteps ==
  ASSUME IInv, [Next]_connectionVars
  PROVE  /\ \/ UNCHANGED <<state, liveGeneration, nextGeneration>>
            \/ /\ liveGeneration = 0 /\ liveGeneration' = 0
               /\ state' = "connecting" /\ nextGeneration' = nextGeneration + 1
            \/ /\ state = "connecting" /\ liveGeneration = 0 /\ state' # "connecting"
               /\ liveGeneration' \in {0, nextGeneration} /\ nextGeneration' = nextGeneration
            \/ /\ state' # "connecting" /\ liveGeneration' = 0 /\ nextGeneration' = nextGeneration
<1>1. ASSUME NEW c \in Connects, BeginConnect(c), state = "disconnected"
      PROVE  /\ liveGeneration = 0 /\ liveGeneration' = 0
             /\ state' = "connecting" /\ nextGeneration' = nextGeneration + 1
  BY <1>1, BeginProbe DEF IInv, Numbers
<1>2. ASSUME NEW c \in Connects, BeginConnect(c), state # "disconnected"
      PROVE  UNCHANGED <<state, liveGeneration, nextGeneration>>
  BY <1>2, BeginEnds DEF IInv
<1>3. ASSUME NEW c \in Connects, FinishConnect(c)
      PROVE  \/ UNCHANGED <<state, liveGeneration, nextGeneration>>
             \/ /\ state = "connecting" /\ liveGeneration = 0 /\ state' # "connecting"
                /\ liveGeneration' \in {0, nextGeneration} /\ nextGeneration' = nextGeneration
  BY <1>3 DEF FinishConnect, IInv, Numbers
<1>4. ASSUME NEW r \in Revokes, NEW next \in {"disconnected", "closed"},
             state # "closed", Revoke(r, next)
      PROVE  state' # "connecting" /\ liveGeneration' = 0 /\ nextGeneration' = nextGeneration
  BY <1>4 DEF Revoke, Forget
<1>5. CASE UNCHANGED connectVars
  BY <1>5 DEF connectVars
<1> QED
  BY <1>1, <1>2, <1>3, <1>4, <1>5, ConnectSteps

(* What is over stays over.                                                *)
LEMMA OverStays ==
  ASSUME IInv, [Next]_connectionVars, NEW g, Over(g) PROVE Over(g)'
<1>1. g \in Nat /\ g > 0 /\ nextGeneration \in Nat
  <2>1. g \in Generations /\ nextGeneration \in Nat
    BY DEF IInv, TypeOK, Over
  <2> QED
    BY <2>1 DEF Generations
<1> QED
  BY <1>1, LiveSteps DEF Over

(* A generation that loses its place as the live one is over, and one that *)
(* was over does not become live.                                          *)
LEMMA LiveEnds ==
  ASSUME IInv, [Next]_connectionVars, NEW g \in Generations,
         g = liveGeneration \/ Over(g)
  PROVE  g = liveGeneration' \/ Over(g)'
<1>1. CASE g = liveGeneration /\ liveGeneration' # liveGeneration
  <2>0. g # 0 /\ g \in Nat
    BY DEF Generations
  <2>1. g # 0 /\ g \in Nat /\ g = nextGeneration
    BY <1>1, <2>0 DEF IInv, Numbers
  <2>2. /\ nextGeneration' = nextGeneration /\ liveGeneration' = 0
        /\ state' # "connecting"
    BY <1>1, <2>1, LiveSteps
  <2> QED
    BY <2>1, <2>2 DEF Over
<1> QED
  BY <1>1, OverStays

(* Steps that bind nothing and release nothing.                            *)
LEMMA OtherSteps ==
  ASSUME [Next]_connectionVars
  PROVE  \/ \E o \in Operations, g \in Seen : Bind(o, g)
         \/ \E o \in Operations : Release(o)
         \/ /\ UNCHANGED <<boundTo, contexts, done, idle>>
            /\ \/ \E c \in Connects : BeginConnect(c) \/ FinishConnect(c)
               \/ \E r \in Revokes, next \in {"disconnected", "closed"} : Revoke(r, next)
               \/ UNCHANGED <<liveGeneration, held>>
BY DEF Next, connectionVars, connectVars, contextVars, BeginConnect, FinishConnect,
   Disconnect, Close, Revoke, Cancel, Wait, WaitEnds, WaitTimesOut

(* Contexts that stay bound stay bound to the live generation or to one    *)
(* that is over.                                                           *)
LEMMA BoundStep ==
  ASSUME IInv, [Next]_connectionVars, NEW o \in contexts, boundTo'[o] = boundTo[o]
  PROVE  /\ boundTo'[o] \in Generations
         /\ (boundTo[o] = liveGeneration \/ Over(boundTo[o]))'
<1>1. boundTo[o] \in Generations /\ (boundTo[o] = liveGeneration \/ Over(boundTo[o]))
  BY DEF IInv, Contexts
<1>2. PICK g \in Generations : g = boundTo[o]
  BY <1>1
<1>3. g = liveGeneration' \/ Over(g)'
  BY <1>1, <1>2, LiveEnds
<1> QED
  BY <1>2, <1>3 DEF Over

(* A cancel function leaves generationCancels only with the whole          *)
(* generation or with its own context.                                     *)
LEMMA ContextsStep ==
  ASSUME IInv, TypeOK', [Next]_connectionVars PROVE Contexts'
<1> USE DEF contextVars
<1>0. /\ \A x \in contexts : boundTo[x] # 0
      /\ held \subseteq contexts
      /\ liveGeneration = 0 => held = {}
  <2>1. /\ \A x \in contexts : boundTo[x] \in Generations
        /\ \A x \in held : boundTo[x] = liveGeneration
    BY DEF IInv, Contexts
  <2>2. held \subseteq contexts
    BY DEF IInv, TypeOK
  <2> QED
    BY <2>1, <2>2, ZeroIsNone
<1>1. ASSUME NEW o \in Operations, NEW g \in Seen, Bind(o, g) PROVE Contexts'
  <2>1. /\ g = liveGeneration /\ g \in Generations
        /\ UNCHANGED <<liveGeneration, cancelled, taken>>
        /\ boundTo' = [boundTo EXCEPT ![o] = g]
        /\ contexts' = contexts \cup {o} /\ held' = held \cup {o}
    BY <1>1, SeenAreGenerations DEF Bind, Live, connectVars
  <2>2. boundTo'[o] = g /\ \A x \in contexts \ {o} : boundTo'[x] = boundTo[x]
    BY <2>1 DEF IInv, TypeOK
  <2>3. \A x \in contexts' : /\ boundTo'[x] \in Generations
                             /\ (boundTo[x] = liveGeneration \/ Over(boundTo[x]))'
    BY <2>1, <2>2, BoundStep
  <2> QED
    BY <2>1, <2>2, <2>3 DEF IInv, TypeOK, Contexts
<1>2. ASSUME NEW o \in Operations, Release(o) PROVE Contexts'
  <2>1. \A x \in contexts' : /\ boundTo'[x] \in Generations
                             /\ (boundTo[x] = liveGeneration \/ Over(boundTo[x]))'
    BY <1>2, BoundStep DEF Release
  <2> QED
    BY <1>2, <2>1 DEF Release, connectVars, IInv, Contexts
<1>3. ASSUME UNCHANGED <<boundTo, contexts>>,
             \A x \in contexts : boundTo[x] = liveGeneration' => x \in held',
             \A x \in held' : boundTo[x] = liveGeneration',
             \A x \in contexts : x \in held' \/ x \in cancelled' \/ \E r \in Revokes : x \in taken'[r]
      PROVE  Contexts'
  BY <1>3, BoundStep DEF Contexts
<1>4. ASSUME NEW c \in Connects, BeginConnect(c) \/ FinishConnect(c) PROVE Contexts'
  <2>1. /\ UNCHANGED <<boundTo, contexts, held, taken>> /\ cancelled \subseteq cancelled'
    BY <1>4 DEF BeginConnect, FinishConnect
  <2>2. liveGeneration' = liveGeneration \/ (liveGeneration = 0 /\ liveGeneration' # 0)
    BY <1>4 DEF BeginConnect, FinishConnect, IInv, Numbers
  <2>3. CASE liveGeneration' # liveGeneration
    <3>1. held = {}
      BY <1>0, <2>2, <2>3
    <3>2. ASSUME NEW x \in contexts PROVE boundTo[x] # liveGeneration'
      <4>1. boundTo[x] # 0 /\ Over(boundTo[x])
        BY <1>0, <2>2, <2>3 DEF IInv, Contexts
      <4>2. PICK g : g = boundTo[x] /\ Over(g)
        BY <4>1
      <4>3. Over(g)'
        BY <4>2, OverStays
      <4> QED
        BY <4>2, <4>3 DEF Over
    <3> QED
      BY <1>3, <2>1, <3>1, <3>2 DEF IInv, Contexts
  <2> QED
    BY <1>3, <2>1, <2>3 DEF IInv, Contexts
<1>5. ASSUME NEW r \in Revokes, NEW next \in {"disconnected", "closed"}, Revoke(r, next)
      PROVE  Contexts'
  <2>1. CASE state = "closed"
    BY <1>3, <1>5, <2>1 DEF Revoke, connectVars, IInv, Contexts
  <2>2. CASE state # "closed"
    <3>1. /\ liveGeneration' = 0 /\ UNCHANGED <<boundTo, contexts, cancelled>>
          /\ held' = held \ takeGenerationCancels
          /\ taken' = [taken EXCEPT ![r] =
               @ \cup takeGenerationCancels \cup ({attemptCancel} \ {Nobody})]
      BY <1>5, <2>2 DEF Revoke, Forget
    <3>2. takeGenerationCancels = held
      BY <1>0 DEF takeGenerationCancels, Bound, IInv, Contexts
    <3>3. held \subseteq taken'[r] /\ \A q \in Revokes : taken[q] \subseteq taken'[q]
      BY <3>1, <3>2 DEF IInv, TypeOK
    <3> QED
      BY <1>0, <1>3, <3>1, <3>2, <3>3 DEF IInv, Contexts
  <2> QED
    BY <2>1, <2>2
<1>6. ASSUME NEW r \in Revokes, NEW x \in taken[r], Cancel(r, x) PROVE Contexts'
  <2>1. \A y \in contexts : y \in held' \/ y \in cancelled' \/ \E q \in Revokes : y \in taken'[q]
    BY <1>6 DEF Cancel, IInv, TypeOK, Contexts
  <2> QED
    BY <1>3, <1>6, <2>1 DEF Cancel, connectVars, IInv, Contexts
<1>7. CASE UNCHANGED <<connectVars, contextVars, cancelled, taken>>
  BY <1>3, <1>7 DEF connectVars, IInv, Contexts
<1> QED
  BY <1>1, <1>2, <1>4, <1>5, <1>6, <1>7
  DEF Next, connectionVars, Disconnect, Close, Wait, WaitEnds, WaitTimesOut

(* The channel of a generation is closed when its last context ends, and a *)
(* new one is opened by the next context, which never was bound before.    *)
LEMMA ChannelsStep ==
  ASSUME IInv, TypeOK', [Next]_connectionVars PROVE Channels'
<1> USE DEF contextVars
<1>1. ASSUME NEW o \in Operations, NEW g \in Seen, Bind(o, g) PROVE Channels'
  <2>1. /\ g \in Generations /\ g # 0 /\ boundTo[o] = 0 /\ o \notin idle /\ o # Nobody
        /\ boundTo' = [boundTo EXCEPT ![o] = g] /\ contexts' = contexts \cup {o}
        /\ idle' = idle
    BY <1>1, SeenAreGenerations, NobodyIsNone DEF Bind, IInv, Channels
  <2>2. \A x \in Operations : boundTo'[x] = IF x = o THEN g ELSE boundTo[x]
    BY <2>1 DEF IInv, TypeOK
  <2>3. \A h \in Generations : h # g => (Bound(h))' \subseteq Bound(h)
    BY <2>1, <2>2 DEF Bound, IInv, TypeOK
  <2>4. \A h \in Generations : done'[h] = done[h] \/ (h = g /\ done'[h] = o)
    <3>1. done' = done \/ done' = [done EXCEPT ![g] = o]
      BY <1>1 DEF Bind
    <3>2. DOMAIN done = Generations
      BY DEF IInv, TypeOK
    <3> QED
      BY <3>1, <3>2
  <2>5. done'[g] # Nobody
    <3>1. CASE Bound(g) \cap held = {}
      BY <1>1, <2>1, <3>1 DEF Bind, IInv, TypeOK
    <3>2. CASE Bound(g) \cap held # {}
      BY <1>1, <2>1, <3>2 DEF Bind, IInv, Channels
    <3> QED
      BY <3>1, <3>2
  <2>6. \A h \in Generations : done'[h] # Nobody => boundTo'[done'[h]] = h
    <3>1. \A h \in Generations : done[h] # Nobody => done[h] \in Operations /\ boundTo[done[h]] = h
      BY DEF IInv, TypeOK, Channels
    <3>2. 0 \notin Generations
      BY ZeroIsNone
    <3> QED
      BY <2>1, <2>2, <2>4, <3>1, <3>2
  <2>7. \A h \in Generations : done'[h] = Nobody => (Bound(h))' = {}
    BY <2>1, <2>3, <2>4, <2>5 DEF IInv, Channels
  <2>8. \A x \in idle : boundTo'[x] # 0
    BY <2>1, <2>2 DEF IInv, TypeOK, Channels
  <2> QED
    BY <2>1, <2>4, <2>6, <2>7, <2>8 DEF IInv, Channels
<1>2. ASSUME NEW o \in Operations, Release(o) PROVE Channels'
  <2>1. /\ o \in contexts /\ boundTo[o] \in Generations
        /\ boundTo' = boundTo /\ contexts' = contexts \ {o}
    BY <1>2 DEF Release, IInv, Contexts
  <2>2. \A h \in Generations : (Bound(h))' = Bound(h) \ {o}
    BY <2>1 DEF Bound
  <2>3. CASE IsLast(o) /\ done[boundTo[o]] # Nobody
    <3>1. /\ idle' = idle \cup {done[boundTo[o]]}
          /\ done' = [done EXCEPT ![boundTo[o]] = Nobody]
      BY <1>2, <2>3 DEF Release
    <3>2. PICK g \in Generations : g = boundTo[o]
      BY <2>1
    <3>3. (Bound(g))' = {}
      BY <2>2, <2>3, <3>2 DEF IsLast
    <3>4. \A h \in Generations : done'[h] = IF h = g THEN Nobody ELSE done[h]
      BY <3>1, <3>2 DEF IInv, TypeOK
    <3> QED
      BY <2>1, <2>2, <2>3, <3>1, <3>2, <3>3, <3>4, ZeroIsNone DEF IInv, Channels
  <2>4. CASE ~(IsLast(o) /\ done[boundTo[o]] # Nobody)
    BY <1>2, <2>1, <2>2, <2>4 DEF Release, IInv, Channels
  <2> QED
    BY <2>3, <2>4
<1>3. CASE UNCHANGED <<boundTo, contexts, done, idle>>
  BY <1>3 DEF IInv, Channels, Bound
<1> QED
  BY <1>1, <1>2, <1>3, OtherSteps

(* A teardown waits for a generation that is over: nothing is bound to it  *)
(* any more, and the channel it read is closed when the last context ends. *)
LEMMA BarriersStep ==
  ASSUME IInv, TypeOK', Contexts', [Next]_connectionVars PROVE Barriers' /\ BarrierHolds'
<1> USE DEF contextVars
<1>0. (Bound(0))' = {}
  BY ZeroIsNone DEF Bound, Contexts
<1>1. \A g : Over(g) => Over(g)'
  BY OverStays
<1>2. ASSUME UNCHANGED waits,
             \A g \in Generations : Over(g) /\ Bound(g) = {} => (Bound(g))' = {},
             \A g \in Generations, ch \in Operations :
               /\ boundTo[ch] = g => boundTo'[ch] = g
               /\ Over(g) /\ ch \in idle' /\ ch \notin idle /\ boundTo[ch] = g /\ done[g] = ch
                    => (Bound(g))' = {}
               /\ ch \in idle => ch \in idle'
               /\ Over(g) /\ done[g] = ch => done'[g] = ch \/ ch \in idle'
      PROVE  Barriers' /\ BarrierHolds'
  <2> SUFFICES ASSUME NEW w \in Waits, waits[w].at # "idle",
                      NEW g, g = waits[w].generation,
                      NEW channel, channel = waits[w].channel
               PROVE  /\ g = 0 \/ Over(g)'
                      /\ waits[w].at = "passed" => (Bound(g))' = {}
                      /\ waits[w].at = "waiting" =>
                           /\ Over(g)' /\ channel # Nobody /\ boundTo'[channel] = g
                           /\ channel \in idle' => (Bound(g))' = {}
                           /\ channel \notin idle' => done'[g] = channel
    <3>1. \A w \in Waits : waits'[w] = waits[w]
      BY <1>2
    <3>2. ASSUME NEW w \in Waits, waits[w].at = "passed" PROVE (Bound(waits[w].generation))' = {}
      BY <1>2, <3>2 DEF Bound
    <3> QED
      BY <1>2, <3>1, <3>2 DEF Barriers, BarrierHolds, Over, Bound
  <2>1. g # 0 => Over(g) /\ g \in Generations
    BY DEF IInv, Barriers, Over
  <2>2. channel \in Operations \cup {Nobody}
    BY DEF IInv, TypeOK
  <2>3. CASE waits[w].at = "passed"
    BY <1>0, <1>1, <1>2, <2>1, <2>3 DEF IInv, BarrierHolds
  <2>4. CASE waits[w].at = "waiting"
    <3>1. /\ channel \in Operations /\ boundTo[channel] = g /\ Over(g) /\ g \in Generations
          /\ channel \in idle => Bound(g) = {}
          /\ channel \notin idle => done[g] = channel
      BY <2>2, <2>4 DEF IInv, Barriers, Over
    <3> QED
      BY <1>1, <1>2, <2>1, <2>4, <3>1, NobodyIsNone
  <2> QED
    BY <1>1, <2>1, <2>3, <2>4
<1>3. ASSUME NEW o \in Operations, NEW g \in Seen, Bind(o, g) PROVE Barriers' /\ BarrierHolds'
  <2>1. /\ g = liveGeneration /\ boundTo[o] = 0 /\ g # 0
        /\ boundTo' = [boundTo EXCEPT ![o] = g] /\ contexts' = contexts \cup {o}
        /\ UNCHANGED <<idle, waits>>
        /\ \A h \in Generations \ {g} : done'[h] = done[h]
    BY <1>3, SeenAreGenerations DEF Bind, Live, IInv, TypeOK
  <2>2. \A x \in Operations : boundTo'[x] = IF x = o THEN g ELSE boundTo[x]
    BY <2>1 DEF IInv, TypeOK
  <2>3. \A h \in Generations \ {g} : (Bound(h))' \subseteq Bound(h)
    BY <2>1, <2>2 DEF Bound, IInv, TypeOK
  <2>4. \A h : Over(h) => h # g
    BY <2>1 DEF Over
  <2> QED
    BY <1>2, <2>1, <2>2, <2>3, <2>4, ZeroIsNone
<1>4. ASSUME NEW o \in Operations, Release(o) PROVE Barriers' /\ BarrierHolds'
  <2>1. /\ o \in contexts /\ UNCHANGED <<boundTo, waits>> /\ contexts' = contexts \ {o}
        /\ idle \subseteq idle'
    BY <1>4 DEF Release
  <2>2. PICK g \in Generations : g = boundTo[o]
    BY <2>1 DEF IInv, Contexts
  <2>3. \A h \in Generations : (Bound(h))' = Bound(h) \ {o}
    BY <2>1 DEF Bound
  <2>4. CASE IsLast(o) /\ done[g] # Nobody
    <3>1. idle' = idle \cup {done[g]} /\ \A h \in Generations \ {g} : done'[h] = done[h]
      BY <1>4, <2>2, <2>4 DEF Release, IInv, TypeOK
    <3>2. (Bound(g))' = {}
      BY <2>2, <2>3, <2>4 DEF IsLast
    <3>3. boundTo[done[g]] = g
      BY <2>4 DEF IInv, Channels
    <3> QED
      BY <1>2, <2>1, <2>3, <3>1, <3>2, <3>3
  <2>5. CASE ~(IsLast(o) /\ done[g] # Nobody)
    <3>1. UNCHANGED <<idle, done>>
      BY <1>4, <2>2, <2>5 DEF Release
    <3> QED
      BY <1>2, <2>1, <2>3, <3>1
  <2> QED
    BY <2>4, <2>5
<1>5. ASSUME UNCHANGED <<boundTo, contexts, done, idle, waits>> PROVE Barriers' /\ BarrierHolds'
  <2>1. \A g : (Bound(g))' = Bound(g)
    BY <1>5 DEF Bound
  <2> QED
    BY <1>2, <1>5, <2>1
<1>6. ASSUME NEW w \in Waits, UNCHANGED <<connectVars, contextVars>>,
             \A v \in Waits \ {w} : waits'[v] = waits[v],
             NEW g, g = waits'[w].generation, NEW channel, channel = waits'[w].channel,
             waits'[w].at # "idle" => g = 0 \/ Over(g),
             waits'[w].at = "passed" => Bound(g) = {},
             waits'[w].at = "waiting" =>
               /\ Over(g) /\ channel # Nobody /\ boundTo[channel] = g
               /\ channel \in idle => Bound(g) = {}
               /\ channel \notin idle => done[g] = channel
      PROVE  Barriers' /\ BarrierHolds'
  <2>1. \A h : (Bound(h))' = Bound(h) /\ (Over(h))' = Over(h)
    BY <1>6 DEF Bound, Over, connectVars
  <2> QED
    BY <1>6, <2>1 DEF IInv, Barriers, BarrierHolds, Over, Bound, connectVars
<1>7. ASSUME NEW w \in Waits, NEW g \in Seen, ~Live(g), Wait(w, g)
      PROVE  Barriers' /\ BarrierHolds'
  <2>1. Over(g)
    <3>1. g \in Generations /\ g # 0 /\ g <= nextGeneration
      BY SeenAreGenerations
    <3>2. g # liveGeneration
      BY <1>7, <3>1 DEF Live, IInv, Numbers
    <3>3. state = "connecting" => g < nextGeneration
      BY DEF Seen, IInv, Numbers
    <3> QED
      BY <3>1, <3>2, <3>3 DEF Over
  <2>2. /\ UNCHANGED <<connectVars, contextVars>>
        /\ \A v \in Waits \ {w} : waits'[v] = waits[v]
        /\ waits'[w] = [at |-> IF done[g] = Nobody THEN "passed" ELSE "waiting",
                        generation |-> g, channel |-> done[g]]
    BY <1>7, SeenAreGenerations DEF Wait, IInv, TypeOK
  <2>3. g \in Generations
    BY SeenAreGenerations
  <2> QED
    BY <1>6, <2>1, <2>2, <2>3 DEF IInv, Channels
<1>8. ASSUME NEW w \in Waits, Wait(w, 0) PROVE Barriers' /\ BarrierHolds'
  <2>1. /\ UNCHANGED <<connectVars, contextVars>>
        /\ \A v \in Waits \ {w} : waits'[v] = waits[v]
        /\ waits'[w] = [at |-> "passed", generation |-> 0, channel |-> Nobody]
    <3>1. waits' = [waits EXCEPT ![w] = [at |-> "passed", generation |-> 0, channel |-> Nobody]]
      BY <1>8 DEF Wait
    <3>2. DOMAIN waits = Waits
      BY DEF IInv, TypeOK
    <3>3. UNCHANGED <<connectVars, contextVars>>
      BY <1>8 DEF Wait
    <3> QED
      BY <3>1, <3>2, <3>3
  <2>2. Bound(0) = {}
    BY ZeroIsNone DEF Bound, IInv, Contexts
  <2> QED
    BY <1>6, <2>1, <2>2
<1>9. ASSUME NEW w \in Waits, WaitEnds(w) \/ WaitTimesOut(w) PROVE Barriers' /\ BarrierHolds'
  <2>1. /\ UNCHANGED <<connectVars, contextVars>>
        /\ \A v \in Waits \ {w} : waits'[v] = waits[v]
        /\ waits[w].at = "waiting"
        /\ waits'[w].generation = waits[w].generation
        /\ waits'[w].at = "timed out" \/ (waits'[w].at = "passed" /\ waits[w].channel \in idle)
    <3>1. TypeOK /\ UNCHANGED <<connectVars, contextVars>> /\ waits[w].at = "waiting"
      BY <1>9 DEF WaitEnds, WaitTimesOut, IInv
    <3>2. \/ waits' = [waits EXCEPT ![w].at = "timed out"]
          \/ waits' = [waits EXCEPT ![w].at = "passed"] /\ waits[w].channel \in idle
      BY <1>9 DEF WaitEnds, WaitTimesOut
    <3> QED
      BY <3>1, <3>2, WaitMoves
  <2>2. Over(waits[w].generation)
    BY <2>1 DEF IInv, Barriers
  <2>3. waits'[w].at = "passed" => Bound(waits[w].generation) = {}
    BY <2>1 DEF IInv, Barriers
  <2> QED
    BY <1>6, <2>1, <2>2, <2>3
<1> QED
  BY <1>3, <1>4, <1>5, <1>7, <1>8, <1>9
  DEF Next, connectionVars, BeginConnect, FinishConnect, Disconnect, Close, Revoke, Cancel

(* Every step, and a stutter, keeps the inductive invariant.               *)
LEMMA StepIInv == IInv /\ [Next]_connectionVars => IInv'
<1> SUFFICES ASSUME IInv, [Next]_connectionVars PROVE IInv'
  OBVIOUS
<1>1. TypeOK'
  BY TypeStep
<1> QED
  BY <1>1, DrawnOnceStep, DrawnStep, OneProbeCountsStep, NumbersStep, ToldStep, ContextsStep,
     ChannelsStep, BarriersStep DEF IInv

(* The inductive invariant holds in every reachable state.                 *)
LEMMA Inductive == Spec => []IInv
BY InitIInv, StepIInv, PTL DEF Spec

(* A generation becomes live only after all that anybody was told of.      *)
LEMMA NewerIsLive ==
  ASSUME IInv, [Next]_connectionVars, liveGeneration' \notin {0, liveGeneration}
  PROVE  \A c \in Connects : answer[c] < liveGeneration'
<1>1. state = "connecting" /\ liveGeneration' = nextGeneration
  BY LiveSteps
<1> QED
  BY <1>1 DEF IInv, Numbers

(* What a caller was told of stays told, and once it is not live it is not *)
(* live again.                                                             *)
LEMMA SeenStays ==
  ASSUME IInv, [Next]_connectionVars, NEW g \in Seen
  PROVE  g \in Seen' /\ (g # liveGeneration => g # liveGeneration')
<1>0. /\ state \in {"disconnected", "connecting", "ready", "closed"}
      /\ answer \in [Connects -> Nat]
  BY DEF IInv, TypeOK
<1>1. PICK c \in Connects : g = answer[c] /\ g # 0
  BY DEF Seen
<1>2. at[c] \notin {"idle", "probing"}
  BY <1>1 DEF IInv, Told
<1>3. answer'[c] = answer[c]
  <2>1. ASSUME NEW d \in Connects, BeginConnect(d) \/ FinishConnect(d) PROVE answer'[c] = answer[c]
    <3>1. d # c
      BY <1>2, <2>1 DEF BeginConnect, FinishConnect
    <3>2. CASE BeginConnect(d)
      BY <1>0, <3>1, <3>2 DEF BeginConnect, Ends
    <3>3. CASE FinishConnect(d)
      BY <1>0, <3>1, <3>3 DEF FinishConnect, Ends
    <3> QED
      BY <2>1, <3>2, <3>3
  <2>2. ASSUME NEW r \in Revokes, NEW next \in {"disconnected", "closed"},
               state # "closed", Revoke(r, next)
        PROVE  answer'[c] = answer[c]
    BY <2>2 DEF Revoke
  <2> QED
    BY <2>1, <2>2, ConnectSteps DEF connectVars
<1>4. g \in Seen'
  BY <1>1, <1>3 DEF Seen
<1>5. liveGeneration' \notin {0, liveGeneration} => g # liveGeneration'
  <2>1. answer[c] \in Nat /\ liveGeneration' \in Nat
    BY TypeStep DEF IInv, TypeOK
  <2> QED
    BY <1>1, <2>1, NewerIsLive
<1> QED
  BY <1>1, <1>4, <1>5

-----------------------------------------------------------------------------
(* Theorems                                                                *)

(* A revoke reaches the probe that counts and every context of the         *)
(* generation it forgets, and a teardown that waited finds none left: for  *)
(* any number of connects, operations, revokes and teardowns.              *)
THEOREM EveryRevokeReaches == Spec => []RevokesReachEverything
<1>1. ASSUME IInv PROVE RevokedContextsAreCancelled
  <2>1. \A o \in contexts : boundTo[o] # liveGeneration => o \notin held
    BY <1>1 DEF IInv, Contexts
  <2> QED
    BY <1>1, <2>1 DEF IInv, Contexts, RevokedContextsAreCancelled
<1>2. IInv => RevokesReachEverything
  BY <1>1 DEF IInv, RevokesReachEverything
<1> QED
  BY <1>2, Inductive, PTL

(* A generation that a caller was told of is never made live again, so no  *)
(* capability minted for it becomes valid again.                           *)
THEOREM GenerationsAreNotRevived == Spec => NeverRevived
<1>1. IInv /\ [Next]_connectionVars =>
        [liveGeneration' \notin {0, liveGeneration}
           => \A c \in Connects : answer[c] < liveGeneration']_connectionVars
  BY NewerIsLive
<1> QED
  BY <1>1, Inductive, PTL DEF NeverRevived, Spec

=============================================================================
