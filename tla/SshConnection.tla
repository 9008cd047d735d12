---------------------------- MODULE SshConnection ----------------------------
(***************************************************************************)
(* The connection supervisor of one SSH target                             *)
(* (src/internal/remotessh/supervisor.go).                                 *)
(*                                                                         *)
(* A successful preflight makes a generation live.  Operations bind their  *)
(* context to the live generation and release it when they end; a revoke   *)
(* takes the contexts of the live generation out under the lock and        *)
(* cancels them after it.  Every invocation of Connect, of                 *)
(* bindGenerationContext, of Disconnect or Close and of                    *)
(* WaitForGenerationIdle is a value of a constant set.  The actions change *)
(* the variables of this module only, so that RuntimeLease can compose     *)
(* them with its own.                                                      *)
(***************************************************************************)
EXTENDS Naturals, FiniteSets

CONSTANTS
  Connects,    \* invocations of Connect
  Operations,  \* invocations of bindGenerationContext
  Revokes,     \* invocations of Disconnect and of Close
  Waits,       \* invocations of WaitForGenerationIdle
  Nobody       \* none of them

ASSUME NobodyIsNone == Nobody \notin Connects \cup Operations
ASSUME ConnectsFinite == IsFiniteSet(Connects)

VARIABLES
  state,           \* supervisor.state
  nextGeneration,  \* supervisor.nextGeneration
  liveGeneration,  \* supervisor.liveGeneration, 0 for none
  attempt,         \* supervisor.attempt
  attemptCancel,   \* the Connect whose cancel function is held, or Nobody
  at,              \* where each Connect is
  attemptOf,       \* the attempt number each Connect drew
  answer,          \* the generation each Connect returned, 0 for none
  boundTo,         \* the generation each operation was bound to, 0 for none
  contexts,        \* operations bound and not released
  held,            \* operations whose cancel function is in generationCancels
  done,            \* generationDone: the operation that made the channel
  idle,            \* the channels that are closed
  cancelled,       \* Connects and operations whose context is cancelled
  taken,           \* cancel functions each revoke has still to call
  waits            \* what each WaitForGenerationIdle does

connectVars == <<state, nextGeneration, liveGeneration, attempt, attemptCancel,
                 at, attemptOf, answer>>
contextVars == <<boundTo, contexts, held, done, idle>>
connectionVars == <<connectVars, contextVars, cancelled, taken, waits>>

Generations == 1 .. Cardinality(Connects)

Init ==
  /\ state = "disconnected"
  /\ nextGeneration = 0 /\ liveGeneration = 0
  /\ attempt = 0 /\ attemptCancel = Nobody
  /\ at = [c \in Connects |-> "idle"]
  /\ attemptOf = [c \in Connects |-> 0]
  /\ answer = [c \in Connects |-> 0]
  /\ boundTo = [o \in Operations |-> 0]
  /\ contexts = {} /\ held = {} /\ idle = {} /\ cancelled = {}
  /\ done = [g \in Generations |-> Nobody]
  /\ taken = [r \in Revokes |-> {}]
  /\ waits = [w \in Waits |-> [at |-> "idle", generation |-> 0, channel |-> Nobody]]

Bound(g) == {o \in contexts : boundTo[o] = g}

Ends(c, how, generation) ==
  /\ at' = [at EXCEPT ![c] = how]
  /\ answer' = [answer EXCEPT ![c] = generation]

-----------------------------------------------------------------------------
(* Connect: beginConnect, the probe outside the lock, finishConnect.       *)

(* Mutant: a reconnect draws the same generation.                          *)
DrawAgain(c) ==
  /\ nextGeneration' = IF nextGeneration = 0 THEN 1 ELSE nextGeneration
  /\ attempt' = attempt + 1
  /\ attemptOf' = [attemptOf EXCEPT ![c] = attempt']
  /\ attemptCancel' = c

Draw(c) ==
  /\ nextGeneration' = nextGeneration + 1
  /\ attempt' = attempt + 1
  /\ attemptOf' = [attemptOf EXCEPT ![c] = attempt']
  /\ attemptCancel' = c

BeginConnect(c) ==
  /\ at[c] = "idle"
  /\ CASE state \in {"closed", "connecting"} ->
            Ends(c, "failed", 0)
            /\ UNCHANGED <<state, nextGeneration, liveGeneration, attempt,
                           attemptCancel, attemptOf>>
       [] state = "ready" ->
            Ends(c, "connected", liveGeneration)
            /\ UNCHANGED <<state, nextGeneration, liveGeneration, attempt,
                           attemptCancel, attemptOf>>
       [] state = "disconnected" ->
            /\ Draw(c)
            /\ state' = "connecting"
            /\ liveGeneration' = 0
            /\ Ends(c, "probing", 0)
  /\ UNCHANGED <<contextVars, cancelled, taken, waits>>

(* The probe may succeed although its context was cancelled meanwhile; an  *)
(* incomplete preflight is an error as the others are.                     *)
FinishConnect(c) ==
  /\ at[c] = "probing"
  /\ IF state # "connecting" \/ attempt # attemptOf[c]
       THEN Ends(c, "failed", 0) /\ UNCHANGED <<state, liveGeneration, attemptCancel>>
       ELSE /\ attemptCancel' = Nobody
            /\ \/ /\ liveGeneration' = nextGeneration
                  /\ state' = "ready"
                  /\ Ends(c, "connected", nextGeneration)
               \/ /\ state' = "disconnected"
                  /\ Ends(c, "failed", 0)
                  /\ UNCHANGED liveGeneration
  /\ cancelled' = cancelled \cup {c}
  /\ UNCHANGED <<nextGeneration, attempt, attemptOf, contextVars, taken, waits>>

-----------------------------------------------------------------------------
(* bindGenerationContext and the release function it returns               *)

Live(g) == g # 0 /\ state = "ready" /\ liveGeneration = g

Bind(o, g) ==
  /\ boundTo[o] = 0 /\ Live(g)
  /\ boundTo' = [boundTo EXCEPT ![o] = g]
  /\ contexts' = contexts \cup {o}
  /\ held' = held \cup {o}
  /\ done' = IF Bound(g) \cap held = {} THEN [done EXCEPT ![g] = o] ELSE done
  /\ UNCHANGED <<connectVars, idle, cancelled, taken, waits>>

(* Mutants: every release closes the channel; the release looks at         *)
(* generationCancels, which a revoke has emptied, instead of at its map.   *)
IsFirst(o) == TRUE

IsLastHeld(o) == Bound(boundTo[o]) \cap held = {o}

IsLast(o) == Bound(boundTo[o]) = {o}

(* Mutant: the cancel function is kept.                                    *)
ReleaseKeepsCancel(o) ==
  /\ o \in contexts
  /\ cancelled' = cancelled \cup {o}
  /\ contexts' = contexts \ {o}
  /\ UNCHANGED <<connectVars, boundTo, held, idle, done, taken, waits>>

Release(o) ==
  LET g == boundTo[o] IN
  /\ o \in contexts
  /\ cancelled' = cancelled \cup {o}
  /\ contexts' = contexts \ {o}
  /\ held' = held \ {o}
  /\ IF IsLast(o) /\ done[g] # Nobody
       THEN idle' = idle \cup {done[g]} /\ done' = [done EXCEPT ![g] = Nobody]
       ELSE UNCHANGED <<idle, done>>
  /\ UNCHANGED <<connectVars, boundTo, taken, waits>>

-----------------------------------------------------------------------------
(* Disconnect and Close, and the barrier after them                        *)

(* Mutant: the generation is forgotten before its contexts are taken.      *)
takeNoCancels == {}

takeGenerationCancels ==
  IF liveGeneration = 0 THEN {} ELSE Bound(liveGeneration) \cap held

(* Mutant: the attempt in flight is not invalidated.                       *)
ForgetGeneration(next) ==
  /\ state' = next /\ liveGeneration' = 0
  /\ attempt' = attempt /\ attemptCancel' = Nobody

Forget(next) ==
  /\ state' = next /\ liveGeneration' = 0
  /\ attempt' = attempt + 1 /\ attemptCancel' = Nobody

Revoke(r, next) ==
  /\ IF state = "closed"
       THEN UNCHANGED <<connectVars, held, taken>>
       ELSE /\ taken' = [taken EXCEPT ![r] =
                 @ \cup takeGenerationCancels \cup ({attemptCancel} \ {Nobody})]
            /\ held' = held \ takeGenerationCancels
            /\ Forget(next)
            /\ UNCHANGED <<nextGeneration, at, attemptOf, answer>>
  /\ UNCHANGED <<boundTo, contexts, done, idle, cancelled, waits>>

Disconnect(r) == Revoke(r, "disconnected")

Close(r) == Revoke(r, "closed")

Cancel(r, x) ==
  /\ x \in taken[r]
  /\ taken' = [taken EXCEPT ![r] = @ \ {x}]
  /\ cancelled' = cancelled \cup {x}
  /\ UNCHANGED <<connectVars, contextVars, waits>>

(* WaitForGenerationIdle reads the channel under the lock, then waits.     *)
Wait(w, g) ==
  /\ waits[w].at = "idle"
  /\ waits' = [waits EXCEPT ![w] =
       [at |-> IF g = 0 \/ done[g] = Nobody THEN "passed" ELSE "waiting",
        generation |-> g,
        channel |-> IF g = 0 THEN Nobody ELSE done[g]]]
  /\ UNCHANGED <<connectVars, contextVars, cancelled, taken>>

WaitEnds(w) ==
  /\ waits[w].at = "waiting" /\ waits[w].channel \in idle
  /\ waits' = [waits EXCEPT ![w].at = "passed"]
  /\ UNCHANGED <<connectVars, contextVars, cancelled, taken>>

WaitTimesOut(w) ==
  /\ waits[w].at = "waiting"
  /\ waits' = [waits EXCEPT ![w].at = "timed out"]
  /\ UNCHANGED <<connectVars, contextVars, cancelled, taken>>

-----------------------------------------------------------------------------
(* The callers of WaitForGenerationIdle have seen the generation ready, or *)
(* none, and have disconnected it since (runtime_supervisor.go:650-656).   *)
Seen == {answer[c] : c \in Connects} \ {0}

Next ==
  \/ \E c \in Connects : BeginConnect(c) \/ FinishConnect(c)
  \/ \E o \in Operations : Release(o) \/ \E g \in Seen : Bind(o, g)
  \/ \E r \in Revokes :
       \/ Disconnect(r) \/ Close(r)
       \/ \E x \in taken[r] : Cancel(r, x)
  \/ \E w \in Waits :
       WaitEnds(w) \/ WaitTimesOut(w) \/ \E g \in Seen \cup {0} : ~Live(g) /\ Wait(w, g)

Spec == Init /\ [][Next]_connectionVars

(* A revoke calls the functions it has taken, and an operation whose       *)
(* context is cancelled gives up and releases it.                          *)
Fairness ==
  /\ \A r \in Revokes : WF_connectionVars(\E x \in taken[r] : Cancel(r, x))
  /\ \A o \in Operations : WF_connectionVars(o \in cancelled /\ Release(o))
  /\ \A w \in Waits : WF_connectionVars(WaitEnds(w))

FairSpec == Spec /\ Fairness

-----------------------------------------------------------------------------
(* Properties *)

(* Every variable keeps its type.                                          *)
TypeOK ==
  /\ state \in {"disconnected", "connecting", "ready", "closed"}
  /\ nextGeneration \in Nat /\ liveGeneration \in Nat /\ attempt \in Nat
  /\ attemptCancel \in Connects \cup {Nobody}
  /\ at \in [Connects -> {"idle", "probing", "connected", "failed"}]
  /\ attemptOf \in [Connects -> Nat] /\ answer \in [Connects -> Nat]
  /\ boundTo \in [Operations -> Nat]
  /\ contexts \subseteq Operations /\ held \subseteq contexts
  /\ done \in [Generations -> Operations \cup {Nobody}]
  /\ idle \subseteq Operations
  /\ cancelled \subseteq Connects \cup Operations
  /\ taken \in [Revokes -> SUBSET (Connects \cup Operations)]
  /\ waits \in [Waits -> [at : {"idle", "waiting", "passed", "timed out"},
                          generation : Nat, channel : Operations \cup {Nobody}]]

(* While the target is connecting exactly one probe counts, and it is the  *)
(* one a revoke would cancel; the others were revoked                      *)
(* (supervisor.go:141-196, :235-264).                                      *)
OneProbeCounts ==
  LET counting == {c \in Connects : at[c] = "probing" /\ attemptOf[c] = attempt} IN
  /\ state = "connecting" => attemptCancel # Nobody /\ counting = {attemptCancel}
  /\ state # "connecting" => counting = {}

(* A generation that a caller was told of never becomes live again, so a   *)
(* capability minted for it stays revoked.                                 *)
NeverRevived ==
  [][liveGeneration' \notin {0, liveGeneration}
       => \A c \in Connects : answer[c] < liveGeneration']_connectionVars

(* Every context still bound to a generation that is no longer live is     *)
(* cancelled, or a revoke is on its way to cancel it.                      *)
RevokedContextsAreCancelled ==
  \A o \in contexts :
    boundTo[o] # liveGeneration => o \in cancelled \/ \E r \in Revokes : o \in taken[r]

(* The teardown barrier: once WaitForGenerationIdle has returned for a     *)
(* generation that was disconnected, no operation is bound to it.          *)
BarrierHolds ==
  \A w \in Waits : waits[w].at = "passed" => Bound(waits[w].generation) = {}

(* A revoke reaches the one probe that counts and every context of the     *)
(* generation, and its barrier holds until they have ended.                *)
RevokesReachEverything ==
  /\ TypeOK
  /\ OneProbeCounts
  /\ RevokedContextsAreCancelled
  /\ BarrierHolds

(* The barrier opens, without its timeout, when cancelled operations end:  *)
(* the release of the last one closes the channel waited on, although the  *)
(* revoke has already emptied generationCancels.                           *)
BarrierOpens ==
  \A w \in Waits :
    waits[w].at = "waiting" ~> waits[w].at # "waiting"

=============================================================================
