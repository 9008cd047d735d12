---------------------------- MODULE RemoteBroker ----------------------------
(***************************************************************************)
(* The broker of one remote task (src/internal/appservice/remotebroker.go):*)
(* a socket through which the tools of the local Pi reach the remote host. *)
(* serve accepts connections, a handler reads one request from each,       *)
(* executes and answers it, StartSession waits for the handshake, and Close*)
(* may come at any time.  RemoteTask says who calls these.                 *)
(*                                                                         *)
(* Who knows the token is the Pi that was launched, or a child of it, and  *)
(* either may hang up, or never send.  Left out: the bytes of requests and *)
(* answers, and what an operation does on the remote host.                 *)
(***************************************************************************)
EXTENDS Naturals, FiniteSets

CONSTANTS
  Dials,        \* connections to the socket
  MaxHandlers,  \* remoteBrokerMaxConcurrent
  Descendants   \* a child of Pi counts as Pi (remoteBrokerPeerMatches of Windows)

VARIABLES
  stage,      \* of Close: "open", "cancelled", "swept", "late", "closed"
  lease,      \* the context of the task lease has not ended
  handshake,  \* handshakeErr and handshakePeer, once handshakeDone is closed
  launcher,   \* waitHandshake: "awaited", "launched" (the PID is set), "gone"
  serve,      \* the goroutine of serve
  running,    \* wg
  dial        \* the connections, and the goroutines that handle them

brokerVars == <<stage, lease, handshake, launcher, serve, running, dial>>

NoDial == [at |-> "none", peer |-> "none", op |-> "none", open |-> TRUE,
           tracked |-> FALSE, told |-> TRUE]

BrokerInit ==
  /\ stage = "open" /\ lease = TRUE
  /\ handshake = [result |-> "none", peer |-> "none"]
  /\ launcher = "awaited"
  /\ serve = "accepting" /\ running = 1
  /\ dial = [d \in Dials |-> NoDial]

-----------------------------------------------------------------------------
(* Building blocks.                                                        *)
Lives == stage = "open" /\ lease                    \* broker.ctx
Handlers == {d \in Dials : dial[d].at \notin {"none", "backlog", "accepted", "gone"}}
PeerMatches(p) == p = "pi" \/ (Descendants /\ p = "child")
DialMoves(d, l) == dial' = [dial EXCEPT ![d].at = l]
Handles(d, op, l) == dial' = [dial EXCEPT ![d].at = l, ![d].op = op]
DialGone(d) == [dial EXCEPT ![d].at = "gone", ![d].open = FALSE, ![d].tracked = FALSE]

-----------------------------------------------------------------------------
(* serve: one connection at a time.  With room for a handler and the end of*)
(* the context both at hand, select may take either.                       *)
Dial(d, p) ==
  /\ dial[d].at = "none" /\ stage = "open"
  /\ dial' = [dial EXCEPT ![d].at = "backlog", ![d].peer = p]
  /\ UNCHANGED <<stage, lease, handshake, launcher, serve, running>>

Accept(d) ==
  /\ dial[d].at = "backlog" /\ serve = "accepting" /\ stage = "open"
  /\ DialMoves(d, "accepted") /\ serve' = "holding"
  /\ UNCHANGED <<stage, lease, handshake, launcher, running>>

Admit(d) ==
  /\ dial[d].at = "accepted" /\ Cardinality(Handlers) < MaxHandlers
  /\ DialMoves(d, "admitted")
  /\ UNCHANGED <<stage, lease, handshake, launcher, serve, running>>

Refuse(d) ==
  /\ dial[d].at = "accepted" /\ Lives /\ Cardinality(Handlers) >= MaxHandlers
  /\ dial' = DialGone(d) /\ serve' = "accepting"
  /\ UNCHANGED <<stage, lease, handshake, launcher, running>>

StopServing(d) ==
  /\ dial[d].at = "accepted" /\ ~Lives
  /\ dial' = DialGone(d) /\ serve' = "ended" /\ running' = running - 1
  /\ UNCHANGED <<stage, lease, handshake, launcher>>

(* The connection is entered in conns, and its handler started.            *)
Track(d) ==
  /\ dial[d].at = "admitted"
  /\ dial' = [dial EXCEPT ![d].at = "reading", ![d].tracked = TRUE]
  /\ serve' = "accepting" /\ running' = running + 1
  /\ UNCHANGED <<stage, lease, handshake, launcher>>

ServeEnds ==
  /\ serve = "accepting" /\ stage # "open"
  /\ serve' = "ended" /\ running' = running - 1
  /\ UNCHANGED <<stage, lease, handshake, launcher, dial>>

-----------------------------------------------------------------------------
(* handle.  A request that cannot be read, in five seconds or at all, or   *)
(* that lacks the token, is refused.                                       *)
InvalidRequest(d) ==
  /\ dial[d].at = "reading" /\ Handles(d, "none", "answering")
  /\ UNCHANGED <<stage, lease, handshake, launcher, serve, running>>

ReadRequest(d, op) ==
  /\ dial[d].at = "reading" /\ dial[d].open /\ Handles(d, op, "deciding")
  /\ UNCHANGED <<stage, lease, handshake, launcher, serve, running>>

(* Mutant: the Pi of the launch is not asked for, only the handshake.      *)
AllowedOnceGreeted(d) == handshake.result = "good"

(* execute: every operation but the handshake is for the Pi of the launch, *)
(* after its handshake.  The runtime refuses it once the context ended.    *)
Allowed(d) ==
  /\ handshake.result = "good"
  /\ launcher = "launched" /\ PeerMatches(dial[d].peer)

Execute(d) ==
  /\ dial[d].at = "deciding" /\ dial[d].op \in {"query", "mutation"}
  /\ DialMoves(d, IF Allowed(d) /\ Lives THEN "remote" ELSE "answering")
  /\ UNCHANGED <<stage, lease, handshake, launcher, serve, running>>

(* Its result, or its error when the client hangs up or the context ends.  *)
Executed(d) ==
  /\ dial[d].at = "remote" /\ DialMoves(d, "answering")
  /\ UNCHANGED <<stage, lease, handshake, launcher, serve, running>>

(* completeHandshake: the first result stays.                              *)
CompleteHandshake(result, p) ==
  handshake' = IF handshake.result # "none" THEN handshake
               ELSE [result |-> result, peer |-> p]

(* A handshake that lacks the coverage fails, one of another process than  *)
(* the first is refused, the others ask the runtime for the root.          *)
Hello(d) ==
  /\ dial[d].at = "deciding" /\ dial[d].op \in {"hello", "bad hello"}
  /\ IF dial[d].op = "bad hello"
     THEN CompleteHandshake("bad", "none") /\ DialMoves(d, "answering")
     ELSE /\ DialMoves(d, IF \/ handshake.result = "none"
                         \/ handshake = [result |-> "good", peer |-> dial[d].peer]
                      THEN "asking" ELSE "answering")
          /\ UNCHANGED handshake
  /\ UNCHANGED <<stage, lease, launcher, serve, running>>

HelloEnds(d) ==
  /\ dial[d].at = "asking" /\ DialMoves(d, "answering")
  /\ \/ Lives /\ CompleteHandshake("good", dial[d].peer)
     \/ CompleteHandshake("bad", "none")
  /\ UNCHANGED <<stage, lease, launcher, serve, running>>

(* Mutant: an unanswered mutation leaves the connection.                   *)
NoMutation(op) == FALSE

(* The answer, and the end of the handler.  A client that may have missed  *)
(* the answer of a mutation is in doubt, so the runtime is disconnected.   *)
remoteBrokerMutation(op) == op = "mutation"

Answer(d) ==
  /\ dial[d].at = "answering"
  /\ \E told \in BOOLEAN :
       /\ told => dial[d].open
       /\ lease' = (lease /\ (told \/ ~remoteBrokerMutation(dial[d].op)))
       /\ dial' = [DialGone(d) EXCEPT ![d].told = told]
  /\ running' = running - 1
  /\ UNCHANGED <<stage, handshake, launcher, serve>>

-----------------------------------------------------------------------------
(* waitHandshake of StartSession, and its deadline.                        *)
WaitHandshake ==
  /\ launcher = "awaited" /\ handshake.result # "none"
  /\ launcher' = IF handshake.result = "good" /\ PeerMatches(handshake.peer)
                 THEN "launched" ELSE "gone"
  /\ UNCHANGED <<stage, lease, handshake, serve, running, dial>>

GiveUpWaiting ==
  /\ launcher = "awaited" /\ launcher' = "gone"
  /\ UNCHANGED <<stage, lease, handshake, serve, running, dial>>

(* Close: the context is cancelled and the listener closed, then what conns*)
(* holds; the goroutines are waited for, five seconds at most.  What goes  *)
(* on later removes the directory.                                         *)
CloseListener ==
  /\ stage = "open" /\ stage' = "cancelled"
  /\ dial' = [d \in Dials |-> IF dial[d].at = "backlog"
                              THEN [dial[d] EXCEPT !.at = "gone", !.open = FALSE] ELSE dial[d]]
  /\ UNCHANGED <<lease, handshake, launcher, serve, running>>

(* Mutant: only the goroutine of serve is waited for.                      *)
WaitForServe ==
  /\ \/ stage \in {"swept", "late"} /\ serve = "ended" /\ stage' = "closed"
     \/ stage = "swept" /\ stage' = "late"
  /\ UNCHANGED <<lease, handshake, launcher, serve, running, dial>>

CloseConnections ==
  /\ stage = "cancelled" /\ stage' = "swept"
  /\ dial' = [d \in Dials |-> IF dial[d].tracked THEN [dial[d] EXCEPT !.open = FALSE] ELSE dial[d]]
  /\ UNCHANGED <<lease, handshake, launcher, serve, running>>

Wait ==
  /\ \/ stage \in {"swept", "late"} /\ running = 0 /\ stage' = "closed"
     \/ stage = "swept" /\ stage' = "late"
  /\ UNCHANGED <<lease, handshake, launcher, serve, running, dial>>

(* The lease ends: the connection is lost, or the task was stopped.        *)
LeaseEnds ==
  /\ lease /\ lease' = FALSE
  /\ UNCHANGED <<stage, handshake, launcher, serve, running, dial>>

-----------------------------------------------------------------------------
BrokerNext ==
  \/ \E d \in Dials, p \in {"pi", "child"} : Dial(d, p)
  \/ \E d \in Dials, op \in {"hello", "bad hello", "query", "mutation"} : ReadRequest(d, op)
  \/ \E d \in Dials :
       \/ Accept(d) \/ Admit(d) \/ Refuse(d) \/ StopServing(d) \/ Track(d) \/ InvalidRequest(d)
       \/ Execute(d) \/ Executed(d) \/ Hello(d) \/ HelloEnds(d) \/ Answer(d)
  \/ ServeEnds \/ WaitHandshake \/ GiveUpWaiting
  \/ CloseListener \/ CloseConnections \/ Wait \/ LeaseEnds

BrokerSpec == BrokerInit /\ [][BrokerNext]_brokerVars

-----------------------------------------------------------------------------
(* An operation on the remote host is in progress only for the Pi process  *)
(* that was launched, once a handshake of this process has shown that its  *)
(* tools are the remote ones.                                              *)
OnlyItsPiIsServed ==
  \A d \in Dials : dial[d].at = "remote" =>
    /\ handshake.result = "good" /\ launcher = "launched"
    /\ ~Descendants => dial[d].peer = "pi" /\ handshake.peer = "pi"

(* Once the goroutines were waited for, none is left and none will start:  *)
(* no request is read any more, and the directory may go.                  *)
ClosedIsQuiet ==
  stage = "closed" =>
    /\ serve = "ended"
    /\ \A d \in Dials : dial[d].at \in {"none", "gone"}

(* A mutation whose answer did not reach the client leaves the task no live*)
(* lease, under which Pi could go on.                                      *)
DoubtDisconnects ==
  \A d \in Dials : dial[d].op = "mutation" /\ ~dial[d].told => ~lease

BrokerServesItsPi == OnlyItsPiIsServed /\ ClosedIsQuiet /\ DoubtDisconnects
=============================================================================
