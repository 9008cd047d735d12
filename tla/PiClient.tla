------------------------------ MODULE PiClient ------------------------------
(***************************************************************************)
(* The JSON-RPC client of one Pi child process                             *)
(* (src/internal/pirpc/client.go).                                         *)
(*                                                                         *)
(* Three kinds of goroutine share a Client: the callers of Call and Send,  *)
(* the goroutine readStdout, and the goroutine wait; Close may run at any  *)
(* time.  A response is matched with its caller through `pending`, whose   *)
(* entries leave it in four ways (answered, failed write, cancelled,       *)
(* closed).  Each critical section on pendingMu is one step; a channel     *)
(* send, which can block, is a step of its own.  The Pi process and its    *)
(* two pipes are the environment.                                          *)
(***************************************************************************)
EXTENDS Naturals, Sequences, FiniteSets

CONSTANTS
  Callers,        \* the invocations of Call and Send (a bound: each happens once)
  MaxAbandoned,   \* maxAbandonedRequestIDs
  PipeRoom,       \* records the stdin pipe holds before a write blocks
  MaxNoise,       \* bound: records of Pi that answer no call
  NoOne           \* a value that is no caller

ASSUME BoundsAreNat ==
  MaxAbandoned \in Nat /\ PipeRoom \in Nat \ {0} /\ MaxNoise \in Nat

VARIABLES
  calls,          \* the callers that run Call, named after their request id;
                  \* the others run Send, which is written and never answered
  pc,             \* where each caller is
  ret,            \* what each caller returned
  writeMu,        \* the holder of writeMu, or NoOne
  pending,        \* the requests in client.pending
  result,         \* the content of each request's result channel (capacity 1)
  abandoned,      \* client.abandoned
  abandonedOrder, \* client.abandonedOrder
  done,           \* client.done is closed (and closeErr set)
  finisher,       \* the goroutine that won closeOnce, or NoOne
  sweep,          \* the requests finish has taken and not yet notified
  swept,          \* finish has replaced client.pending
  at,             \* where the closer, the reader and the waiter are
  delivering,     \* the call whose answer the reader is about to send
  stdinOpen,      \* the client's end of stdin is open
  alive,          \* the Pi process runs
  heldOpen,       \* a descendant of Pi still holds the stdout pipe
  inbox,          \* records in the stdin pipe
  working,        \* requests Pi has read and not answered
  stdout,         \* records in the stdout pipe
  noise,          \* number of non-response records written
  flagged         \* calls whose answer was reported as a protocol error

callVars  == <<pc, ret, writeMu>>
tableVars == <<pending, abandoned, abandonedOrder>>
closeVars == <<done, finisher, sweep, swept>>
piVars    == <<stdinOpen, alive, heldOpen, inbox, working, stdout, noise>>
vars == <<calls, callVars, tableVars, result, closeVars, at, delivering, piVars, flagged>>

Actors == {"close", "read", "wait"}

Noise    == "noise"      \* an event, or a record handleRecord cannot decode
Overlong == "overlong"   \* a record ReadRecords refuses

(* NoOne stands for no caller and no goroutine; a record of Pi answers a   *)
(* call or is one of the two others.                                       *)
ASSUME NoOneIsNobody == NoOne \notin Callers \cup Actors
ASSUME RecordsAreNoCallers == {Noise, Overlong} \cap Callers = {}

Init ==
  /\ calls \in SUBSET Callers
  /\ pc = [o \in Callers |-> "idle"]
  /\ ret = [o \in Callers |-> "none"]
  /\ writeMu = NoOne
  /\ pending = {} /\ abandoned = {} /\ abandonedOrder = <<>>
  /\ result = [c \in Callers |-> <<>>]
  /\ done = FALSE /\ finisher = NoOne /\ sweep = {} /\ swept = FALSE
  /\ at = [close |-> "idle", read |-> "reading", wait |-> "waiting"]
  /\ delivering = NoOne
  /\ stdinOpen = TRUE /\ alive = TRUE /\ heldOpen \in BOOLEAN
  /\ inbox = <<>> /\ working = {} /\ stdout = <<>> /\ noise = 0
  /\ flagged = {}

Return(o, value) ==
  /\ pc' = [pc EXCEPT ![o] = "returned"]
  /\ ret' = [ret EXCEPT ![o] = value]

-----------------------------------------------------------------------------
(* Call and Send *)

(* Mutant: Call no longer looks at the closed client under pendingMu.      *)
CallRegisterUnchecked(c) ==
  /\ pc[c] = "idle"
  /\ pending' = pending \cup {c}
  /\ pc' = [pc EXCEPT ![c] = "writing"]
  /\ UNCHANGED <<calls, ret, writeMu, result, abandoned, abandonedOrder,
                 closeVars, at, delivering, piVars, flagged>>

(* Call enters its request under pendingMu, unless the client is closed.   *)
CallRegister(c) ==
  /\ pc[c] = "idle"
  /\ IF done
       THEN Return(c, "closed") /\ UNCHANGED pending
       ELSE /\ pending' = pending \cup {c}
            /\ pc' = [pc EXCEPT ![c] = "writing"]
            /\ UNCHANGED ret
  /\ UNCHANGED <<calls, writeMu, result, abandoned, abandonedOrder, closeVars,
                 at, delivering, piVars, flagged>>

SendStart(s) ==
  /\ pc[s] = "idle"
  /\ IF done
       THEN Return(s, "closed")
       ELSE pc' = [pc EXCEPT ![s] = "writing"] /\ UNCHANGED ret
  /\ UNCHANGED <<calls, writeMu, result, tableVars, closeVars, at, delivering,
                 piVars, flagged>>

WriteLock(o) ==
  /\ pc[o] = "writing" /\ writeMu = NoOne
  /\ writeMu' = o
  /\ pc' = [pc EXCEPT ![o] = "inWrite"]
  /\ UNCHANGED <<calls, ret, result, tableVars, closeVars, at, delivering,
                 piVars, flagged>>

(* The write blocks while the pipe is full; neither a deadline nor a       *)
(* cancellation of the caller is looked at until it returns.               *)
WriteDone(o) ==
  /\ pc[o] = "inWrite" /\ stdinOpen /\ alive /\ Len(inbox) < PipeRoom
  /\ writeMu' = NoOne
  /\ inbox' = Append(inbox, o)
  /\ IF o \in calls
       THEN pc' = [pc EXCEPT ![o] = "waiting"] /\ UNCHANGED ret
       ELSE Return(o, "written")
  /\ UNCHANGED <<calls, result, tableVars, closeVars, at, delivering,
                 stdinOpen, alive, heldOpen, working, stdout, noise, flagged>>

(* Mutant: a failed write returns without unlocking writeMu.               *)
WriteFailsLocked(o) ==
  /\ pc[o] = "inWrite" /\ ~(stdinOpen /\ alive)
  /\ pending' = pending \ {o}
  /\ Return(o, "writeError")
  /\ UNCHANGED <<calls, writeMu, result, abandoned, abandonedOrder, closeVars,
                 at, delivering, piVars, flagged>>

WriteFails(o) ==
  /\ pc[o] = "inWrite" /\ ~(stdinOpen /\ alive)
  /\ writeMu' = NoOne
  /\ pending' = pending \ {o}
  /\ Return(o, "writeError")
  /\ UNCHANGED <<calls, result, abandoned, abandonedOrder, closeVars, at,
                 delivering, piVars, flagged>>

(* The three branches of Call's select; when several are ready Go picks    *)
(* any of them.                                                            *)
CallReceives(c) ==
  /\ pc[c] = "waiting" /\ result[c] # <<>>
  /\ result' = [result EXCEPT ![c] = <<>>]
  /\ Return(c, Head(result[c]))
  /\ UNCHANGED <<calls, writeMu, tableVars, closeVars, at, delivering, piVars,
                 flagged>>

(* Mutant: no tombstone.                                                   *)
AbandonForgotten(c) ==
  pending' = pending \ {c} /\ UNCHANGED <<abandoned, abandonedOrder>>

Abandon(c) ==
  LET order == Append(abandonedOrder, c) IN
  IF c \notin pending
    THEN UNCHANGED tableVars
    ELSE /\ pending' = pending \ {c}
         /\ IF Len(order) > MaxAbandoned
              THEN /\ abandonedOrder' = Tail(order)
                   /\ abandoned' = (abandoned \cup {c}) \ {Head(order)}
              ELSE /\ abandonedOrder' = order
                   /\ abandoned' = abandoned \cup {c}

CallCancelled(c) ==
  /\ pc[c] = "waiting"
  /\ Abandon(c)
  /\ Return(c, "cancelled")
  /\ UNCHANGED <<calls, writeMu, result, closeVars, at, delivering, piVars,
                 flagged>>

CallSeesDone(c) ==
  /\ pc[c] = "waiting" /\ done
  /\ pending' = pending \ {c}
  /\ Return(c, "closed")
  /\ UNCHANGED <<calls, writeMu, result, abandoned, abandonedOrder, closeVars,
                 at, delivering, piVars, flagged>>

-----------------------------------------------------------------------------
(* finish, run by whichever of Close, readStdout and wait gets there first *)

AfterFinish == [close |-> "stdin", read |-> "kill", wait |-> "end"]

FinishSignal(a) ==
  /\ at[a] = "finish" /\ finisher = NoOne
  /\ finisher' = a
  /\ done' = TRUE
  /\ UNCHANGED <<calls, callVars, tableVars, result, sweep, swept, at,
                 delivering, piVars, flagged>>

FinishSweep(a) ==
  /\ finisher = a /\ at[a] = "finish" /\ ~swept
  /\ swept' = TRUE
  /\ sweep' = pending
  /\ pending' = {}
  /\ UNCHANGED <<calls, callVars, abandoned, abandonedOrder, result, done,
                 finisher, at, delivering, piVars, flagged>>

FinishNotify(a, c) ==
  /\ finisher = a /\ at[a] = "finish" /\ c \in sweep /\ result[c] = <<>>
  /\ sweep' = sweep \ {c}
  /\ result' = [result EXCEPT ![c] = <<"closed">>]
  /\ UNCHANGED <<calls, callVars, tableVars, done, finisher, swept, at,
                 delivering, piVars, flagged>>

(* sync.Once: the losers return only after the winner has.                 *)
FinishLeave(a) ==
  /\ at[a] = "finish" /\ swept /\ sweep = {}
  /\ finisher # a => at[finisher] # "finish"
  /\ at' = [at EXCEPT ![a] = AfterFinish[a]]
  /\ UNCHANGED <<calls, callVars, tableVars, result, closeVars, delivering,
                 piVars, flagged>>

-----------------------------------------------------------------------------
(* Close *)

Close ==
  /\ at["close"] = "idle"
  /\ at' = [at EXCEPT !["close"] = "finish"]
  /\ UNCHANGED <<calls, callVars, tableVars, result, closeVars, delivering,
                 piVars, flagged>>

CloseStdin ==
  /\ at["close"] = "stdin"
  /\ stdinOpen' = FALSE
  /\ at' = [at EXCEPT !["close"] = "kill"]
  /\ UNCHANGED <<calls, callVars, tableVars, result, closeVars, delivering,
                 alive, heldOpen, inbox, working, stdout, noise, flagged>>

(* process.Kill reaches the process group; a descendant that left the      *)
(* group survives it.                                                      *)
Kill(a) ==
  /\ a \in {"close", "read"} /\ at[a] = "kill"
  /\ alive' = FALSE /\ heldOpen' \in {FALSE, heldOpen}
  /\ at' = [at EXCEPT ![a] = "end"]
  /\ UNCHANGED <<calls, callVars, tableVars, result, closeVars, delivering,
                 stdinOpen, inbox, working, stdout, noise, flagged>>

-----------------------------------------------------------------------------
(* readStdout and handleRecord *)

(* Mutant: the answered request stays in the table.                        *)
ReadResponseKept ==
  /\ at["read"] = "reading" /\ stdout # <<>> /\ Head(stdout) \in calls
  /\ LET c == Head(stdout) IN
       IF c \in pending
         THEN /\ at' = [at EXCEPT !["read"] = "deliver"]
              /\ delivering' = c
              /\ UNCHANGED flagged
         ELSE /\ flagged' = IF c \in abandoned THEN flagged ELSE flagged \cup {c}
              /\ UNCHANGED <<at, delivering>>
  /\ stdout' = Tail(stdout)
  /\ UNCHANGED <<calls, callVars, tableVars, result, closeVars, stdinOpen,
                 alive, heldOpen, inbox, working, noise>>

ReadResponse ==
  /\ at["read"] = "reading" /\ stdout # <<>> /\ Head(stdout) \in calls
  /\ LET c == Head(stdout) IN
       /\ pending' = pending \ {c}
       /\ IF c \in abandoned
            THEN UNCHANGED <<at, delivering, flagged>>
            ELSE IF c \in pending
              THEN /\ at' = [at EXCEPT !["read"] = "deliver"]
                   /\ delivering' = c
                   /\ UNCHANGED flagged
              ELSE flagged' = flagged \cup {c} /\ UNCHANGED <<at, delivering>>
  /\ stdout' = Tail(stdout)
  /\ UNCHANGED <<calls, callVars, abandoned, abandonedOrder, result, closeVars,
                 stdinOpen, alive, heldOpen, inbox, working, noise>>

(* Mutant: the reader sends without regard to the channel's capacity.      *)
DeliverAlways ==
  /\ at["read"] = "deliver"
  /\ result' = [result EXCEPT ![delivering] = <<"response", "response">>]
  /\ at' = [at EXCEPT !["read"] = "reading"]
  /\ delivering' = NoOne
  /\ UNCHANGED <<calls, callVars, tableVars, closeVars, piVars, flagged>>

Deliver ==
  /\ at["read"] = "deliver" /\ result[delivering] = <<>>
  /\ result' = [result EXCEPT ![delivering] = <<"response">>]
  /\ at' = [at EXCEPT !["read"] = "reading"]
  /\ delivering' = NoOne
  /\ UNCHANGED <<calls, callVars, tableVars, closeVars, piVars, flagged>>

(* An event goes to the sink; an overlong record ends the client.          *)
ReadOther ==
  /\ at["read"] = "reading" /\ stdout # <<>> /\ Head(stdout) \in {Noise, Overlong}
  /\ at' = [at EXCEPT !["read"] =
              IF Head(stdout) = Overlong THEN "finish" ELSE "reading"]
  /\ stdout' = Tail(stdout)
  /\ UNCHANGED <<calls, callVars, tableVars, result, closeVars, delivering,
                 stdinOpen, alive, heldOpen, inbox, working, noise, flagged>>

ReadEOF ==
  /\ at["read"] = "reading" /\ stdout = <<>> /\ ~alive /\ ~heldOpen
  /\ at' = [at EXCEPT !["read"] = "end"]
  /\ UNCHANGED <<calls, callVars, tableVars, result, closeVars, delivering,
                 piVars, flagged>>

-----------------------------------------------------------------------------
(* wait: process.Wait, then stdoutDone, then finish *)

(* Mutant: wait does not wait for the end of stdout.                       *)
WaitExitEarly ==
  /\ at["wait"] = "waiting" /\ ~alive
  /\ at' = [at EXCEPT !["wait"] = "finish"]
  /\ UNCHANGED <<calls, callVars, tableVars, result, closeVars, delivering,
                 piVars, flagged>>

WaitExit ==
  /\ at["wait"] = "waiting" /\ ~alive
  /\ at["read"] = "end"
  /\ at' = [at EXCEPT !["wait"] = "finish"]
  /\ UNCHANGED <<calls, callVars, tableVars, result, closeVars, delivering,
                 piVars, flagged>>

-----------------------------------------------------------------------------
(* The environment: Pi *)

PiReads ==
  /\ alive /\ inbox # <<>>
  /\ inbox' = Tail(inbox)
  /\ working' = working \cup ({Head(inbox)} \cap calls)
  /\ UNCHANGED <<calls, callVars, tableVars, result, closeVars, at, delivering,
                 stdinOpen, alive, heldOpen, stdout, noise, flagged>>

(* Pi answers each request at most once, in any order.                     *)
PiAnswers(c) ==
  /\ alive /\ c \in working
  /\ working' = working \ {c}
  /\ stdout' = Append(stdout, c)
  /\ UNCHANGED <<calls, callVars, tableVars, result, closeVars, at, delivering,
                 stdinOpen, alive, heldOpen, inbox, noise, flagged>>

PiSpeaks(r) ==
  /\ alive /\ r \in {Noise, Overlong} /\ noise < MaxNoise
  /\ noise' = noise + 1
  /\ stdout' = Append(stdout, r)
  /\ UNCHANGED <<calls, callVars, tableVars, result, closeVars, at, delivering,
                 stdinOpen, alive, heldOpen, inbox, working, flagged>>

PiExits ==
  /\ alive
  /\ alive' = FALSE
  /\ UNCHANGED <<calls, callVars, tableVars, result, closeVars, at, delivering,
                 stdinOpen, heldOpen, inbox, working, stdout, noise, flagged>>

(* A descendant that inherited stdout ends on its own, after Pi has.       *)
HolderExits ==
  /\ ~alive /\ heldOpen
  /\ heldOpen' = FALSE
  /\ UNCHANGED <<calls, callVars, tableVars, result, closeVars, at, delivering,
                 stdinOpen, alive, inbox, working, stdout, noise, flagged>>

-----------------------------------------------------------------------------
Caller(o) ==
  \/ o \in calls /\ (CallRegister(o) \/ CallReceives(o) \/ CallCancelled(o) \/ CallSeesDone(o))
  \/ o \notin calls /\ SendStart(o)
  \/ WriteLock(o) \/ WriteDone(o) \/ WriteFails(o)

Finish(a) ==
  \/ FinishSignal(a) \/ FinishSweep(a) \/ FinishLeave(a)
  \/ \E c \in calls : FinishNotify(a, c)

Closer == Finish("close") \/ CloseStdin \/ Kill("close")
Reader == ReadResponse \/ Deliver \/ ReadOther \/ ReadEOF \/ Finish("read") \/ Kill("read")
Waiter == WaitExit \/ Finish("wait")

Pi ==
  \/ PiReads \/ PiExits \/ HolderExits
  \/ \E c \in calls : PiAnswers(c)
  \/ \E r \in {Noise, Overlong} : PiSpeaks(r)

Next ==
  \/ \E o \in Callers : Caller(o)
  \/ Close \/ Closer \/ Reader \/ Waiter
  \/ Pi

Spec == Init /\ [][Next]_vars

(* The Go scheduler runs every goroutine that can run.  Nothing is assumed *)
(* of Pi or of its descendants, nor that a context is ever cancelled.      *)
ProgressOf(o) ==
  \/ o \in calls /\ (CallReceives(o) \/ CallSeesDone(o))
  \/ WriteDone(o) \/ WriteFails(o)

Fairness ==
  /\ \A o \in Callers : WF_vars(ProgressOf(o)) /\ SF_vars(WriteLock(o))
  /\ WF_vars(Closer) /\ WF_vars(Reader) /\ WF_vars(Waiter)

FairSpec == Spec /\ Fairness

-----------------------------------------------------------------------------
(* Properties *)

Locations == {"idle", "writing", "inWrite", "waiting", "returned"}
Returns == {"none", "written", "response", "cancelled", "closed", "writeError"}
ActorLocations == {"idle", "reading", "waiting", "deliver", "finish", "stdin", "kill", "end"}

(* Every variable keeps its type; a result channel holds at most the one   *)
(* value it is made for.                                                   *)
TypeOK ==
  /\ calls \subseteq Callers
  /\ pc \in [Callers -> Locations] /\ ret \in [Callers -> Returns]
  /\ writeMu \in Callers \cup {NoOne}
  /\ pending \subseteq calls /\ sweep \subseteq calls /\ working \subseteq calls
  /\ flagged \subseteq calls
  /\ abandoned \subseteq calls /\ abandonedOrder \in Seq(calls)
  /\ Len(abandonedOrder) <= MaxAbandoned
  /\ result \in [Callers -> {<<>>, <<"response">>, <<"closed">>}]
  /\ {done, swept, stdinOpen, alive, heldOpen} \subseteq BOOLEAN
  /\ finisher \in Actors \cup {NoOne}
  /\ at \in [Actors -> ActorLocations]
  /\ delivering \in calls \cup {NoOne}
  /\ inbox \in Seq(Callers) /\ stdout \in Seq(calls \cup {Noise, Overlong})
  /\ noise \in 0 .. MaxNoise

(* handleRecord and finish both send on result channels of capacity one,   *)
(* outside pendingMu; neither may ever block there, or the reader stops    *)
(* reading or Close never returns (client.go:248, :281).                   *)
SendersNeverBlock ==
  /\ at["read"] = "deliver" => result[delivering] = <<>> /\ delivering \notin sweep
  /\ \A c \in sweep : result[c] = <<>>

(* Once finish has taken the table no call is ever left in it: a caller    *)
(* that registers late sees the closed client (client.go:93-99, :274-279). *)
NothingLeftPending == swept => pending = {}

Cancelled == {c \in calls : ret[c] = "cancelled"}

(* An answer to a request that was written is reported as a protocol error *)
(* only by a closed client, or when at least MaxAbandoned other calls were *)
(* cancelled too: an answer that races a cancellation is dropped silently  *)
(* (the comment at client.go:293).                                         *)
LateAnswersAreSilent ==
  [][\A c \in flagged' \ flagged :
       \/ done
       \/ c \in Cancelled /\ Cardinality(Cancelled \ {c}) >= MaxAbandoned]_vars

(* When Pi exits on its own, the calls that finish notifies of the exit    *)
(* are calls Pi never answered: stdout is drained first (client.go:192-199,*)
(* process.go:86-89).                                                      *)
ExitSweepsOnlyUnanswered ==
  finisher = "wait" =>
    \A c \in sweep :
      \/ c \in working
      \/ \E i \in 1 .. Len(inbox) : inbox[i] = c
      \/ pc[c] \in {"writing", "inWrite"} \/ ret[c] \in {"writeError", "cancelled", "closed"}

(* Whatever closes the client and whenever: its channels keep their types, *)
(* no send of a result blocks, no call is left in the table, and an exit   *)
(* is reported to calls only that Pi never answered.                       *)
CallsAreAccountedFor ==
  /\ TypeOK
  /\ SendersNeverBlock
  /\ NothingLeftPending
  /\ ExitSweepsOnlyUnanswered

(* Nothing keeps a caller in Call or Send once the client began to close,  *)
(* not even a write blocked on a full pipe; and Close itself returns, as   *)
(* finish, closing stdin and killing never wait for Pi.                    *)
ClosingReleasesEverybody ==
  /\ \A o \in Callers : (finisher # NoOne /\ pc[o] # "idle") ~> (pc[o] = "returned")
  /\ (at["close"] # "idle") ~> (at["close"] = "end")
=============================================================================
