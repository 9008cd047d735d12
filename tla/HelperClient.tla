---------------------------- MODULE HelperClient ----------------------------
(***************************************************************************)
(* The client of a running helper                                          *)
(* (src/internal/remotessh/runtime_process.go, runtime_terminal.go).       *)
(*                                                                         *)
(* Many requests share one pair of pipes.  A request enters `pending` with *)
(* a channel of two results; the reader takes a frame, looks its request   *)
(* up and sends the frame to that channel, which may block it.  Plain      *)
(* calls get one frame; a Bash or terminal request gets an acceptance,     *)
(* data for which its consumer returns credit, and a last frame.  Whoever  *)
(* meets a broken pipe runs stopTransport: once, it takes all of pending,  *)
(* sends every one an error and only then cancels the process.             *)
(*                                                                         *)
(* The helper and its process are the environment.  The helper is taken    *)
(* to keep the protocol, so the checks on malformed frames, which kill it, *)
(* are left out; the pipe to the helper is taken to have room.             *)
(***************************************************************************)
EXTENDS Naturals, Sequences, FiniteSets, SequencesExt

CONSTANTS
  Calls,       \* the requests made with callFrame (each is made once: a bound)
  Bashes,      \* the requests made with RunBash
  Terminals,   \* the requests made with StartTerminal
  Bye,         \* the request made by Shutdown
  Mixes,       \* bound: the sets of requests that are made in one behaviour
  Window,      \* bound: data frames the initial credit lets through
  MaxPending,  \* maxHelperPendingRequests
  Chunks,      \* bound: data frames of a stream
  Reader,      \* the reader goroutine
  NoOne        \* nobody

ASSUME KindsAreDisjoint ==
  /\ Calls \cap Bashes = {} /\ Calls \cap Terminals = {} /\ Bashes \cap Terminals = {}
  /\ {Bye, Reader, NoOne, "done"} \cap (Calls \cup Bashes \cup Terminals) = {}
  /\ Bye # Reader /\ NoOne \notin {Bye, Reader} /\ "done" \notin {Bye, Reader, NoOne}
ASSUME ClientBounds ==
  Mixes \subseteq SUBSET (Calls \cup Bashes \cup Terminals \cup {Bye})
    /\ Window \in Nat /\ MaxPending \in Nat /\ Chunks \in Nat

VARIABLES
  made,         \* the requests that are made
  at,           \* where the goroutine of each request is
  ret,          \* what it returned
  cancelled,    \* the streams whose consumer has written its cancel
  channel,      \* the result channel of each request
  pending,      \* runtime.pending
  shutdown,     \* runtime.shutdown
  transportErr, \* runtime.transportErr is set
  once,         \* transportOnce: NoOne, the actor inside Do, or "done"
  sweep,        \* requests stopTransport has taken and not yet notified
  reader,       \* where the reader is
  held,         \* the frame the reader is about to send
  killed,       \* runtime.cancel was called, or the lifetime context ended
  running,      \* the helper process runs
  stdinOpen,    \* runtime.stdin is open
  wire,         \* frames of the helper on their way
  helper,       \* how far the helper is with each request
  credit,       \* data frames the helper may still send
  sent          \* data frames it has sent

callVars == <<at, ret, cancelled>>
stopVars == <<transportErr, once, sweep>>
procVars == <<killed, running, stdinOpen>>
helperVars == <<helper, credit, sent>>
vars == <<made, callVars, channel, pending, shutdown, stopVars, reader, held,
          procVars, wire, helperVars>>

Streams == Bashes \cup Terminals
Requests == Calls \cup Streams \cup {Bye}

Frame(r, kind) == [id |-> r, kind |-> kind]
NoFrame == Frame(NoOne, "none")
Outcomes == {"final", "err"}   \* the results that end a request
Active(r) == helper[r] \in {"active", "accepted"}

Init ==
  /\ made \in Mixes
  /\ at = [r \in Requests |-> "idle"] /\ ret = [r \in Requests |-> "none"]
  /\ cancelled = {} /\ channel = [r \in Requests |-> <<>>]
  /\ pending = {} /\ shutdown = FALSE
  /\ transportErr = FALSE /\ once = NoOne /\ sweep = {}
  /\ reader = "reading" /\ held = NoFrame
  /\ killed = FALSE /\ running = TRUE /\ stdinOpen = TRUE
  /\ wire = <<>>
  /\ helper = [r \in Requests |-> "idle"]
  /\ credit = [r \in Requests |-> 0] /\ sent = [r \in Requests |-> 0]

Return(r, value) ==
  /\ at' = [at EXCEPT ![r] = "returned"]
  /\ ret' = [ret EXCEPT ![r] = value]

Goto(r, place) ==
  /\ at' = [at EXCEPT ![r] = place]
  /\ UNCHANGED ret

(* Shutdown kills the helper whenever its request fails.                   *)
Fail(r, value) ==
  /\ Return(r, value)
  /\ killed' = (killed \/ r = Bye)

CanWrite == running /\ stdinOpen

-----------------------------------------------------------------------------
(* Making a request *)

(* The critical section that enters a request.  A shutdown refuses new     *)
(* requests but its own.                                                   *)
Register(r) ==
  /\ r \in made /\ at[r] = IF r = Bye THEN "entering" ELSE "idle"
  /\ IF \/ shutdown /\ r # Bye
        \/ transportErr
        \/ Cardinality(pending) >= MaxPending
       THEN Fail(r, "refused") /\ UNCHANGED pending
       ELSE /\ pending' = pending \cup {r}
            /\ Goto(r, "registered")
            /\ UNCHANGED killed
  /\ UNCHANGED <<made, cancelled, channel, shutdown, stopVars, reader, held,
                 running, stdinOpen, wire, helperVars>>

(* Only the first Shutdown gets here; a second one changes nothing.        *)
Shutdown ==
  /\ Bye \in made /\ at[Bye] = "idle"
  /\ shutdown' = TRUE
  /\ Goto(Bye, "entering")
  /\ UNCHANGED <<made, cancelled, channel, pending, stopVars, reader, held,
                 procVars, wire, helperVars>>

(* The helper reads nothing after the shutdown request.                    *)
WriteRequest(r) ==
  /\ at[r] = "registered"
  /\ IF CanWrite
       THEN /\ Goto(r, IF r \in Streams THEN "requested" ELSE "waiting")
            /\ helper' = [helper EXCEPT ![r] =
                            IF helper[Bye] = "idle" THEN "active" ELSE "unread"]
       ELSE Goto(r, "stopping") /\ UNCHANGED helper
  /\ UNCHANGED <<made, cancelled, channel, pending, shutdown, stopVars, reader,
                 held, procVars, wire, credit, sent>>

(* The initial credit of a stream.                                         *)
OpenCredit(r) ==
  /\ at[r] = "requested"
  /\ IF CanWrite
       THEN /\ Goto(r, IF r \in Terminals THEN "starting" ELSE "waiting")
            /\ credit' = [credit EXCEPT ![r] = Window]
       ELSE Goto(r, "stopping") /\ UNCHANGED credit
  /\ UNCHANGED <<made, cancelled, channel, pending, shutdown, stopVars, reader,
                 held, procVars, wire, helper, sent>>

-----------------------------------------------------------------------------
(* Plain calls and the shutdown request *)

(* The first result is the outcome.  Shutdown then closes stdin and waits. *)
Settle(r) ==
  IF Head(channel[r]) = "final"
    THEN /\ IF r = Bye THEN Goto(r, "closing") ELSE Return(r, "answer")
         /\ UNCHANGED killed
    ELSE Fail(r, "failed")

TakeOutcome(r) ==
  /\ r \notin Streams /\ at[r] \in {"waiting", "settling"} /\ channel[r] # <<>>
  /\ Settle(r)
  /\ channel' = [channel EXCEPT ![r] = Tail(@)]
  /\ UNCHANGED <<made, cancelled, pending, shutdown, stopVars, reader, held,
                 running, stdinOpen, wire, helperVars>>

(* Mutant: the end of the reader is taken for the outcome.                 *)
ReaderGoneUnchecked(r) ==
  /\ r \notin Streams /\ at[r] \in {"waiting", "settling"} /\ reader = "ended"
  /\ Fail(r, "failed")
  /\ UNCHANGED <<made, cancelled, channel, pending, shutdown, stopVars, reader,
                 held, running, stdinOpen, wire, helperVars>>

(* readDone is closed: a result may still lie in the channel.              *)
ReaderGone(r) ==
  /\ r \notin Streams /\ at[r] \in {"waiting", "settling"} /\ reader = "ended"
  /\ IF channel[r] # <<>>
       THEN Settle(r) /\ channel' = [channel EXCEPT ![r] = Tail(@)]
       ELSE Fail(r, "failed") /\ UNCHANGED channel
  /\ UNCHANGED <<made, cancelled, pending, shutdown, stopVars, reader, held,
                 running, stdinOpen, wire, helperVars>>

(* The context of the call ends with no result at hand.                    *)
ContextEnds(r) ==
  /\ r \notin Streams /\ at[r] = "waiting" /\ channel[r] = <<>>
  /\ IF r \in pending
       THEN Goto(r, "cancelling") /\ UNCHANGED killed
       ELSE IF r = Bye THEN Fail(r, "cancelled")
                       ELSE Goto(r, "settling") /\ UNCHANGED killed
  /\ UNCHANGED <<made, cancelled, channel, pending, shutdown, stopVars, reader,
                 held, running, stdinOpen, wire, helperVars>>

(* Mutant: a cancelled call leaves without the helper's confirmation.      *)
WriteCancelLeaves(r) ==
  /\ at[r] = "cancelling"
  /\ IF CanWrite THEN Fail(r, "cancelled") ELSE Goto(r, "resuming") /\ UNCHANGED killed
  /\ UNCHANGED <<made, cancelled, channel, pending, shutdown, stopVars, reader,
                 held, running, stdinOpen, wire, helperVars>>

(* Mutant: a cancelled Shutdown waits for the helper like any other call.  *)
WriteCancelStays(r) ==
  /\ at[r] = "cancelling"
  /\ Goto(r, IF CanWrite THEN "settling" ELSE "resuming")
  /\ UNCHANGED <<made, cancelled, channel, pending, shutdown, stopVars, reader,
                 held, procVars, wire, helperVars>>

(* The cancel.  The call stays, with its entry, until the helper confirms; *)
(* only Shutdown leaves.  After a failed write stopTransport comes first.  *)
WriteCancel(r) ==
  /\ at[r] = "cancelling"
  /\ IF ~CanWrite
       THEN Goto(r, "resuming") /\ UNCHANGED killed
       ELSE IF r = Bye THEN Fail(r, "cancelled")
                       ELSE Goto(r, "settling") /\ UNCHANGED killed
  /\ UNCHANGED <<made, cancelled, channel, pending, shutdown, stopVars, reader,
                 held, running, stdinOpen, wire, helperVars>>

CloseStdin ==
  /\ at[Bye] = "closing"
  /\ stdinOpen' = FALSE
  /\ Goto(Bye, "closed")
  /\ UNCHANGED <<made, cancelled, channel, pending, shutdown, stopVars, reader,
                 held, killed, running, wire, helperVars>>

ProcessGone ==
  /\ at[Bye] = "closed" /\ ~running
  /\ Return(Bye, "answer")
  /\ UNCHANGED <<made, cancelled, channel, pending, shutdown, stopVars, reader,
                 held, procVars, wire, helperVars>>

ShutdownTimesOut ==
  /\ at[Bye] = "closed"
  /\ Fail(Bye, "failed")
  /\ UNCHANGED <<made, cancelled, channel, pending, shutdown, stopVars, reader,
                 held, running, stdinOpen, wire, helperVars>>

-----------------------------------------------------------------------------
(* Bash and terminal streams *)

Take(r, place) ==
  /\ Goto(r, place)
  /\ channel' = [channel EXCEPT ![r] = Tail(@)]

End(r, value) ==
  /\ Return(r, value)
  /\ channel' = [channel EXCEPT ![r] = Tail(@)]

(* One turn of the consumer's loop: RunBash, or consume of a terminal, for *)
(* which "returned" is the end of the session.                             *)
Consume(r) ==
  /\ r \in Streams /\ at[r] = "waiting" /\ channel[r] # <<>>
  /\ \/ Head(channel[r]) = "accepted" /\ Take(r, "waiting")
     \/ Head(channel[r]) = "data" /\ Take(r, "crediting")
     \/ Head(channel[r]) = "final" /\ End(r, "answer")
     \/ Head(channel[r]) = "err" /\ End(r, "failed")
  /\ UNCHANGED <<made, cancelled, pending, shutdown, stopVars, reader, held,
                 procVars, wire, helperVars>>

ReturnCredit(r) ==
  /\ at[r] = "crediting"
  /\ IF CanWrite
       THEN Goto(r, "waiting") /\ credit' = [credit EXCEPT ![r] = @ + 1]
       ELSE Goto(r, "stopping") /\ UNCHANGED credit
  /\ UNCHANGED <<made, cancelled, channel, pending, shutdown, stopVars, reader,
                 held, procVars, wire, helper, sent>>

(* The context of RunBash, or the lifetime of a terminal, ends.  A Bash    *)
(* whose cancel cannot be written gives up; a terminal goes on.            *)
CancelStream(r) ==
  /\ r \in Streams /\ at[r] = "waiting" /\ r \notin cancelled
  /\ cancelled' = cancelled \cup {r}
  /\ Goto(r, IF CanWrite THEN "waiting"
             ELSE IF r \in Bashes THEN "stopping" ELSE "resuming")
  /\ UNCHANGED <<made, channel, pending, shutdown, stopVars, reader, held,
                 procVars, wire, helperVars>>

StreamReaderGone(r) ==
  /\ r \in Streams /\ at[r] \in {"waiting", "starting"} /\ reader = "ended"
  /\ Return(r, "failed")
  /\ UNCHANGED <<made, cancelled, channel, pending, shutdown, stopVars, reader,
                 held, procVars, wire, helperVars>>

(* StartTerminal waits for the acceptance before there is a session.       *)
TerminalStarts(r) ==
  /\ at[r] = "starting" /\ channel[r] # <<>>
  /\ \/ Head(channel[r]) = "accepted" /\ Take(r, "waiting")
     \/ Head(channel[r]) = "final" /\ End(r, "answer")
     \/ Head(channel[r]) = "err" /\ End(r, "failed")
  /\ UNCHANGED <<made, cancelled, pending, shutdown, stopVars, reader, held,
                 procVars, wire, helperVars>>

(* Mutant: a cancelled start drops its entry.                              *)
CancelStartupForgets(r) ==
  /\ at[r] = "starting"
  /\ at' = [at EXCEPT ![r] = "draining"]
  /\ ret' = [ret EXCEPT ![r] = "cancelled"]
  /\ pending' = pending \ {r}
  /\ UNCHANGED <<made, cancelled, channel, shutdown, stopVars, reader, held,
                 procVars, wire, helperVars>>

(* The start is cancelled: the result of the cancel's write is ignored and *)
(* drainTerminalStartup takes over the channel.                            *)
CancelStartup(r) ==
  /\ at[r] = "starting"
  /\ at' = [at EXCEPT ![r] = "draining"]
  /\ ret' = [ret EXCEPT ![r] = "cancelled"]
  /\ UNCHANGED <<made, cancelled, channel, pending, shutdown, stopVars, reader,
                 held, procVars, wire, helperVars>>

Drain(r) ==
  /\ at[r] = "draining"
  /\ \/ /\ channel[r] # <<>>
        /\ Take(r, IF Head(channel[r]) \in Outcomes THEN "returned" ELSE "draining")
     \/ reader = "ended" /\ Goto(r, "returned") /\ UNCHANGED channel
  /\ UNCHANGED <<made, cancelled, pending, shutdown, stopVars, reader, held,
                 procVars, wire, helperVars>>

-----------------------------------------------------------------------------
(* stopTransport *)

Stoppers ==
  {r \in Requests : at[r] \in {"stopping", "resuming"}}
    \cup IF reader = "stopping" THEN {Reader} ELSE {}

(* Mutant: the entries are notified but stay in the table.                 *)
StopBeginKeeps(a) ==
  /\ a \in Stoppers /\ once = NoOne
  /\ once' = a
  /\ transportErr' = TRUE
  /\ sweep' = pending
  /\ UNCHANGED <<made, callVars, channel, pending, shutdown, reader, held,
                 procVars, wire, helperVars>>

StopBegin(a) ==
  /\ a \in Stoppers /\ once = NoOne
  /\ once' = a
  /\ transportErr' = TRUE
  /\ sweep' = pending /\ pending' = {}
  /\ UNCHANGED <<made, callVars, channel, shutdown, reader, held, procVars,
                 wire, helperVars>>

(* Mutant: a result channel has room for one result only.                  *)
StopNotifyShort(r) ==
  /\ r \in sweep /\ channel[r] = <<>>
  /\ channel' = [channel EXCEPT ![r] = Append(@, "err")]
  /\ sweep' = sweep \ {r}
  /\ UNCHANGED <<made, callVars, pending, shutdown, transportErr, once, reader,
                 held, procVars, wire, helperVars>>

(* An error for each request taken, in the map's order; a full channel     *)
(* blocks the sweep.                                                       *)
StopNotify(r) ==
  /\ r \in sweep /\ Len(channel[r]) < 2
  /\ channel' = [channel EXCEPT ![r] = Append(@, "err")]
  /\ sweep' = sweep \ {r}
  /\ UNCHANGED <<made, callVars, pending, shutdown, transportErr, once, reader,
                 held, procVars, wire, helperVars>>

StopEnd ==
  /\ once \in Stoppers /\ sweep = {}
  /\ killed' = TRUE
  /\ once' = "done"
  /\ UNCHANGED <<made, callVars, channel, pending, shutdown, transportErr, sweep,
                 reader, held, running, stdinOpen, wire, helperVars>>

(* Do returns, to everyone, when its one run has ended.                    *)
StopReturn(a) ==
  /\ a \in Stoppers /\ once = "done"
  /\ IF a = Reader
       THEN reader' = "ended" /\ UNCHANGED <<at, ret>>
       ELSE /\ UNCHANGED reader
            /\ \/ at[a] = "stopping" /\ Return(a, "failed")
               \/ at[a] = "resuming" /\ a \in Calls /\ Goto(a, "settling")
               \/ at[a] = "resuming" /\ a \in Terminals /\ Goto(a, "waiting")
               \/ a = Bye /\ at[a] = "resuming" /\ Return(a, "cancelled")
  /\ killed' = (killed \/ a = Bye)
  /\ UNCHANGED <<made, cancelled, channel, pending, shutdown, stopVars, held,
                 running, stdinOpen, wire, helperVars>>

-----------------------------------------------------------------------------
(* The reader *)

ReadFrame ==
  /\ reader = "reading" /\ wire # <<>>
  /\ LET f == Head(wire) IN
       /\ pending' = IF f.kind = "final" THEN pending \ {f.id} ELSE pending
       /\ IF f.id \in pending
            THEN reader' = "delivering" /\ held' = f
            ELSE reader' = "stopping" /\ UNCHANGED held
  /\ wire' = Tail(wire)
  /\ UNCHANGED <<made, callVars, channel, shutdown, stopVars, procVars, helperVars>>

(* Mutant: the reader looks at no room in the channel.                     *)
DeliverUnbounded ==
  /\ reader = "delivering"
  /\ channel' = [channel EXCEPT ![held.id] = Append(@, held.kind)]
  /\ reader' = "reading" /\ held' = NoFrame
  /\ UNCHANGED <<made, callVars, pending, shutdown, stopVars, procVars, wire,
                 helperVars>>

Deliver ==
  /\ reader = "delivering" /\ Len(channel[held.id]) < 2
  /\ channel' = [channel EXCEPT ![held.id] = Append(@, held.kind)]
  /\ reader' = "reading" /\ held' = NoFrame
  /\ UNCHANGED <<made, callVars, pending, shutdown, stopVars, procVars, wire,
                 helperVars>>

(* The pipe ends.  During a shutdown a clean end stops nothing; Wait may   *)
(* also have closed the pipe under the reader, which is no clean end.      *)
ReadFails ==
  /\ reader = "reading" /\ wire = <<>> /\ ~running
  /\ reader' \in IF shutdown THEN {"ended", "stopping"} ELSE {"stopping"}
  /\ UNCHANGED <<made, callVars, channel, pending, shutdown, stopVars, held,
                 procVars, wire, helperVars>>

-----------------------------------------------------------------------------
(* The helper and its process *)

Send(r, kind) == wire' = Append(wire, Frame(r, kind))

HelperStep(r) ==
  /\ running
  /\ \/ /\ r \in Streams /\ helper[r] = "active"
        /\ helper' = [helper EXCEPT ![r] = "accepted"]
        /\ Send(r, "accepted") /\ UNCHANGED <<credit, sent>>
     \/ /\ helper[r] = "accepted" /\ credit[r] > 0 /\ sent[r] < Chunks
        /\ credit' = [credit EXCEPT ![r] = @ - 1]
        /\ sent' = [sent EXCEPT ![r] = @ + 1]
        /\ Send(r, "data") /\ UNCHANGED helper
     \/ /\ Active(r)
        /\ r = Bye => \A s \in Requests \ {Bye} : ~Active(s)
        /\ helper' = [helper EXCEPT ![r] = "answered"]
        /\ Send(r, "final") /\ UNCHANGED <<credit, sent>>
  /\ UNCHANGED <<made, callVars, channel, pending, shutdown, stopVars, reader,
                 held, procVars>>

(* The process ends; frames not yet read may be lost, as Wait closes the   *)
(* pipe without waiting for the reader.                                    *)
Exit ==
  /\ running
  /\ running' = FALSE
  /\ \E n \in 0..Len(wire) : wire' = SubSeq(wire, 1, n)
  /\ UNCHANGED <<made, callVars, channel, pending, shutdown, stopVars, reader,
                 held, killed, stdinOpen, helperVars>>

(* The owner kills the helper, or the connection's generation ends.        *)
Kill ==
  /\ ~killed
  /\ killed' = TRUE
  /\ UNCHANGED <<made, callVars, channel, pending, shutdown, stopVars, reader,
                 held, running, stdinOpen, wire, helperVars>>

-----------------------------------------------------------------------------
(* Steps the Go scheduler owes a goroutine that can run.                   *)
Step(r) ==
  \/ WriteRequest(r) \/ OpenCredit(r)
  \/ TakeOutcome(r) \/ ReaderGone(r) \/ WriteCancel(r)
  \/ Consume(r) \/ ReturnCredit(r) \/ StreamReaderGone(r)
  \/ TerminalStarts(r) \/ Drain(r)
  \/ StopBegin(r) \/ StopReturn(r)

StopStep == StopEnd \/ \E r \in Requests : StopNotify(r)

ReaderStep ==
  ReadFrame \/ Deliver \/ ReadFails \/ StopBegin(Reader) \/ StopReturn(Reader)

Next ==
  \/ \E r \in Requests :
       Register(r) \/ Step(r) \/ ContextEnds(r) \/ CancelStream(r)
         \/ CancelStartup(r) \/ HelperStep(r)
  \/ Shutdown \/ CloseStdin \/ ProcessGone \/ ShutdownTimesOut
  \/ StopStep \/ ReaderStep
  \/ Exit \/ Kill

Spec == Init /\ [][Next]_vars

(* Goroutines run, a killed process ends, and the context of Shutdown has  *)
(* a deadline.  Nothing is asked of the helper or of other contexts.       *)
FairSpec ==
  /\ Spec
  /\ \A r \in Requests : WF_vars(Step(r))
  /\ WF_vars(StopStep) /\ WF_vars(ReaderStep)
  /\ WF_vars(Register(Bye) \/ CloseStdin \/ ShutdownTimesOut)
  /\ WF_vars(ContextEnds(Bye))
  /\ WF_vars(Exit /\ killed)

-----------------------------------------------------------------------------
(* Properties *)

(* The state stays in its types; in particular no result channel ever      *)
(* holds more than its two results.                                        *)
TypeOK ==
  /\ made \in Mixes
  /\ at \in [Requests -> {"idle", "entering", "registered", "requested",
                          "starting", "waiting", "crediting", "cancelling",
                          "settling", "closing", "closed", "draining",
                          "stopping", "resuming", "returned"}]
  /\ ret \in [Requests -> {"none", "answer", "failed", "refused", "cancelled"}]
  /\ cancelled \subseteq Streams
  /\ \A r \in Requests :
       channel[r] \in BoundedSeq({"accepted", "data", "final", "err"}, 2)
  /\ pending \subseteq Requests /\ Cardinality(pending) <= MaxPending
  /\ shutdown \in BOOLEAN /\ transportErr \in BOOLEAN
  /\ once \in Requests \cup {Reader, NoOne, "done"} /\ sweep \subseteq Requests
  /\ reader \in {"reading", "delivering", "stopping", "ended"}
  /\ held.id \in Requests \cup {NoOne}
  /\ {killed, running, stdinOpen} \subseteq BOOLEAN
  /\ helper \in [Requests -> {"idle", "unread", "active", "accepted", "answered"}]
  /\ \A r \in Requests : credit[r] \in 0..(Window + Chunks) /\ sent[r] \in 0..Chunks

(* A request is ended once: by its entry, which the reader or stopTransport*)
(* takes but never both, or by the one last result made from it.  This is  *)
(* what keeps two results enough for a plain call.                         *)
OneOutcome ==
  \A r \in Requests :
    Cardinality({x \in {"entry", "sweep", "held"} :
                   CASE x = "entry" -> r \in pending
                     [] x = "sweep" -> r \in sweep
                     [] x = "held" -> held = Frame(r, "final")})
      + Cardinality({i \in DOMAIN channel[r] : channel[r][i] \in Outcomes}) <= 1

(* Giving up on a request never costs the helper: while nobody has met a   *)
(* broken pipe, every frame of a running helper still finds its entry      *)
(* (runtime_process_test.go:279, "confirmed request cancellation killed    *)
(* the helper generation").                                                *)
CancelIsHarmless == reader = "stopping" /\ running => transportErr

(* Nothing goes on unwatched: when the goroutine of a request is gone, the *)
(* helper no longer works on the request, or it is being put down.         *)
NothingRunsUnwatched ==
  \A r \in Requests :
    at[r] = "returned" /\ Active(r) /\ running => killed \/ transportErr

(* A plain call whose answer was delivered returns it, however the end of  *)
(* the reader races it (runtime_process.go:905-909, :917-921).             *)
AnswersAreReturned ==
  \A r \in Calls :
    at[r] = "returned" /\ ret[r] = "failed" => ~Contains(channel[r], "final")

(* Every request has one outcome, which reaches its caller, and what nobody*)
(* waits for any more is cancelled without harm to the others.             *)
RequestsEndOnce ==
  /\ TypeOK
  /\ OneOutcome
  /\ CancelIsHarmless
  /\ NothingRunsUnwatched
  /\ AnswersAreReturned

AllReturned == \A r \in Requests : at[r] \in {"idle", "returned"}

(* The sweep waits at a full channel that nobody will read: its consumer   *)
(* waits for the sweep, or has left.                                       *)
SweepStuck ==
  \E r \in sweep :
    Len(channel[r]) = 2 /\ at[r] \in {"stopping", "resuming", "returned"}

(* The death of the helper releases every request, wherever it is; the one *)
(* way to hang is a sweep stuck at a stream.                               *)
DeathReleasesRequests == ~running ~> (AllReturned \/ SweepStuck)

(* Shutdown comes back, with the process gone or killed, even if the       *)
(* helper never answers; again only such a sweep can hold it.              *)
ShutdownReturns ==
  at[Bye] # "idle"
    ~> \/ at[Bye] = "returned" /\ (killed \/ ~running)
       \/ SweepStuck

(* Without the exception: after a disconnect or a crash of the helper,     *)
(* "already-dispatched mutations/processes must project outcome-unknown"   *)
(* (test/sshfixture/README.md:128-129), that is, they return.              *)
DeadHelperEndsRequests == ~running ~> AllReturned
=============================================================================
