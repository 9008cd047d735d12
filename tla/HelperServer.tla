---------------------------- MODULE HelperServer ----------------------------
(***************************************************************************)
(* The helper on the remote host (internal/remotehelper/server.go, with    *)
(* bash.go and terminal.go): one loop reads the frames of the client, one  *)
(* goroutine handles each request, and frames go out through one writer.   *)
(* Requests are registered, limited, cancelled, answered once and then     *)
(* remembered by a tombstone, so that what the client sent before it saw   *)
(* the answer is not taken for a broken protocol.                          *)
(*                                                                         *)
(* Abstraction: three methods stand for what the server distinguishes: a   *)
(* call, which may need the one slot for answers that carry a blob, a Bash *)
(* command and a terminal.  A chunk of output costs one unit of credit.    *)
(* The processes of a command are its leader and, for Bash, the rest of    *)
(* its group, which may have sent its output elsewhere.                    *)
(* The client is the one of internal/remotessh: it draws fresh identities, *)
(* cancels what it sent, returns the credit of what it read and feeds a    *)
(* terminal until it sees its end.  It reads at once what is written: that *)
(* answers and late frames cross shows in the frames still to be read.     *)
(***************************************************************************)
EXTENDS Naturals, Sequences, FiniteSets, Functions

CONSTANTS
  Requests,         \* identities the client draws
  MaxRequests,      \* maxConcurrentRequests
  MaxProcesses,     \* maxConcurrentProcesses
  MaxTombstones,    \* maxRequestTombstones
  MaxCredit,        \* MaxStreamChunkBytes, in chunks
  MaxControls,      \* capacity of the control channel of a terminal
  MaxCancels,       \* bound: cancels and timeouts
  MaxInput,         \* bound: frames of the client in the pipe
  MaxChunks         \* bound: chunks one process prints

ASSUME ServerBounds ==
  /\ {MaxTombstones, MaxCredit} \subseteq Nat \ {0}
  /\ {MaxRequests, MaxProcesses, MaxControls, MaxCancels, MaxInput, MaxChunks} \subseteq Nat

VARIABLES
  input,        \* frames of the client not yet read
  client,       \* what the client sent and saw
  serve,        \* the loop: where it is, why it failed
  active,       \* the requests registered and not completed
  tombstones,   \* the requests completed, oldest first, and those forgotten since
  request,      \* the goroutine of each request
  broken        \* writes fail

serverVars == <<input, client, serve, active, tombstones, request, broken>>

Methods == {"call", "bash", "terminal"}
IsProcess(id) == request[id].method \in {"bash", "terminal"}
Unused == [method |-> "none", at |-> "none", cancelled |-> FALSE, credit |-> 0,
           controls |-> 0, chunks |-> 0, leader |-> FALSE, group |-> FALSE,
           slot |-> FALSE, answer |-> "none"]

NoTombstones == [queue |-> <<>>, forgotten |-> {}]

ServerInit ==
  /\ input = <<>>
  /\ client = [seen |-> [id \in Requests |-> "unused"], cancelled |-> {}, cancels |-> 0,
               fed |-> {}, gone |-> FALSE, asked |-> FALSE, shut |-> FALSE]
  /\ serve = [at |-> "reading", fault |-> "none"]
  /\ active = {} /\ tombstones = NoTombstones
  /\ request = [id \in Requests |-> Unused]
  /\ broken = FALSE

-----------------------------------------------------------------------------
(* The client.                                                             *)
(* What is sent once the loop has stopped reading is lost.                 *)
Sends(frames) ==
  serve.at = "reading" /\ Len(input) < MaxInput /\ input' = input \o frames
Frame(kind, id) == [kind |-> kind, id |-> id, method |-> "none"]

SendRequest(id, m) ==
  /\ client.seen[id] = "unused" /\ ~client.gone /\ ~client.asked
  /\ client' = [client EXCEPT !.seen[id] = "sent"]
  /\ Sends(<<[Frame("request", id) EXCEPT !.method = m]>> \o
           IF m \in {"bash", "terminal"} THEN <<Frame("credit", id)>> ELSE <<>>)
  /\ UNCHANGED <<serve, active, tombstones, request, broken>>

SendCancel(id) ==
  /\ client.seen[id] \in {"sent", "accepted"} /\ id \notin client.cancelled /\ ~client.gone
  /\ client.cancels < MaxCancels
  /\ client' = [client EXCEPT !.cancelled = @ \union {id}, !.cancels = @ + 1]
  /\ Sends(<<Frame("cancel", id)>>)
  /\ UNCHANGED <<serve, active, tombstones, request, broken>>

(* Typed input, as much as fits the control channel and one more.          *)
SendInput(id) ==
  /\ client.seen[id] = "accepted" /\ request[id].method = "terminal"
  /\ id \notin client.fed /\ ~client.gone
  /\ client' = [client EXCEPT !.fed = @ \union {id}]
  /\ \E n \in 1 .. MaxControls + 1 : Sends([k \in 1..n |-> Frame("input", id)])
  /\ UNCHANGED <<serve, active, tombstones, request, broken>>

SendShutdown ==
  /\ ~client.asked /\ ~client.gone
  /\ client' = [client EXCEPT !.asked = TRUE]
  /\ Sends(<<Frame("shutdown", "none")>>)
  /\ UNCHANGED <<serve, active, tombstones, request, broken>>

(* The connection ends: no more frames, and no more answers.               *)
ClientGoes ==
  /\ ~client.gone
  /\ client' = [client EXCEPT !.gone = TRUE] /\ broken' = TRUE
  /\ input' = IF serve.at = "reading" THEN Append(input, Frame("eof", "none")) ELSE input
  /\ UNCHANGED <<serve, active, tombstones, request>>

(* A frame of the helper reaches the client, or is lost: whether it was    *)
(* written is what the helper knows.  Nothing may follow an answer.        *)
Writes(id, kind) ==
  /\ ~broken
  /\ client' = [client EXCEPT !.seen[id] =
       IF @ = "ended" THEN "confused" ELSE IF kind = "data" THEN @ ELSE kind]
  /\ input' = IF kind = "data" /\ serve.at = "reading"
                THEN Append(input, Frame("credit", id)) ELSE input

WriteFails == broken /\ UNCHANGED <<input, client>>

-----------------------------------------------------------------------------
(* The table of requests, under Server.mu.                                 *)

(* Mutant: only the processes are counted.                                 *)
AnyNumber(m) ==
  /\ m \in {"bash", "terminal"}
  /\ Cardinality({id \in active : IsProcess(id)}) >= MaxProcesses

Limited(m) ==
  \/ Cardinality(active) >= MaxRequests
  \/ /\ m \in {"bash", "terminal"}
     /\ Cardinality({id \in active : IsProcess(id)}) >= MaxProcesses

(* Mutant: completed requests are not remembered.                          *)
NoTombstone(id) == tombstones

Pruned == [queue |-> Tail(tombstones.queue),
           forgotten |-> tombstones.forgotten \union {Head(tombstones.queue)}]

addTombstone(id) ==
  IF serve.at # "reading" THEN tombstones ELSE
  LET kept == IF Len(tombstones.queue) >= MaxTombstones THEN Pruned ELSE tombstones
  IN [kept EXCEPT !.queue = Append(@, id)]

(* A tombstone older than a minute is pruned by the next use of the table. *)
pruneTombstones ==
  /\ tombstones.queue # <<>> /\ serve.at = "reading"
  /\ tombstones' = Pruned
  /\ UNCHANGED <<input, client, serve, active, request, broken>>

Completed(id) == id \notin active /\ id \in Range(tombstones.queue)

Cancelled(ids) ==
  [id \in Requests |->
     IF id \in ids \intersect active THEN [request[id] EXCEPT !.cancelled = TRUE]
     ELSE request[id]]

(* The first half of completeRequest; the answer is written after it.      *)
Leaves(id) == active' = active \ {id} /\ tombstones' = addTombstone(id)

-----------------------------------------------------------------------------
(* The loop of Serve.                                                      *)
Reads(kind) == serve.at = "reading" /\ input # <<>> /\ Head(input).kind = kind
Id == Head(input).id
Goes == input' = Tail(input) /\ UNCHANGED serve

(* The loop stops: nothing it would have read or looked up matters now.    *)
Stops(at, fault) ==
  /\ serve' = [at |-> at, fault |-> fault]
  /\ input' = <<>> /\ tombstones' = NoTombstones

FailsUnknown ==
  Stops("closing", IF Id \in tombstones.forgotten THEN "forgotten" ELSE "unknown")

registerRequest ==
  LET r == [Unused EXCEPT !.method = Head(input).method]
  IN /\ Reads("request")
     /\ \/ /\ ~Limited(r.method) /\ Goes
           /\ active' = active \union {Id}
           /\ request' = [request EXCEPT ![Id] = [r EXCEPT !.at = "begin"]]
           /\ UNCHANGED <<client, tombstones>>
        \/ /\ Limited(r.method)
           /\ request' = [request EXCEPT ![Id] =
                [r EXCEPT !.at = "done", !.answer = "limited"]]
           /\ \/ /\ ~broken /\ client' = [client EXCEPT !.seen[Id] = "ended"]
                 /\ tombstones' = addTombstone(Id) /\ Goes
              \/ broken /\ Stops("closing", "write") /\ UNCHANGED client
           /\ UNCHANGED active
     /\ UNCHANGED broken

(* A frame about a request: it is looked up, or known to be over.          *)
cancelRequest ==
  /\ Reads("cancel")
  /\ \/ Id \in active /\ request' = Cancelled({Id}) /\ Goes /\ UNCHANGED tombstones
     \/ Completed(Id) /\ Goes /\ UNCHANGED <<request, tombstones>>
     \/ Id \notin active /\ ~Completed(Id) /\ FailsUnknown /\ UNCHANGED request
  /\ UNCHANGED <<client, active, broken>>

pushCredit ==
  /\ Reads("credit")
  /\ \/ Completed(Id) /\ Goes /\ UNCHANGED <<request, tombstones>>
     \/ Id \notin active /\ ~Completed(Id) /\ FailsUnknown /\ UNCHANGED request
     \/ /\ Id \in active /\ request[Id].credit < MaxCredit
        /\ request' = [request EXCEPT ![Id].credit = @ + 1]
        /\ Goes /\ UNCHANGED tombstones
     \/ /\ Id \in active /\ request[Id].credit >= MaxCredit
        /\ Stops("closing", "credit") /\ UNCHANGED request
  /\ UNCHANGED <<client, active, broken>>

(* pushTerminal does not wait: a full channel ends the helper.             *)
pushTerminal ==
  /\ Reads("input")
  /\ \/ Completed(Id) /\ Goes /\ UNCHANGED <<request, tombstones>>
     \/ Id \notin active /\ ~Completed(Id) /\ FailsUnknown /\ UNCHANGED request
     \/ /\ Id \in active /\ request[Id].controls < MaxControls
        /\ request' = [request EXCEPT ![Id].controls = @ + 1]
        /\ Goes /\ UNCHANGED tombstones
     \/ /\ Id \in active /\ request[Id].controls >= MaxControls
        /\ Stops("closing", "overflow") /\ UNCHANGED request
  /\ UNCHANGED <<client, active, broken>>

Goroutines == {id \in Requests : request[id].at \notin {"none", "done"}}

ShutdownBegins ==
  /\ Reads("shutdown") /\ Stops("draining", "none")
  /\ request' = Cancelled(Requests)
  /\ UNCHANGED <<client, active, broken>>

(* Mutant: the answer does not wait for the requests.                      *)
NobodyWaited == TRUE

AllDone == Goroutines = {}

ShutdownAnswers ==
  /\ serve.at = "draining" /\ AllDone
  /\ serve' = [serve EXCEPT !.at = "closing"]
  /\ client' = [client EXCEPT !.shut = ~broken]
  /\ UNCHANGED <<input, active, tombstones, request, broken>>

(* The end of the input, or fail() which closed it.                        *)
InputEnds ==
  /\ serve.at = "reading"
  /\ \/ Reads("eof") /\ Stops("closing", "none")
     \/ serve.fault = "write" /\ Stops("closing", "write")
  /\ UNCHANGED <<client, active, request, broken>>

(* The deferred calls of Serve: everything is cancelled, the output is     *)
(* closed, and the requests are waited for.                                *)
ServeCloses ==
  /\ serve.at = "closing"
  /\ request' = Cancelled(Requests) /\ broken' = TRUE
  /\ serve' = [serve EXCEPT !.at = "waiting"]
  /\ UNCHANGED <<input, client, active, tombstones>>

ServeReturns ==
  /\ serve.at = "waiting" /\ Goroutines = {}
  /\ serve' = [serve EXCEPT !.at = "returned"]
  /\ UNCHANGED <<input, client, active, tombstones, request, broken>>

-----------------------------------------------------------------------------
(* The goroutine of a request.                                             *)
Becomes(id, r) ==
  /\ request' = [request EXCEPT ![id] = r]
  /\ UNCHANGED <<serve, active, tombstones, broken>>
Silent == UNCHANGED <<input, client>>
Answers(r, answer) ==
  [r EXCEPT !.at = "complete", !.answer = answer, !.credit = 0, !.controls = 0, !.chunks = 0]

(* terminateProcessGroup, whose last signal is one that nothing survives.  *)
Killed(r) == [r EXCEPT !.leader = FALSE, !.group = FALSE]

TimesOut(id) ==
  /\ id \in active /\ ~request[id].cancelled /\ client.cancels < MaxCancels
  /\ request' = [request EXCEPT ![id].cancelled = TRUE]
  /\ client' = [client EXCEPT !.cancels = @ + 1]
  /\ UNCHANGED <<input, serve, active, tombstones, broken>>

(* Mutant: a blob is prepared while another one is in memory.              *)
AnySlot == TRUE

SlotFree == \A id \in Requests : ~request[id].slot

handleRequest(id) ==
  LET r == request[id]
  IN /\ r.at = "begin" /\ Silent
     /\ \/ r.cancelled /\ Becomes(id, Answers(r, "cancelled"))
        \/ /\ ~r.cancelled /\ r.method = "call"
           /\ \E a \in {"response", "error"} : Becomes(id, Answers(r, a))
        \/ /\ ~r.cancelled /\ r.method = "call" /\ SlotFree
           /\ Becomes(id, [r EXCEPT !.at = "preparing", !.slot = TRUE])
        \/ ~r.cancelled /\ IsProcess(id) /\ Becomes(id, Answers(r, "error"))
        \/ /\ ~r.cancelled /\ IsProcess(id)
           /\ Becomes(id, [r EXCEPT !.at = "started", !.leader = TRUE,
                                         !.group = r.method = "bash"])

(* The blob is ready, or the slot is given back with an error.             *)
Prepared(id) ==
  LET r == request[id]
  IN /\ r.at = "preparing" /\ Silent
     /\ \/ Becomes(id, Answers(r, "response"))
        \/ Becomes(id, Answers([r EXCEPT !.slot = FALSE],
                               IF r.cancelled THEN "cancelled" ELSE "error"))

(* The process is announced; a write that fails kills it.                  *)
Announces(id) ==
  LET r == request[id]
  IN /\ r.at = "started"
     /\ \/ Writes(id, "accepted") /\ Becomes(id, [r EXCEPT !.at = "reading"])
        \/ WriteFails /\ Becomes(id, Answers(Killed(r), "unknown"))

(* The leader and the others of the group end, by themselves or by the     *)
(* signals of the goroutine that a cancellation starts.                    *)
ProcessEnds(id) ==
  LET r == request[id]
  IN /\ r.at \in {"reading", "chunk", "ended"} /\ Silent
     /\ \/ r.leader /\ Becomes(id, [r EXCEPT !.leader = FALSE])
        \/ r.group /\ Becomes(id, [r EXCEPT !.group = FALSE])

TakesControl(id) ==
  LET r == request[id]
  IN /\ r.at \in {"reading", "chunk"} /\ r.controls > 0 /\ ~r.cancelled
     /\ Becomes(id, [r EXCEPT !.controls = @ - 1]) /\ Silent

(* A chunk is read; more than the limit of Bash kills it.                  *)
ProcessPrints(id) ==
  LET r == request[id]
  IN /\ r.at = "reading" /\ (r.leader \/ r.group) /\ Silent
     /\ \/ r.chunks < MaxChunks /\ Becomes(id, [r EXCEPT !.at = "chunk", !.chunks = @ + 1])
        \/ r.chunks = MaxChunks /\ r.method = "bash" /\ Becomes(id, Answers(Killed(r), "error"))

(* Mutant: credit is not used up.                                          *)
FreeCredit(r) == r

Spent(r) == [r EXCEPT !.credit = @ - 1]

(* takeCredit, and the chunk goes out.                                     *)
takeCredit(id) ==
  LET r == request[id]
  IN /\ r.at = "chunk"
     /\ \/ /\ r.credit > 0 /\ Writes(id, "data")
           /\ Becomes(id, [Spent(r) EXCEPT !.at = "reading"])
        \/ r.credit > 0 /\ WriteFails /\ Becomes(id, Answers(Killed(r), "unknown"))
        \/ /\ r.credit = 0 /\ r.cancelled
           /\ Becomes(id, Answers(Killed(r), "cancelled")) /\ Silent

(* The output ends when nobody holds its other end any more: the leader    *)
(* and the others of its group may have let it go and live on.  It also    *)
(* ends when the cancellation of a Bash closes its pipe.  A read that      *)
(* fails in another way kills the command.                                 *)
OutputEnds(id) ==
  LET r == request[id]
      killed == Killed(r)
  IN /\ r.at = "reading" /\ Silent
     /\ \/ Becomes(id, [r EXCEPT !.at = "ended"])
        \/ ~r.cancelled /\ r.method = "bash" /\ Becomes(id, Answers(killed, "error"))
        \/ ~r.cancelled /\ r.method = "terminal" /\ Becomes(id, [killed EXCEPT !.at = "ended"])

(* Mutant: the rest of the group outlives the command.                     *)
LeaderWaited(r) == r

(* What runBash does about the group of a command that was cancelled; that *)
(* of one that ended by itself is left alone.                              *)
GroupWaited(r) == IF r.method = "bash" THEN Killed(r) ELSE r

ProcessWaited(id) ==
  LET r == request[id]
  IN /\ r.at = "ended" /\ ~r.leader /\ Silent
     /\ \/ r.cancelled /\ Becomes(id, Answers(GroupWaited(r), "cancelled"))
        \/ /\ ~r.cancelled
           /\ \E a \in {"response", "error", "unknown"} : Becomes(id, Answers(r, a))

(* completeRequest: out of the table first, then the answer.               *)
completeRequest(id) ==
  /\ request[id].at = "complete" /\ Leaves(id)
  /\ request' = [request EXCEPT ![id].at = "answer", ![id].cancelled = TRUE]
  /\ UNCHANGED <<input, client, serve, broken>>

writeAnswer(id) ==
  /\ request[id].at = "answer"
  /\ request' = [request EXCEPT ![id].at = "done", ![id].slot = FALSE]
  /\ \/ Writes(id, "ended") /\ UNCHANGED serve
     \/ /\ WriteFails
        /\ serve' = IF serve.fault = "none" THEN [serve EXCEPT !.fault = "write"] ELSE serve
  /\ UNCHANGED <<active, tombstones, broken>>

-----------------------------------------------------------------------------
RequestStep(id) ==
  \/ TimesOut(id) \/ handleRequest(id) \/ Prepared(id) \/ Announces(id)
  \/ ProcessEnds(id) \/ TakesControl(id) \/ ProcessPrints(id) \/ takeCredit(id)
  \/ OutputEnds(id) \/ ProcessWaited(id) \/ completeRequest(id) \/ writeAnswer(id)

ServerNext ==
  \/ \E id \in Requests, m \in Methods : SendRequest(id, m)
  \/ \E id \in Requests : SendCancel(id) \/ SendInput(id)
  \/ SendShutdown \/ ClientGoes
  \/ registerRequest \/ cancelRequest \/ pushCredit \/ pushTerminal
  \/ ShutdownBegins \/ ShutdownAnswers \/ InputEnds \/ ServeCloses \/ ServeReturns
  \/ pruneTombstones
  \/ \E id \in Requests : RequestStep(id)

ServerSpec == ServerInit /\ [][ServerNext]_serverVars
-----------------------------------------------------------------------------
Alive == {id \in Requests : request[id].leader}

(* A request is answered once and last: its process has ended by then, and *)
(* the whole group of a Bash that was cancelled; no more requests and      *)
(* processes run than are allowed, none that is over holds a place, one    *)
(* blob is held at most; a shutdown is answered after every other request, *)
(* and a helper that returned leaves no request and no process that leads  *)
(* a command, whatever failed on the way (server.go:139-231, :474-492,     *)
(* :580-597, bash.go:76-137).  What a command put into the background with *)
(* its output elsewhere lives on, unless the command is cancelled.         *)
RequestsEndCleanly ==
  /\ \A id \in Requests :
       /\ request[id].at \in {"complete", "answer", "done"} =>
            /\ id \notin Alive
            /\ request[id].answer = "cancelled" => ~request[id].group
       /\ client.seen[id] # "confused"
  /\ Cardinality(active) <= MaxRequests /\ Cardinality(Alive) <= MaxProcesses
  /\ \A id \in active : request[id].at \notin {"none", "answer", "done"}
  /\ Cardinality({id \in Requests : request[id].slot}) <= 1
  /\ client.shut \/ serve.at = "returned" => Goroutines = {} /\ active = {} /\ Alive = {}

(* A client that follows the protocol is not cut off: the loop ends with a *)
(* protocol error only for a frame about a request that was completed and  *)
(* whose tombstone has expired or made room for another, or for a terminal *)
(* that was fed faster than it reads; never because a cancel, a credit or  *)
(* typed input crossed the answer on its way (server.go:494-540, :559-582, *)
(* bash.go:186-199, terminal.go:44-52).                                    *)
LawfulClientIsServed ==
  serve.fault \notin {"unknown", "credit"}

(* The promise of the helper to both sides.                                *)
RequestsAreServed == RequestsEndCleanly /\ LawfulClientIsServed
=============================================================================
