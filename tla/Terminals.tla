----------------------------- MODULE Terminals -----------------------------
(***************************************************************************)
(* The terminal of one thread, from the shell to the pane that shows it.   *)
(* A local thread is served by the Manager of internal/terminal/manager.go,*)
(* which owns a pseudo-terminal with a goroutine that reads it and one that*)
(* waits for its shell.  A remote thread is served by the RemoteManager of *)
(* internal/terminal/remote.go, which consumes the event channel of a      *)
(* terminal session of the helper client (remotessh/runtime_terminal.go),  *)
(* under the binding of the thread to a task lease (appservice/terminal.go).*)
(* The pane (frontend/src/components/TerminalPane.vue) loads a snapshot,   *)
(* then applies numbered events, and loads again when it finds a gap.      *)
(*                                                                         *)
(* Abstraction: output is a sequence of chunks, one per read; a chunk is   *)
(* the terminal and its number there.  Input and the size of the window    *)
(* change nothing kept here.  Calls of the pane are answered, and events   *)
(* delivered, in any order.                                                *)
(***************************************************************************)
EXTENDS Naturals, Sequences, SequencesExt, FiniteSetsExt

CONSTANTS
  MaxTerminals,   \* bound: terminals ever started
  MaxOutput,      \* bound: chunks all terminals print
  MaxLoads,       \* bound: loads the pane makes, switches of thread included
  MaxBindings,    \* bound: task leases the thread is bound to
  Channel,        \* capacity of the event channel of a remote terminal
  Replay          \* chunks a replay buffer keeps

(* The buffers hold something.                                             *)
ASSUME TerminalBuffers == Channel \in Nat \ {0} /\ Replay \in Nat \ {0}

VARIABLES
  service,    \* the service and the manager of the thread
  ptys,       \* the local terminals, in the order they were started
  remotes,    \* the remote terminals, in the order they were opened
  closers,    \* remote terminals an Unbind or Shutdown is about to close
  loads,      \* the calls of the pane; a load's token is its place
  wire,       \* events emitted and not yet delivered
  pane        \* what the pane shows and has applied

terminalVars == <<service, ptys, remotes, closers, loads, wire, pane>>

None == 0
LocalThread == service.kind = "local"
Kept(output) == SubSeq(output, 1 + IF Len(output) > Replay THEN Len(output) - Replay ELSE 0,
                       Len(output))
appendReplay(output, chunk) == Kept(Append(output, chunk))
Chunks(i, n) == [k \in 1..n |-> <<i, k>>]

TerminalEvent(type, x, data) ==
  [type |-> type, generation |-> x.generation, sequence |-> x.sequence, data |-> data]
Emit(e) == wire' = wire \union {e}

Printed == FoldLeft(LAMBDA n, x : n + x.printed, 0, ptys)
             + FoldLeft(LAMBDA n, x : n + x.received, 0, remotes)

NoSnapshot == [generation |-> 0, sequence |-> 0, output |-> <<>>, running |-> FALSE]

(* Mutant: the snapshot is taken before the last read is numbered.         *)
StaleSnapshot(x) ==
  [generation |-> x.generation, sequence |-> x.sequence, running |-> TRUE,
   output |-> IF x.output = <<>> THEN <<>> ELSE Front(x.output)]

SnapshotOf(x) ==
  [generation |-> x.generation, sequence |-> x.sequence, output |-> x.output,
   running |-> TRUE]

TerminalInit ==
  /\ service \in [kind : {"local", "remote"}, closed : {FALSE}, session : {None},
                  generation : {0}, bound : {None}, bindings : {0}]
  /\ ptys = <<>> /\ remotes = <<>> /\ closers = {} /\ loads = <<>> /\ wire = {}
  /\ pane = [token |-> 0, hydrated |-> FALSE, loading |-> FALSE, away |-> TRUE,
             pending |-> {}, recovering |-> None, generation |-> 0,
             sequence |-> 0, shown |-> <<>>, running |-> FALSE]

-----------------------------------------------------------------------------
(* The pane.                                                               *)

(* hydrate(): a load replaces the one under way, whose answer is dropped.  *)
Hydrating(p, n) == [p EXCEPT !.token = n, !.hydrated = FALSE, !.pending = {},
                             !.loading = TRUE]
NewLoad(op) == Append(loads, [op |-> op, at |-> "called", lease |-> None,
                              terminal |-> None, answer |-> NoSnapshot])

Ahead(p, events) ==
  {e \in events : e.generation = p.generation /\ e.sequence > p.sequence}

(* Mutant: an event ahead of the next one is applied at once.              *)
InOrderOrNot(p, events) == Ahead(p, events)

(* The events that follow what was applied, without a hole.                *)
InOrder(p, events) ==
  {e \in Ahead(p, events) :
     \A n \in p.sequence + 1 .. e.sequence :
       \E f \in Ahead(p, events) : f.sequence = n}

(* applyEvent over events sorted by sequence, and whether a gap is left.   *)
Applied(p, events) ==
  LET next == SetToSortSeq(InOrder(p, events), LAMBDA e, f : e.sequence < f.sequence)
  IN [p EXCEPT !.sequence = IF next = <<>> THEN @ ELSE Last(next).sequence,
       !.shown = FoldLeft(LAMBDA out, e : out \o e.data, @, next),
       !.running = @ /\ \A e \in Range(next) : e.type # "exit"]
GapLeft(p, events) ==
  Ahead(p, events) # InOrder(p, events) /\ p.recovering = None

(* A gap starts a load, unless the load of an earlier gap is under way.    *)
ApplyEvents(p, events, settled) ==
  LET q == Applied(p, events)
      n == Len(settled) + 1
  IN IF GapLeft(p, events)
       THEN /\ n <= MaxLoads
            /\ loads' = Append(settled, NewLoad("snapshot")[n])
            /\ pane' = [Hydrating(q, n) EXCEPT !.recovering = n]
       ELSE loads' = settled /\ pane' = q

(* handleEvent.                                                            *)
Deliver(e) ==
  /\ wire' = wire \ {e}
  /\ \/ pane.away /\ UNCHANGED <<pane, loads>>
     \/ /\ ~pane.away /\ ~pane.hydrated
        /\ pane' = [pane EXCEPT !.pending = @ \union {e}] /\ UNCHANGED loads
     \/ ~pane.away /\ pane.hydrated /\ ApplyEvents(pane, {e}, loads)
  /\ UNCHANGED <<service, ptys, remotes, closers>>

(* loadActiveTerminal, when the thread becomes the active one.             *)
ShowThread ==
  /\ pane.away /\ Len(loads) < MaxLoads
  /\ pane' = [Hydrating(pane, Len(loads) + 1) EXCEPT !.away = FALSE,
                !.generation = 0, !.sequence = 0, !.shown = <<>>, !.running = FALSE]
  /\ loads' = NewLoad("snapshot")
  /\ UNCHANGED <<service, ptys, remotes, closers, wire>>

(* Another thread is shown: its loads draw tokens too.                     *)
LeaveThread ==
  /\ ~pane.away /\ Len(loads) < MaxLoads
  /\ loads' = Append(loads, [NewLoad("other")[Len(loads) + 1] EXCEPT !.at = "done"])
  /\ pane' = [Hydrating(pane, Len(loads) + 1) EXCEPT !.away = TRUE]
  /\ UNCHANGED <<service, ptys, remotes, closers, wire>>

startTerminal ==
  /\ ~pane.away /\ ~pane.loading /\ Len(loads) < MaxLoads
  /\ pane' = Hydrating(pane, Len(loads) + 1)
  /\ loads' = NewLoad("start")
  /\ UNCHANGED <<service, ptys, remotes, closers, wire>>

Recovered(p, t) == [p EXCEPT !.recovering = IF @ = t THEN None ELSE @]
Filled(p, s) ==
  [p EXCEPT !.hydrated = TRUE, !.loading = FALSE, !.pending = {}, !.running = s.running,
            !.generation = s.generation, !.sequence = s.sequence, !.shown = s.output]

(* The answer of a load reaches the pane: nothing of it is used once       *)
(* another load was begun.                                                 *)
LoadReturns(t) ==
  LET settled == [loads EXCEPT ![t].at = "done", ![t].answer = NoSnapshot]
      q == Filled(pane, loads[t].answer)
  IN /\ loads[t].at = "answered"
     /\ \/ /\ t # pane.token
           /\ pane' = Recovered(pane, t) /\ loads' = settled
        \/ /\ t = pane.token
           /\ IF GapLeft(q, pane.pending)
                THEN ApplyEvents(q, pane.pending, settled)
                ELSE /\ pane' = Recovered(Applied(q, pane.pending), t)
                     /\ loads' = settled
     /\ UNCHANGED <<service, ptys, remotes, closers, wire>>

LoadFails(t) ==
  /\ loads[t].at = "failed"
  /\ loads' = [loads EXCEPT ![t].at = "done"]
  /\ pane' = Recovered(IF t # pane.token THEN pane
       ELSE [pane EXCEPT !.hydrated = TRUE, !.loading = FALSE, !.pending = {}], t)
  /\ UNCHANGED <<service, ptys, remotes, closers, wire>>

-----------------------------------------------------------------------------
(* A local thread.                                                         *)
Answered(t, s) == [loads EXCEPT ![t].at = "answered", ![t].answer = s]
Failed(t) == [loads EXCEPT ![t].at = "failed"]

(* Manager.Snapshot looks the session up under the lock of the manager ... *)
LocalSnapshot(t) ==
  /\ LocalThread /\ loads[t].at = "called" /\ loads[t].op = "snapshot"
  /\ \/ service.closed /\ loads' = Failed(t)
     \/ loads' = IF service.session = None THEN Answered(t, NoSnapshot)
                 ELSE [loads EXCEPT ![t].at = "found", ![t].terminal = service.session]
  /\ UNCHANGED <<service, ptys, remotes, closers, wire, pane>>

(* ... and reads it later under that of the session, which may have ended. *)
LocalReplay(t) ==
  /\ loads[t].at = "found"
  /\ loads' = Answered(t, SnapshotOf(ptys[loads[t].terminal]))
  /\ UNCHANGED <<service, ptys, remotes, closers, wire, pane>>

(* Manager.Start, under its lock all the time: a session that runs is      *)
(* resized, which may fail.                                                *)
ManagerStart(t) ==
  /\ LocalThread /\ loads[t].at = "called" /\ loads[t].op = "start"
  /\ \/ loads' = Failed(t) /\ UNCHANGED <<service, ptys>>
     \/ /\ ~service.closed /\ service.session # None
        /\ ~ptys[service.session].stopping
        /\ loads' = Answered(t, SnapshotOf(ptys[service.session]))
        /\ UNCHANGED <<service, ptys>>
     \/ /\ ~service.closed /\ service.session = None /\ Len(ptys) < MaxTerminals
        /\ ptys' = Append(ptys, [generation |-> service.generation + 1, sequence |-> 0,
             output |-> <<>>, printed |-> 0, read |-> 0, reader |-> "reading",
             shell |-> "running", stopping |-> FALSE, closed |-> FALSE])
        /\ service' = [service EXCEPT !.generation = @ + 1, !.session = Len(ptys) + 1]
        /\ loads' = Answered(t, SnapshotOf(ptys'[Len(ptys) + 1]))
  /\ UNCHANGED <<remotes, closers, wire, pane>>

(* The shell writes, or ends; what it left behind may go on to write.      *)
PtyPrints(i) ==
  /\ ~ptys[i].closed /\ Printed < MaxOutput
  /\ ptys' = [ptys EXCEPT ![i].printed = @ + 1]
  /\ UNCHANGED <<service, remotes, closers, loads, wire, pane>>

PtyExits(i) ==
  /\ ptys[i].shell = "running"
  /\ ptys' = [ptys EXCEPT ![i].shell = "exited"]
  /\ UNCHANGED <<service, remotes, closers, loads, wire, pane>>

(* read: what it has read it numbers later, whatever became of the session *)
(* meanwhile.  An event is on the wire once it is numbered: it is emitted, *)
(* and reaches the pane, at any time after that.                           *)
ManagerReads(i) ==
  /\ ptys[i].reader = "reading" /\ ~ptys[i].closed /\ ptys[i].read < ptys[i].printed
  /\ ptys' = [ptys EXCEPT ![i].reader = "output"]
  /\ UNCHANGED <<service, remotes, closers, loads, wire, pane>>

ManagerAppends(i) ==
  /\ ptys[i].reader = "output"
  /\ LET chunk == <<i, ptys[i].read + 1>>
         p == [ptys[i] EXCEPT !.reader = "reading", !.read = @ + 1, !.sequence = @ + 1,
                              !.output = appendReplay(@, chunk)]
     IN ptys' = [ptys EXCEPT ![i] = p] /\ Emit(TerminalEvent("output", p, <<chunk>>))
  /\ UNCHANGED <<service, remotes, closers, loads, pane>>

(* read ends: the pty was closed, or its other end was.  The error is      *)
(* reported unless the session is stopping or its shell was waited for     *)
(* when that is asked.                                                     *)
ManagerReadEnds(i) ==
  /\ ptys[i].reader = "reading"
  /\ \/ ptys[i].closed
     \/ ptys[i].shell # "running" /\ ptys[i].read = ptys[i].printed
  /\ \/ ptys' = [ptys EXCEPT ![i].reader = "gone"]
     \/ /\ ~ptys[i].stopping /\ ptys[i].shell \in {"running", "exited"}
        /\ ptys' = [ptys EXCEPT ![i].reader = "error"]
  /\ UNCHANGED <<service, remotes, closers, loads, wire, pane>>

ManagerTellsError(i) ==
  /\ ptys[i].reader = "error"
  /\ LET p == [ptys[i] EXCEPT !.reader = "gone", !.sequence = @ + 1]
     IN ptys' = [ptys EXCEPT ![i] = p] /\ Emit(TerminalEvent("error", p, <<>>))
  /\ UNCHANGED <<service, remotes, closers, loads, pane>>

(* wait: the pty is closed, then the session forgotten, then its exit told. *)
ManagerWaits(i) ==
  /\ ptys[i].shell = "exited"
  /\ ptys' = [ptys EXCEPT ![i].shell = "waited", ![i].closed = TRUE]
  /\ UNCHANGED <<service, remotes, closers, loads, wire, pane>>

ManagerForgets(i) ==
  /\ ptys[i].shell = "waited"
  /\ ptys' = [ptys EXCEPT ![i].shell = "forgotten"]
  /\ service' = [service EXCEPT !.session = IF @ = i THEN None ELSE @]
  /\ UNCHANGED <<remotes, closers, loads, wire, pane>>

ManagerTellsExit(i) ==
  /\ ptys[i].shell = "forgotten"
  /\ LET p == [ptys[i] EXCEPT !.shell = "done", !.sequence = @ + 1]
     IN ptys' = [ptys EXCEPT ![i] = p] /\ Emit(TerminalEvent("exit", p, <<>>))
  /\ UNCHANGED <<service, remotes, closers, loads, pane>>

(* Stop, by the user, and Shutdown, by the application: the shell is       *)
(* killed, and its end is noticed by wait.                                 *)
ManagerStop ==
  /\ LocalThread /\ service.session # None
  /\ ptys' = [ptys EXCEPT ![service.session].stopping = TRUE,
                          ![service.session].closed = TRUE]
  /\ \/ pane.running /\ ~pane.loading /\ ~pane.away /\ UNCHANGED service
     \/ ~service.closed /\ service' = [service EXCEPT !.closed = TRUE]
  /\ UNCHANGED <<remotes, closers, loads, wire, pane>>

-----------------------------------------------------------------------------
(* A remote thread.                                                        *)

(* bindRemoteThread with RemoteManager.Bind; refused while a session runs. *)
BindTerminal ==
  /\ ~LocalThread /\ ~service.closed /\ service.session = None /\ service.bindings < MaxBindings
  /\ service' = [service EXCEPT !.bindings = @ + 1, !.bound = service.bindings + 1]
  /\ UNCHANGED <<ptys, remotes, closers, loads, wire, pane>>

Taken == IF service.session = None THEN {} ELSE {service.session}

(* unbindRemoteThread with RemoteManager.Unbind: the session is taken      *)
(* under the lock and closed after it.                                     *)
UnbindTerminal ==
  /\ ~LocalThread /\ service.bound # None
  /\ service' = [service EXCEPT !.bound = None, !.session = None]
  /\ closers' = closers \union Taken
  /\ UNCHANGED <<ptys, remotes, loads, wire, pane>>

RemoteShutdown ==
  /\ ~LocalThread /\ ~service.closed
  /\ service' = [service EXCEPT !.closed = TRUE, !.bound = None]
  /\ closers' = closers \union Taken
  /\ UNCHANGED <<ptys, remotes, loads, wire, pane>>

(* RuntimeTerminalSession.Close sends one cancel.                          *)
Cancelling(i) == [remotes EXCEPT ![i].cancelled = TRUE]

CloserCloses(i) ==
  /\ closers' = closers \ {i} /\ remotes' = Cancelling(i)
  /\ UNCHANGED <<service, ptys, loads, wire, pane>>

RemoteStop ==
  /\ ~LocalThread /\ service.session # None /\ service.bound # None
  /\ pane.running /\ ~pane.loading /\ ~pane.away
  /\ remotes' = Cancelling(service.session)
  /\ UNCHANGED <<service, ptys, closers, loads, wire, pane>>

(* runtimeFor and RemoteManager.Snapshot, and the first step of Start: a   *)
(* session that runs is resized and its snapshot taken afterwards.         *)
RemoteCall(t) ==
  /\ ~LocalThread /\ loads[t].at = "called"
  /\ loads' = IF service.bound = None \/ service.closed THEN Failed(t)
              ELSE IF loads[t].op = "snapshot" \/ service.session # None
                THEN [loads EXCEPT ![t].at = "snapshot"]
              ELSE [loads EXCEPT ![t].at = "opening", ![t].lease = service.bound]
  /\ UNCHANGED <<service, ptys, remotes, closers, wire, pane>>

RemoteSnapshot(t) ==
  /\ loads[t].at = "snapshot"
  /\ loads' = Answered(t, IF service.session = None THEN NoSnapshot
                          ELSE SnapshotOf(remotes[service.session]))
  /\ UNCHANGED <<service, ptys, remotes, closers, wire, pane>>

(* StartTerminal of the helper client, which fails or opens a terminal     *)
(* that runs under the lease read at the call.                             *)
RemoteOpens(t) ==
  /\ loads[t].at = "opening"
  /\ \/ loads' = Failed(t) /\ UNCHANGED remotes
     \/ /\ Len(remotes) < MaxTerminals
        /\ remotes' = Append(remotes, [lease |-> loads[t].lease, generation |-> 0,
             sequence |-> 0, output |-> <<>>, received |-> 0, seen |-> 0,
             events |-> <<>>, ended |-> FALSE, cancelled |-> FALSE, consumer |-> "none"])
        /\ loads' = [loads EXCEPT ![t].at = "opened", ![t].terminal = Len(remotes) + 1]
  /\ UNCHANGED <<service, ptys, closers, wire, pane>>

(* Mutant: the binding is not checked again.                               *)
BoundBefore(t) == ~service.closed /\ service.session = None

(* What Start checks once the terminal is open.                            *)
StillBound(t) ==
  /\ ~service.closed /\ service.bound = loads[t].lease /\ service.session = None

RemoteStarted(t) ==
  LET i == loads[t].terminal
      x == [remotes[i] EXCEPT !.generation = service.generation + 1,
              !.seen = remotes[i].received, !.sequence = remotes[i].received,
              !.output = Kept(Chunks(i, remotes[i].received)), !.consumer = "reading"]
  IN /\ loads[t].at = "opened"
     /\ \/ /\ StillBound(t)
           /\ remotes' = [remotes EXCEPT ![i] = x]
           /\ service' = [service EXCEPT !.generation = @ + 1, !.session = i]
           /\ loads' = Answered(t, SnapshotOf(x))
        \/ /\ ~StillBound(t)
           /\ remotes' = Cancelling(i)
           /\ service' = [service EXCEPT !.generation = @ + 1]
           /\ loads' = Failed(t)
     /\ UNCHANGED <<ptys, closers, wire, pane>>

(* The session of the helper client puts output into its replay and its    *)
(* channel, where it is dropped when the consumer is behind.               *)
RemotePrints(i) ==
  /\ ~remotes[i].ended /\ Printed < MaxOutput
  /\ remotes' = [remotes EXCEPT ![i].received = @ + 1,
       ![i].events = IF Len(@) = Channel THEN @
                     ELSE Append(@, [type |-> "output", number |-> remotes[i].received + 1])]
  /\ UNCHANGED <<service, ptys, closers, loads, wire, pane>>

(* It ends: the shell exits or was cancelled, or the helper is gone.  Its  *)
(* last event displaces an older one.                                      *)
RemoteEnds(i) ==
  /\ ~remotes[i].ended
  /\ remotes' = [remotes EXCEPT ![i].ended = TRUE,
       ![i].events = Append(IF Len(@) = Channel THEN Tail(@) ELSE @,
                            [type |-> "exit", number |-> 0])]
  /\ UNCHANGED <<service, ptys, closers, loads, wire, pane>>

Registered(i) == service.session = i

(* Mutant: the pane is not made to load the replay.                        *)
ConsumedQuietly(x, i, n) ==
  IF n = x.seen + 1
    THEN [x EXCEPT !.seen = n, !.sequence = @ + 1, !.output = appendReplay(@, <<i, n>>)]
    ELSE [x EXCEPT !.seen = x.received, !.sequence = @ + 1,
                   !.output = Kept(Chunks(i, x.received))]

(* consume: output already in the replay is skipped; after a hole the      *)
(* replay is taken whole, and numbered so that the pane loads it.          *)
Consumed(x, i, n) ==
  IF n = x.seen + 1
    THEN [x EXCEPT !.seen = n, !.sequence = @ + 1, !.output = appendReplay(@, <<i, n>>)]
    ELSE [x EXCEPT !.seen = x.received, !.sequence = @ + 2,
                   !.output = Kept(Chunks(i, x.received))]

RemoteConsumes(i) ==
  /\ remotes[i].consumer = "reading" /\ remotes[i].events # <<>>
  /\ LET e == Head(remotes[i].events)
         x == [remotes[i] EXCEPT !.events = Tail(@)]
         out == Consumed(x, i, e.number)
         data == IF e.number = x.seen + 1 THEN <<<<i, e.number>>>> ELSE <<>>
         last == [x EXCEPT !.sequence = @ + 1]
     IN \/ /\ ~Registered(i)
           /\ remotes' = [remotes EXCEPT ![i] = [x EXCEPT !.consumer = "gone"]]
           /\ UNCHANGED <<service, wire>>
        \/ /\ Registered(i) /\ e.type = "output" /\ e.number <= x.seen
           /\ remotes' = [remotes EXCEPT ![i] = x] /\ UNCHANGED <<service, wire>>
        \/ /\ Registered(i) /\ e.type = "output" /\ e.number > x.seen
           /\ remotes' = [remotes EXCEPT ![i] = out]
           /\ Emit(TerminalEvent("output", out, data)) /\ UNCHANGED service
        \/ /\ Registered(i) /\ e.type = "exit"
           /\ remotes' = [remotes EXCEPT ![i] = [last EXCEPT !.consumer = "told"]]
           /\ service' = [service EXCEPT !.session = None]
           /\ Emit(TerminalEvent("exit", last, <<>>))
  /\ UNCHANGED <<ptys, closers, loads, pane>>

-----------------------------------------------------------------------------
ThePane == ShowThread \/ LeaveThread \/ startTerminal

TerminalNext ==
  \/ ThePane \/ ManagerStop
  \/ BindTerminal \/ UnbindTerminal \/ RemoteShutdown \/ RemoteStop
  \/ \E e \in wire : Deliver(e)
  \/ \E t \in DOMAIN loads :
       \/ LoadReturns(t) \/ LoadFails(t)
       \/ LocalSnapshot(t) \/ LocalReplay(t) \/ ManagerStart(t)
       \/ RemoteCall(t) \/ RemoteSnapshot(t) \/ RemoteOpens(t) \/ RemoteStarted(t)
  \/ \E i \in DOMAIN ptys :
       \/ PtyPrints(i) \/ PtyExits(i) \/ ManagerReads(i) \/ ManagerAppends(i)
       \/ ManagerReadEnds(i) \/ ManagerTellsError(i)
       \/ ManagerWaits(i) \/ ManagerForgets(i) \/ ManagerTellsExit(i)
  \/ \E i \in DOMAIN remotes : RemotePrints(i) \/ RemoteEnds(i) \/ RemoteConsumes(i)
  \/ \E i \in closers : CloserCloses(i)

TerminalSpec == TerminalInit /\ [][TerminalNext]_terminalVars
-----------------------------------------------------------------------------
Consecutive(output) ==
  \A k \in 1 .. Len(output) - 1 :
    output[k + 1] = <<output[k][1], output[k][2] + 1>>

(* The pane shows a run of the output of one terminal, without a chunk     *)
(* missing, twice or out of place, and once it has applied all that the    *)
(* manager numbered it ends where the manager's output does: loads that    *)
(* overtake each other, events that arrive before the snapshot they follow *)
(* or after a later one, the read and the exit of the shell told by two    *)
(* goroutines and output dropped for a slow consumer all meet here         *)
(* (TerminalPane.vue:82-149, manager.go:264-300, remote.go:233-276).       *)
DisplayIsFaithful ==
  /\ Consecutive(pane.shown)
  /\ \A x \in Range(ptys) \union Range(remotes) :
       /\ Consecutive(x.output)
       /\ x.generation = pane.generation /\ x.generation # 0 /\ x.sequence = pane.sequence
          => IF x.output = <<>> THEN pane.shown = <<>>
             ELSE pane.shown # <<>> /\ Last(pane.shown) = Last(x.output)

(* No remote terminal runs that nobody will close: one that is open is the *)
(* session of the thread, under the lease the thread is bound to, or it is *)
(* held by the Start that opened it, which has yet to look at the binding  *)
(* again, or by the Unbind or Shutdown that took it (remote.go:94-160,     *)
(* :205-222).                                                              *)
NoStrayTerminal ==
  \A i \in DOMAIN remotes :
    \/ remotes[i].ended \/ remotes[i].cancelled
    \/ service.session = i /\ service.bound = remotes[i].lease
    \/ i \in closers
    \/ \E t \in DOMAIN loads : loads[t].at = "opened" /\ loads[t].terminal = i

(* Whatever loads, events, stops and restarts overlap, what is shown is    *)
(* what the shell wrote, and no shell runs that nobody shows or closes.    *)
TerminalsAreTrue == DisplayIsFaithful /\ NoStrayTerminal
=============================================================================
