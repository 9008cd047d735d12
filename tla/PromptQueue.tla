---------------------------- MODULE PromptQueue -----------------------------
(***************************************************************************)
(* The prompts of one local task in the frontend store of Pi Desk          *)
(* (frontend/src/stores/app.ts): the draft, the queue of pending prompts,  *)
(* the deliveries, the start of the Pi of the task and the events it       *)
(* sends, the history operations and the deletion of the task.             *)
(*                                                                         *)
(* The store runs on one thread, and an action is what it does between two *)
(* awaits of something outside: a call of the host or a load of the        *)
(* session file.  What continues at once, before the next event or answer  *)
(* is taken, is in steps of its own here, and AtRest holds the rest of the  *)
(* program back until they are done.                                       *)
(***************************************************************************)
EXTENDS Naturals, Sequences, FiniteSets, SequencesExt

CONSTANTS
  MaxPrompts,    \* bound: the texts the user types; one that is changed is another one
  Deliveries,    \* the calls of deliverPrompt that may be under way, besides
                 \* the one of the queue
  FromQueue,     \* the delivery of dispatchNextPendingPrompt, one at a time
  MaxGeneration, \* bound: how often a Pi is started
  MaxSettled,    \* bound: agent_settled events
  MaxWire,       \* bound: events on their way to the store
  MaxTroubles    \* bound: operations on the history, compactions, stops, exits
                 \* of Pi, failed starts and failed answers, together

ASSUME PromptAssumption ==
  /\ FromQueue \notin Deliveries
  /\ {MaxPrompts, MaxGeneration, MaxSettled, MaxWire, MaxTroubles} \subseteq Nat

VARIABLES
  summary,     \* the ThreadSummary, with its transcript, pending model and operation
  draft,      \* draftsByThread
  queue,      \* pendingPromptsByThread
  delivery,   \* the calls of deliverPrompt
  dispatch,   \* pendingPromptDispatchThreads and where the dispatch is
  reloads,    \* the reloads of the transcript after agent_settled
  latest,     \* settledReloadPromises: the reload that is waited for, or 0
  piStart,   \* piStartPromises and where the start is
  history,    \* the operation on the history that is under way
  stopping,   \* the stopSession call that is under way
  host,       \* the Pi of the task on the host
  arriving,       \* its events on their way to the store
  trail,      \* what became of the prompts
  troubles    \* counts what MaxTroubles bounds

promptVars == <<summary, draft, queue, delivery, dispatch, reloads, latest,
                piStart, history, stopping, host, arriving, trail, troubles>>

(* The texts, numbered in the order they are typed.                        *)
Prompts == 1 .. MaxPrompts
NoPrompt == 0

Slots == Deliveries \cup {FromQueue}
NoDelivery == [kind |-> "none", prompt |-> NoPrompt, original |-> NoPrompt, at |-> "free",
               was |-> FALSE, reload |-> 0, current |-> FALSE]
NotStarting == [at |-> "none", floor |-> 0, generation |-> 0, background |-> FALSE]
NoHistory == [kind |-> "none", at |-> "none", again |-> FALSE, prompt |-> NoPrompt,
              current |-> FALSE]

(* trail.typed: the prompts typed; taken: how often Pi took one and the     *)
(* store was not told that it failed; answered: those the host accepted;    *)
(* kept: those the composer still shows while they are sent; gone: those    *)
(* the user dropped or replaced, those whose failure the timeline shows,    *)
(* and those the store itself displaces: a text typed while another one     *)
(* waits for the transcript, a draft a replay overwrites, a draft that is   *)
(* refused after another one was typed, a goal command that is refused, and *)
(* what belongs to a scheduled task that fails before its Pi is up.         *)
NoTrail == [typed |-> {}, gone |-> {}, kept |-> {}, answered |-> {},
            taken |-> [p \in Prompts |-> 0]]

(* A task is new, with or without a model chosen for it, or its session is *)
(* on disk; or a scheduled task runs in a new one, with the model it asks  *)
(* for (runScheduledTask).                                                 *)
PromptInit ==
  /\ \E file \in BOOLEAN, model \in BOOLEAN :
       /\ model => ~file
       /\ summary = [exists |-> TRUE, status |-> "idle", started |-> FALSE,
                    generation |-> 0, exited |-> 0, file |-> file,
                    transcript |-> IF file THEN "idle" ELSE "loaded",
                    model |-> model, operation |-> "none"]
  /\ \/ delivery = [d \in Slots |-> NoDelivery] /\ trail = NoTrail
     \/ \E d \in Deliveries, p \in Prompts :
          /\ p = 1 /\ ~summary.file /\ summary.model
          /\ delivery = [x \in Slots |-> IF x # d THEN NoDelivery
               ELSE [NoDelivery EXCEPT !.kind = "task", !.prompt = p, !.at = "task"]]
          /\ trail = [NoTrail EXCEPT !.typed = {p}]
  /\ draft = NoPrompt /\ queue = <<>> /\ dispatch = [at |-> "none", reload |-> 0]
  /\ reloads = [n \in 1 .. MaxSettled |-> "none"] /\ latest = 0
  /\ piStart = NotStarting /\ history = NoHistory
  /\ stopping = "none"
  /\ host = [generation |-> 0, alive |-> FALSE, run |-> "idle"] /\ arriving = <<>>
  /\ troubles = 0

(* The continuations that run before anything else does.                   *)
AtRest ==
  /\ \A d \in Slots : delivery[d].at \notin {"task", "settled", "session", "ready", "failed", "refused"}
  /\ dispatch.at \notin {"next", "shift"}
  /\ history.at \notin {"session", "failed"}

At(d, place) == delivery[d].at = place
Moves(d, place) == delivery' = [delivery EXCEPT ![d].at = place]
Free(d) == delivery' = [delivery EXCEPT ![d] = NoDelivery]
Fresh(p) == p \notin trail.typed /\ 1 .. p - 1 \subseteq trail.typed
UserMay == AtRest /\ summary.exists

(* The text in the composer is being sent already: the call that sends it  *)
(* waits for the transcript and clears the composer after.                 *)
StillShown == {draft} \cap {delivery[d].prompt : d \in {x \in Slots : At(x, "load")}}

(* invalidateSessionReads: the reads that are under way are stale.         *)
StaleReads(ds) == [d \in Slots |-> [ds[d] EXCEPT !.current = FALSE]]
Stale == [n \in DOMAIN reloads |-> IF reloads[n] = "current" THEN "stale" ELSE reloads[n]]
StaleHistory == [history EXCEPT !.current = FALSE]
Invalidated(t) == IF t = "loading" THEN "idle" ELSE t

-----------------------------------------------------------------------------
(* The composer.                                                           *)
UpdateDraft(p) ==
  /\ UserMay /\ Fresh(p)
  /\ draft' = p
  /\ trail' = [trail EXCEPT !.typed = @ \cup {p}, !.gone = @ \cup ({draft} \ {NoPrompt})]
  /\ UNCHANGED <<summary, queue, delivery, dispatch, reloads, latest, piStart,
                 history, stopping, host, arriving>>

(* deliverPrompt up to the first await: a prompt that begins a run waits   *)
(* for the reload that the end of the last run began.                      *)
Begun(kind, p, t) ==
  [NoDelivery EXCEPT !.kind = kind, !.prompt = p, !.original = draft,
     !.was = t.status = "running",
     !.at = IF t.operation # "none" THEN "refused"
            ELSE IF t.status # "running" /\ latest # 0 THEN "settle" ELSE "settled",
     !.reload = IF t.status = "running" THEN 0 ELSE latest]

(* Mutant: the composer keeps the text that is sent.                       *)
StillThere == draft

(* What the composer shows once its text is sent.                          *)
Composer == NoPrompt

(* sendActivePrompt once the transcript is there: p is the text that was   *)
(* in the composer when it was called.                                     *)
Submit(d, p) ==
  IF summary.status = "running"
  THEN /\ queue' = Append(queue, p) /\ draft' = Composer /\ Free(d)
       /\ trail' = [trail EXCEPT !.gone = @ \cup ({draft} \ {p, NoPrompt}),
                                 !.kept = @ \cup StillShown]
  ELSE /\ UNCHANGED queue
       /\ IF summary.operation # "none" THEN Free(d) /\ UNCHANGED <<draft, trail>>
          ELSE /\ draft' = Composer
               /\ delivery' = [delivery EXCEPT ![d] = Begun("draft", p, summary)]
               /\ trail' = [trail EXCEPT !.gone = @ \cup ({draft} \ {p, NoPrompt}),
                                         !.kept = @ \cup (StillShown \ {delivery[d].prompt})]

SendActivePrompt(d) ==
  /\ UserMay /\ At(d, "free") /\ d # FromQueue
  /\ draft # NoPrompt /\ summary.operation = "none"
  /\ IF summary.file /\ summary.transcript # "loaded"
     THEN /\ summary.transcript # "loading"
          /\ summary' = [summary EXCEPT !.transcript = "loading"]
          /\ delivery' = [StaleReads(delivery) EXCEPT ![d] =
               [NoDelivery EXCEPT !.kind = "draft", !.prompt = draft, !.at = "load", !.current = TRUE]]
          /\ reloads' = Stale /\ history' = StaleHistory
          /\ trail' = [trail EXCEPT !.kept = @ \cup StillShown]
          /\ UNCHANGED <<draft, queue>>
     ELSE Submit(d, draft) /\ UNCHANGED <<summary, reloads, history>>
  /\ UNCHANGED <<dispatch, latest, piStart, stopping, host, arriving>>

(* loadThreadTranscript returns, with the snapshot or an error: they     *)
(* count only if no later read was begun.                                  *)
TranscriptLoads(d) ==
  /\ AtRest /\ At(d, "load")
  /\ summary' = IF delivery[d].current THEN [summary EXCEPT !.transcript = "loaded"] ELSE summary
  /\ IF summary'.transcript = "loaded"
     THEN Submit(d, delivery[d].prompt)
     ELSE Free(d) /\ UNCHANGED <<draft, queue, trail>>
  /\ UNCHANGED <<dispatch, reloads, latest, piStart, history, stopping, host, arriving>>

TranscriptFails(d) ==
  /\ AtRest /\ At(d, "load") /\ delivery[d].current
  /\ summary' = [summary EXCEPT !.transcript = "error", !.status = "attention"]
  /\ Free(d)
  /\ UNCHANGED <<draft, queue, dispatch, reloads, latest, piStart, history, stopping,
                 host, arriving, trail>>

(* sendGoalCommand: a button that sends a text the composer never shows.   *)
SendGoalCommand(d, p) ==
  /\ UserMay /\ At(d, "free") /\ Fresh(p) /\ summary.operation = "none"
  /\ summary.file => summary.transcript = "loaded"   \* else as SendActivePrompt
  /\ IF summary.status = "running"
     THEN queue' = Append(queue, p) /\ UNCHANGED delivery
     ELSE delivery' = [delivery EXCEPT ![d] = Begun("goal", p, summary)] /\ UNCHANGED queue
  /\ trail' = [trail EXCEPT !.typed = @ \cup {p}]
  /\ UNCHANGED <<summary, draft, dispatch, reloads, latest, piStart, history, stopping,
                 host, arriving>>

(* A pending prompt is found by its id: of two with one text, one is meant. *)
Dequeued(p) == \E i \in DOMAIN queue : queue[i] = p /\ queue' = RemoveAt(queue, i)

MovePendingPromptToDraft(p) ==
  /\ UserMay /\ \E i \in DOMAIN queue :
       /\ queue[i] = p
       /\ queue' = IF draft = NoPrompt THEN RemoveAt(queue, i) ELSE [queue EXCEPT ![i] = draft]
  /\ draft' = p /\ trail' = [trail EXCEPT !.kept = @ \cup StillShown]
  /\ UNCHANGED <<summary, delivery, dispatch, reloads, latest, piStart, history,
                 stopping, host, arriving>>

RemovePendingPrompt(p) ==
  /\ UserMay /\ Dequeued(p)
  /\ trail' = [trail EXCEPT !.gone = @ \cup {p}]
  /\ UNCHANGED <<summary, draft, delivery, dispatch, reloads, latest, piStart,
                 history, stopping, host, arriving>>

UpdatePendingPrompt(p, q) ==
  /\ UserMay /\ Fresh(q)
  /\ \E i \in DOMAIN queue : queue[i] = p /\ queue' = [queue EXCEPT ![i] = q]
  /\ trail' = [trail EXCEPT !.typed = @ \cup {q}, !.gone = @ \cup {p}]
  /\ UNCHANGED <<summary, draft, delivery, dispatch, reloads, latest, piStart,
                 history, stopping, host, arriving>>

SteerPendingPrompt(d, p) ==
  /\ UserMay /\ At(d, "free") /\ d # FromQueue
  /\ summary.status = "running" /\ Dequeued(p)
  /\ delivery' = [delivery EXCEPT ![d] = Begun("steer", p, summary)]
  /\ UNCHANGED <<summary, draft, dispatch, reloads, latest, piStart, history,
                 stopping, host, arriving, trail>>

-----------------------------------------------------------------------------
(* deliverPrompt.                                                          *)
(* The operation is looked at again after the wait.  Then ensureSession:   *)
(* a start under way is joined, a session that is up is used.              *)
EnsureSession ==
  IF piStart.at = "none" /\ ~summary.started
  THEN /\ summary' = [summary EXCEPT !.status = "starting"]
       /\ piStart' = [NotStarting EXCEPT !.at = "queued", !.floor = summary.generation]
  ELSE UNCHANGED <<summary, piStart>>
StartStage(up) == IF piStart.at = "none" /\ summary.started THEN up ELSE "start"

EnterSession(d) ==
  /\ delivery[d].at \in {"settled", "task"}
  /\ IF At(d, "settled") /\ summary.operation # "none"
     THEN Moves(d, "refused") /\ UNCHANGED <<summary, piStart>>
     ELSE /\ Moves(d, IF At(d, "task") THEN "task start" ELSE StartStage("ready"))
          /\ EnsureSession
  /\ UNCHANGED <<draft, queue, dispatch, reloads, latest, history, stopping,
                 host, arriving, trail>>

(* applyPendingModel, which waits for Pi, and the hand over of the prompt  *)
(* to the host, unless an operation on the history has begun.              *)
HandOver(d) ==
  /\ At(d, "ready")
  /\ IF summary.model THEN Moves(d, "model") /\ UNCHANGED summary
     ELSE IF summary.operation # "none" THEN Moves(d, "failed") /\ UNCHANGED summary
     ELSE /\ Moves(d, "call")
          /\ summary' = IF delivery[d].was THEN summary ELSE [summary EXCEPT !.status = "running"]
  /\ UNCHANGED <<draft, queue, dispatch, reloads, latest, piStart, history,
                 stopping, host, arriving, trail>>

ModelApplied(d) ==
  /\ AtRest /\ At(d, "model")
  /\ summary.started /\ host.alive /\ Moves(d, "ready")
  /\ summary' = [summary EXCEPT !.model = FALSE]
  /\ UNCHANGED <<draft, queue, dispatch, reloads, latest, piStart, history,
                 stopping, host, arriving, trail>>

ModelFails(d) ==
  /\ AtRest /\ At(d, "model") /\ Moves(d, "failed")
  /\ UNCHANGED <<summary, draft, queue, dispatch, reloads, latest, piStart,
                 history, stopping, host, arriving, trail>>

(* sendPrompt on the host: Pi takes the prompt and begins a run, or it     *)
(* joins the one that is under way.  Then the answer: it may be an error   *)
(* although the prompt was taken.                                          *)
PiTakes(d) ==
  /\ AtRest /\ At(d, "call") /\ host.alive
  /\ host.run # "idle" => delivery[d].kind = "steer"
  /\ host.run = "idle" => Len(arriving) < MaxWire
  /\ Moves(d, "taken")
  /\ host' = [host EXCEPT !.run = IF @ = "idle" THEN "busy" ELSE @]
  /\ arriving' = IF host.run # "idle" THEN arriving ELSE Append(arriving, <<"start", host.generation>>)
  /\ trail' = [trail EXCEPT !.taken[delivery[d].prompt] = @ + 1]
  /\ UNCHANGED <<summary, draft, queue, dispatch, reloads, latest, piStart,
                 history, stopping>>

SendFails(d) ==
  /\ AtRest /\ delivery[d].at \in {"call", "taken"}
  /\ Moves(d, "failed")
  /\ trail' = IF At(d, "taken") THEN [trail EXCEPT !.taken[delivery[d].prompt] = @ - 1] ELSE trail
  /\ UNCHANGED <<summary, draft, queue, dispatch, reloads, latest, piStart,
                 history, stopping, host, arriving>>

(* The frame of the dispatch when its delivery is over.                    *)
DispatchGoesOn(d) == dispatch' = IF d = FromQueue THEN [at |-> "next", reload |-> 0] ELSE dispatch

PromptSent(d) ==
  /\ AtRest /\ At(d, "taken")
  /\ Free(d) /\ DispatchGoesOn(d)
  /\ summary' = [summary EXCEPT !.file = TRUE]
  /\ trail' = [trail EXCEPT !.answered = @ \cup {delivery[d].prompt}]
  /\ draft' = IF delivery[d].kind = "replay" /\ draft = delivery[d].prompt THEN NoPrompt ELSE draft
  /\ UNCHANGED <<queue, reloads, latest, piStart, history, stopping, host, arriving>>

(* What the caller does with a prompt that was not delivered: the draft    *)
(* comes back unless another one was typed, a queued prompt goes back to   *)
(* the front.  A delivery that had begun leaves the failure in the         *)
(* timeline, one that was refused leaves nothing.  A scheduled task that   *)
(* fails before its Pi is up is removed, with what was typed into it.      *)
Gone == [summary EXCEPT !.exists = FALSE, !.transcript = "idle", !.model = FALSE,
                       !.exited = 0, !.operation = "none"]
InComposer == ToSet(queue) \cup ({draft} \ {NoPrompt})

(* Mutant: a prompt of the queue that was not delivered is not put back.   *)
NotPutBack(d) == queue

(* The queue when the delivery d has failed.                               *)
PutBack(d) ==
  IF delivery[d].kind \in {"queue", "steer"} /\ summary.exists
  THEN <<delivery[d].prompt>> \o queue ELSE queue

Undelivered(d) ==
  LET p == delivery[d].prompt
      task == delivery[d].kind = "task"
      failed == At(d, "failed") \/ task
      back == delivery[d].kind = "draft" /\ draft = NoPrompt
      gone == task /\ summary.exists /\ ~summary.started
      remains == /\ summary.exists
                 /\ \/ delivery[d].kind \in {"queue", "steer"}
                    \/ back /\ ~failed /\ delivery[d].original = p
  IN /\ delivery[d].at \in {"failed", "refused"}
     /\ Free(d) /\ DispatchGoesOn(d)
     /\ queue' = IF gone THEN <<>> ELSE PutBack(d)
     /\ draft' = IF gone THEN NoPrompt ELSE IF back THEN delivery[d].original ELSE draft
     /\ trail' = [trail EXCEPT !.gone = @ \cup (IF gone THEN InComposer ELSE {})
                                             \cup (IF remains THEN {} ELSE {p})]
     /\ summary' = IF gone THEN Gone
                  ELSE IF ~failed THEN summary
                  ELSE [summary EXCEPT !.status = IF delivery[d].was /\ ~task THEN "running" ELSE "attention"]
     /\ UNCHANGED <<reloads, latest, piStart, history, stopping, host, arriving>>

(* A scheduled task sets the thinking level before it sends its prompt.    *)
TaskSettled(d) ==
  /\ AtRest /\ At(d, "task level")
  /\ summary.started /\ host.alive /\ summary.exists
  /\ delivery' = [delivery EXCEPT ![d] = Begun("task", delivery[d].prompt, summary)]
  /\ UNCHANGED <<summary, draft, queue, dispatch, reloads, latest, piStart,
                 history, stopping, host, arriving, trail>>

TaskFails(d) ==
  /\ AtRest /\ At(d, "task level") /\ Moves(d, "refused")
  /\ UNCHANGED <<summary, draft, queue, dispatch, reloads, latest, piStart,
                 history, stopping, host, arriving, trail>>

-----------------------------------------------------------------------------
(* dispatchNextPendingPrompt.                                              *)
MayDispatch == summary.exists /\ summary.operation = "none" /\ summary.status = "idle" /\ queue # <<>>

DispatchNext ==
  /\ dispatch.at = "next"
  /\ dispatch' = IF ~MayDispatch THEN [at |-> "none", reload |-> 0]
                 ELSE [at |-> IF latest = 0 THEN "shift" ELSE "settle", reload |-> latest]
  /\ UNCHANGED <<summary, draft, queue, delivery, reloads, latest, piStart,
                 history, stopping, host, arriving, trail>>

(* Mutant: the prompt that is dispatched stays in the queue.               *)
Peeked == queue
Rest == Tail(queue)

DispatchShift ==
  /\ dispatch.at = "shift"
  /\ IF MayDispatch
     THEN /\ queue' = Rest
          /\ delivery' = [delivery EXCEPT ![FromQueue] = Begun("queue", Head(queue), summary)]
          /\ dispatch' = [at |-> "delivering", reload |-> 0]
     ELSE dispatch' = [at |-> "next", reload |-> 0] /\ UNCHANGED <<queue, delivery>>
  /\ UNCHANGED <<summary, draft, reloads, latest, piStart, history, stopping,
                 host, arriving, trail>>

(* The reload of the transcript after agent_settled ends.                  *)
ReloadEnds(n, ok) ==
  /\ AtRest /\ reloads[n] \in {"current", "stale"}
  /\ reloads' = [reloads EXCEPT ![n] = "done"]
  /\ latest' = IF latest = n THEN 0 ELSE latest
  /\ summary' = IF reloads[n] = "stale" THEN summary
               ELSE IF ~ok THEN [summary EXCEPT !.transcript = "error"]
               ELSE IF summary.status \in {"running", "starting"} THEN summary
               ELSE [summary EXCEPT !.transcript = "loaded"]
  /\ delivery' = [d \in Slots |-> IF At(d, "settle") /\ delivery[d].reload = n
                                  THEN [delivery[d] EXCEPT !.at = "settled"] ELSE delivery[d]]
  /\ dispatch' = IF dispatch.at = "none" THEN [dispatch EXCEPT !.at = "next"]
                 ELSE IF dispatch = [at |-> "settle", reload |-> n] THEN [dispatch EXCEPT !.at = "shift"]
                 ELSE dispatch
  /\ UNCHANGED <<draft, queue, piStart, history, stopping, host, arriving, trail>>

-----------------------------------------------------------------------------
(* The start of Pi: ensureSession and startSessionNow.                     *)
StartThreadInBackground ==
  /\ UserMay /\ ~summary.started /\ piStart.at = "none"
  /\ piStart' = [NotStarting EXCEPT !.at = "queued", !.floor = summary.generation, !.background = TRUE]
  /\ summary' = [summary EXCEPT !.status = "starting"]
  /\ UNCHANGED <<draft, queue, delivery, dispatch, reloads, latest, history,
                 stopping, host, arriving, trail>>

(* Whoever waits for the start goes on with what it gave.                  *)
AfterStart(ok, d) ==
  IF At(d, "start") THEN [delivery[d] EXCEPT !.at = IF ok THEN "ready" ELSE "failed"]
  ELSE IF At(d, "task start") THEN [delivery[d] EXCEPT !.at = IF ok THEN "task level" ELSE "refused"]
  ELSE delivery[d]
Started(ok, t) ==
  /\ piStart' = NotStarting
  /\ delivery' = [d \in Slots |-> AfterStart(ok, d)]
  /\ history' = IF history.at # "start" THEN history
                ELSE [history EXCEPT !.at = IF history.kind = "delete" THEN "session"
                                             ELSE IF ok THEN "call" ELSE "failed"]
  /\ summary' = IF ok \/ ~piStart.background THEN t
               ELSE [t EXCEPT !.started = FALSE, !.status = "attention"]
StartMoves(place) == piStart' = [piStart EXCEPT !.at = place] /\ UNCHANGED <<delivery, history>>

StartSessionNow ==
  /\ AtRest /\ piStart.at = "queued"
  /\ StartMoves("calling") /\ summary' = [summary EXCEPT !.status = "starting"]
  /\ UNCHANGED <<draft, queue, dispatch, reloads, latest, stopping, host, arriving, trail>>

HostStarts ==
  /\ AtRest /\ piStart.at = "calling" /\ ~host.alive /\ host.generation < MaxGeneration
  /\ host' = [generation |-> host.generation + 1, alive |-> TRUE, run |-> "idle"]
  /\ piStart' = [piStart EXCEPT !.at = "called", !.generation = host.generation + 1]
  /\ UNCHANGED <<summary, draft, queue, delivery, dispatch, reloads, latest,
                 history, stopping, arriving, trail>>

StartSessionReturns ==
  /\ AtRest /\ piStart.at = "called"
  /\ IF summary.exited = piStart.generation THEN Started(FALSE, summary)
     ELSE /\ StartMoves(IF summary.model THEN "model" ELSE "refresh")
          /\ summary' = [summary EXCEPT !.started = TRUE, !.status = "idle",
                          !.generation = piStart.generation,
                          !.transcript = IF summary.file THEN @ ELSE "loaded"]
  /\ UNCHANGED <<draft, queue, dispatch, reloads, latest, stopping, host, arriving, trail>>

(* The pending model is applied, then the lists of models and commands are *)
(* refreshed, and the start is over whatever they give.                    *)
StartGoesOn ==
  /\ AtRest
  /\ \/ /\ piStart.at = "model" /\ host.alive /\ summary.started
        /\ summary.exited # piStart.generation
        /\ StartMoves("refresh") /\ summary' = [summary EXCEPT !.model = FALSE]
     \/ piStart.at = "refresh" /\ Started(TRUE, summary)
  /\ UNCHANGED <<draft, queue, dispatch, reloads, latest, stopping, host, arriving, trail>>

(* Every Pi is busy, the host cannot start one, or the model is refused.   *)
StartFails ==
  /\ AtRest /\ piStart.at \in {"queued", "calling", "model"} /\ Started(FALSE, summary)
  /\ UNCHANGED <<draft, queue, dispatch, reloads, latest, stopping, host, arriving, trail>>

-----------------------------------------------------------------------------
(* Pi on the host, and what the store does with its events.                *)
Emits(kind) == Len(arriving) < MaxWire /\ arriving' = Append(arriving, <<kind, host.generation>>)

PiSettles ==
  /\ AtRest /\ host.alive /\ host.run = "busy" /\ Emits("settled")
  /\ host' = [host EXCEPT !.run = "idle"]
  /\ UNCHANGED <<summary, draft, queue, delivery, dispatch, reloads, latest,
                 piStart, history, stopping, trail>>
PiCompacts ==
  /\ AtRest /\ host.alive /\ host.run = "busy" /\ Emits("compacts")
  /\ host' = [host EXCEPT !.run = "compacting"]
  /\ UNCHANGED <<summary, draft, queue, delivery, dispatch, reloads, latest,
                 piStart, history, stopping, trail>>
PiCompacted ==
  /\ AtRest /\ host.alive /\ host.run = "compacting" /\ Emits("compacted")
  /\ host' = [host EXCEPT !.run = "busy"]
  /\ UNCHANGED <<summary, draft, queue, delivery, dispatch, reloads, latest,
                 piStart, history, stopping, trail>>
PiExits ==
  /\ AtRest /\ host.alive /\ Emits("exit")
  /\ host' = [host EXCEPT !.alive = FALSE, !.run = "idle"]
  /\ UNCHANGED <<summary, draft, queue, delivery, dispatch, reloads, latest,
                 piStart, history, stopping, trail>>

(* The events of another process are dropped; while a Pi starts, those of  *)
(* a newer process are taken before its start has returned.                *)
Accepted(g) ==
  /\ summary.exists /\ g > summary.exited
  /\ IF piStart.at # "none" THEN g > piStart.floor
     ELSE summary.generation \in {0, g}
Noted(g) == IF piStart.at # "none" /\ g > summary.generation
            THEN [summary EXCEPT !.generation = g] ELSE summary

Unhandled == UNCHANGED <<delivery, reloads, latest, dispatch, history>>
AgentStart(g) == summary' = [Noted(g) EXCEPT !.status = "running"] /\ Unhandled
AgentSettled(g) ==
  LET fresh == {n \in DOMAIN reloads : reloads[n] = "none"}
      n == CHOOSE m \in fresh : \A k \in fresh : m <= k
  IN /\ summary' = [Noted(g) EXCEPT !.status = "idle"]
     /\ fresh # {}
     /\ IF summary.file /\ summary.operation = "none"
        THEN /\ reloads' = [Stale EXCEPT ![n] = "current"] /\ latest' = n
             /\ delivery' = StaleReads(delivery) /\ history' = StaleHistory
             /\ UNCHANGED dispatch
        ELSE /\ reloads' = [reloads EXCEPT ![n] = "done"]
             /\ latest' = 0 /\ UNCHANGED <<delivery, history>>
             /\ dispatch' = IF dispatch.at = "none" THEN [dispatch EXCEPT !.at = "next"] ELSE dispatch
CompactionStart(g) ==
  /\ summary' = [Noted(g) EXCEPT !.status = "running", !.operation = "Compacting"]
  /\ Unhandled
CompactionEnd(g) ==
  /\ summary' = [Noted(g) EXCEPT !.status = "running", !.operation = IF @ = "Compacting" THEN "none" ELSE @]
  /\ Unhandled
RuntimeExit(g) ==
  /\ summary' = [Noted(g) EXCEPT !.exited = g, !.started = FALSE, !.status = "attention"]
  /\ Unhandled

HandlePiEvent ==
  /\ AtRest /\ arriving # <<>>
  /\ arriving' = Tail(arriving)
  /\ LET kind == arriving[1][1]
         g == arriving[1][2]
     IN \/ ~Accepted(g) /\ UNCHANGED summary /\ Unhandled
        \/ Accepted(g) /\ kind = "start" /\ AgentStart(g)
        \/ Accepted(g) /\ kind = "settled" /\ AgentSettled(g)
        \/ Accepted(g) /\ kind = "compacts" /\ CompactionStart(g)
        \/ Accepted(g) /\ kind = "compacted" /\ CompactionEnd(g)
        \/ Accepted(g) /\ kind = "exit" /\ RuntimeExit(g)
  /\ UNCHANGED <<draft, queue, piStart, stopping, host, trail>>

-----------------------------------------------------------------------------
(* stopThread, called by the user or to make room for another Pi.          *)
StopThread ==
  /\ UserMay /\ summary.started /\ stopping = "none"
  /\ stopping' = "call"
  /\ UNCHANGED <<summary, draft, queue, delivery, dispatch, reloads, latest,
                 piStart, history, host, arriving, trail>>
HostStops ==
  /\ AtRest /\ host.alive
  /\ \/ stopping = "call" /\ stopping' = "stopped" /\ UNCHANGED history
     \/ history.at = "stop" /\ history' = [history EXCEPT !.at = "stopped"] /\ UNCHANGED stopping
  /\ host' = [host EXCEPT !.alive = FALSE, !.run = "idle"]
  /\ UNCHANGED <<summary, draft, queue, delivery, dispatch, reloads, latest,
                 piStart, arriving, trail>>
StopReturns ==
  /\ AtRest /\ stopping # "none"
  /\ stopping' = "none"
  /\ summary' = IF stopping = "stopped" THEN [summary EXCEPT !.started = FALSE, !.status = "idle"] ELSE summary
  /\ UNCHANGED <<draft, queue, delivery, dispatch, reloads, latest, piStart,
                 history, host, arriving, trail>>

-----------------------------------------------------------------------------
(* The operations on the history: editing or deleting a message, replaying *)
(* the last one with a new text, forking or exporting; and the deletion of *)
(* the task.  The reads under way are stale once the history is rewritten. *)
Begins(kind, name) ==
  /\ UserMay /\ summary.operation = "none" /\ history.at = "none"
  /\ history' = [NoHistory EXCEPT !.kind = kind,
                   !.at = IF piStart.at # "none" THEN "start" ELSE "session"]
  /\ summary' = [summary EXCEPT !.operation = name,
                   !.transcript = IF kind \in {"edit", "replay"} THEN Invalidated(@) ELSE @]
  /\ UNCHANGED <<draft, queue, dispatch, latest, piStart, stopping, host, arriving, trail>>

BeginRewrite(kind) ==
  /\ Begins(kind, "history")
  /\ summary.file /\ summary.transcript = "loaded"
  /\ summary.status \notin {"running", "starting"}
  /\ reloads' = Stale /\ delivery' = StaleReads(delivery)

BeginFork ==
  /\ Begins("fork", "history") /\ summary.file /\ summary.status # "running"
  /\ UNCHANGED <<reloads, delivery>>

BeginDelete == Begins("delete", "Deleting") /\ UNCHANGED <<reloads, delivery>>

(* Once the session is up the host is called; a call that finds the Pi     *)
(* gone starts it and is made a second time, one whose outcome is unknown  *)
(* is not.                                                                 *)
HistoryStarts ==
  /\ history.at = "session" /\ history.kind # "delete"
  /\ history' = [history EXCEPT !.at = StartStage("call")]
  /\ EnsureSession
  /\ UNCHANGED <<draft, queue, delivery, dispatch, reloads, latest, stopping,
                 host, arriving, trail>>

(* The host has rewritten the session, and its transcript is read again.   *)
(* The text of a replay is put into the composer, and stays there while it *)
(* is delivered.  A fork takes the place of its task, whose draft goes to  *)
(* the task that keeps the old session.                                    *)
HistoryReturns(kind, status) ==
  /\ AtRest /\ history.at = "call" /\ history.kind = kind /\ host.alive
  /\ summary' = [summary EXCEPT !.transcript = "loading", !.status = status]
  /\ reloads' = Stale /\ delivery' = StaleReads(delivery)
  /\ UNCHANGED <<queue, dispatch, latest, piStart, stopping, host, arriving>>

EditReturns ==
  /\ HistoryReturns("edit", summary.status)
  /\ history' = [history EXCEPT !.at = "reload", !.current = TRUE]
  /\ UNCHANGED <<draft, trail>>

ReplayReturns(p) ==
  /\ HistoryReturns("replay", summary.status) /\ Fresh(p)
  /\ history' = [history EXCEPT !.at = "reload", !.current = TRUE, !.prompt = p]
  /\ draft' = p
  /\ trail' = [trail EXCEPT !.typed = @ \cup {p}, !.kept = @ \cup {p},
                            !.gone = @ \cup ({draft} \ {NoPrompt})]

ForkReturns ==
  /\ HistoryReturns("fork", "idle")
  /\ history' = [history EXCEPT !.at = "reload", !.current = TRUE]
  /\ draft' = NoPrompt
  /\ trail' = [trail EXCEPT !.gone = @ \cup ({draft} \ {NoPrompt})]

(* An export changes nothing, nor does a fork that Pi cancels.             *)
ExportReturns ==
  /\ AtRest /\ history.at = "call" /\ history.kind = "fork" /\ host.alive
  /\ history' = NoHistory /\ summary' = [summary EXCEPT !.operation = "none"]
  /\ UNCHANGED <<draft, queue, delivery, dispatch, reloads, latest, piStart,
                 stopping, host, arriving, trail>>

HistoryFails ==
  /\ AtRest /\ history.at = "call"
  /\ \/ history' = [history EXCEPT !.at = "failed"]
        /\ UNCHANGED <<summary, reloads, delivery>>
     \/ /\ ~history.again                                    \* outcome-unknown
        /\ history' = [history EXCEPT !.at = "failed"]
        /\ summary' = [summary EXCEPT !.started = FALSE, !.transcript = "error"]
        /\ reloads' = Stale /\ delivery' = StaleReads(delivery)
     \/ /\ ~host.alive /\ ~history.again
        /\ history' = [history EXCEPT !.at = "session", !.again = TRUE]
        /\ summary' = [summary EXCEPT !.started = FALSE, !.status = "idle"]
        /\ UNCHANGED <<reloads, delivery>>
  /\ UNCHANGED <<draft, queue, dispatch, latest, piStart, stopping, host, arriving, trail>>

(* The transcript is read again and the operation is over.  A replay asks  *)
(* for the model of the task again and, unless another task was opened,    *)
(* delivers its text, in the delivery d.                                   *)
HistoryEnds(d) ==
  /\ AtRest /\ history.at = "reload" /\ At(d, "free")
  /\ history' = NoHistory
  /\ summary' = [summary EXCEPT !.operation = "none", !.model = @ \/ history.kind = "replay",
                  !.transcript = IF history.current /\ summary.status \notin {"running", "starting"}
                                 THEN "loaded" ELSE @]
  /\ \/ UNCHANGED delivery
     \/ /\ history.kind = "replay"
        /\ delivery' = [delivery EXCEPT ![d] = Begun("replay", history.prompt, summary')]
  /\ UNCHANGED <<draft, queue, dispatch, reloads, latest, piStart, stopping, host, arriving, trail>>

HistoryAborts(place) ==
  /\ history.at = place /\ (place = "reload" => AtRest /\ history.current)
  /\ history' = NoHistory
  /\ summary' = [summary EXCEPT !.operation = "none",
                  !.status = IF history.kind = "delete" THEN @ ELSE "attention",
                  !.transcript = IF place = "reload" THEN "error" ELSE @]
  /\ UNCHANGED <<draft, queue, delivery, dispatch, reloads, latest, piStart,
                 stopping, host, arriving, trail>>

-----------------------------------------------------------------------------
(* confirmDeleteSession: the start that is under way is waited for, the    *)
(* session stopped, its file deleted and the task forgotten.               *)
DeleteStops ==
  /\ history.at = "session" /\ history.kind = "delete"
  /\ history' = [history EXCEPT !.at = IF summary.started THEN "stop" ELSE "file"]
  /\ UNCHANGED <<summary, draft, queue, delivery, dispatch, reloads, latest,
                 piStart, stopping, host, arriving, trail>>

DeleteStopReturns ==
  /\ AtRest /\ history.at = "stopped"
  /\ history' = [history EXCEPT !.at = "file"]
  /\ summary' = [summary EXCEPT !.started = FALSE, !.status = "idle"]
  /\ UNCHANGED <<draft, queue, delivery, dispatch, reloads, latest, piStart,
                 stopping, host, arriving, trail>>

RemoveThreadState ==
  /\ AtRest /\ history.at = "file"
  /\ history' = NoHistory /\ summary' = Gone
  /\ draft' = NoPrompt /\ queue' = <<>>
  /\ trail' = [trail EXCEPT !.gone = @ \cup InComposer]
  /\ UNCHANGED <<delivery, dispatch, reloads, latest, piStart, stopping, host, arriving>>

(* The session cannot be stopped, or its file cannot be deleted.           *)
DeleteFails ==
  /\ AtRest /\ (history.at = "stop" \/ (history.at = "file" /\ summary.file))
  /\ history' = [history EXCEPT !.at = "failed"]
  /\ UNCHANGED <<summary, draft, queue, delivery, dispatch, reloads, latest,
                 piStart, stopping, host, arriving, trail>>

(* compactActiveSession; the operation ends if it is still this one.       *)
CompactActiveSession ==
  /\ UserMay /\ summary.started /\ summary.operation = "none"
  /\ summary' = [summary EXCEPT !.operation = "compact"]
  /\ UNCHANGED <<draft, queue, delivery, dispatch, reloads, latest, piStart,
                 history, stopping, host, arriving, trail>>
Compacted ==
  /\ AtRest /\ summary.operation = "compact"
  /\ summary' = [summary EXCEPT !.operation = "none"]
  /\ UNCHANGED <<draft, queue, delivery, dispatch, reloads, latest, piStart,
                 history, stopping, host, arriving, trail>>

-----------------------------------------------------------------------------
Composing ==
  \/ \E p \in Prompts :
       \/ UpdateDraft(p) \/ MovePendingPromptToDraft(p) \/ RemovePendingPrompt(p)
       \/ \E q \in Prompts : UpdatePendingPrompt(p, q)
       \/ \E d \in Deliveries : SteerPendingPrompt(d, p) \/ SendGoalCommand(d, p)
  \/ \E d \in Deliveries : SendActivePrompt(d)
  \/ StartThreadInBackground

Continuing ==
  \/ \E d \in Slots :
       \/ EnterSession(d) \/ HandOver(d) \/ ModelApplied(d) \/ PiTakes(d)
       \/ PromptSent(d) \/ Undelivered(d)
  \/ \E d \in Deliveries : TranscriptLoads(d) \/ TaskSettled(d) \/ HistoryEnds(d)
  \/ DispatchNext \/ DispatchShift
  \/ \E n \in DOMAIN reloads : ReloadEnds(n, TRUE)
  \/ StartSessionNow \/ HostStarts \/ StartSessionReturns \/ StartGoesOn
  \/ PiSettles \/ PiCompacted \/ HandlePiEvent \/ HostStops \/ StopReturns
  \/ HistoryStarts \/ EditReturns \/ \E p \in Prompts : ReplayReturns(p)
  \/ ForkReturns \/ ExportReturns
  \/ HistoryAborts("failed") \/ DeleteStops \/ DeleteStopReturns
  \/ RemoveThreadState \/ Compacted

Disturbing ==
  \/ \E kind \in {"edit", "replay"} : BeginRewrite(kind)
  \/ BeginFork \/ BeginDelete
  \/ CompactActiveSession \/ PiCompacts \/ StopThread \/ PiExits \/ StartFails
  \/ \E n \in DOMAIN reloads : ReloadEnds(n, FALSE)

(* What fails because Pi is gone does so without another disturbance.      *)
Failing ==
  \/ \E d \in Slots : ModelFails(d) \/ SendFails(d)
  \/ \E d \in Deliveries : TranscriptFails(d) \/ TaskFails(d)
  \/ HistoryFails \/ HistoryAborts("reload") \/ DeleteFails

PromptNext ==
  \/ (Composing \/ Continuing) /\ UNCHANGED troubles
  \/ troubles < MaxTroubles /\ troubles' = troubles + 1 /\ Disturbing
  \/ /\ troubles' = IF host.alive THEN troubles + 1 ELSE troubles
     /\ troubles' <= MaxTroubles /\ Failing

PromptSpec == PromptInit /\ [][PromptNext]_promptVars

-----------------------------------------------------------------------------
(* The prompts a delivery has taken over.                                  *)
Held == {delivery[d].prompt : d \in {x \in Slots : delivery[x].at # "load"}} \ {NoPrompt}

(* What was typed is still in the composer or in the queue, is being       *)
(* delivered, was accepted, or has gone on a way the code means or that    *)
(* trail.gone names: no failure, stop, exit, restart or operation on the   *)
(* history between two steps of a delivery drops a prompt.                 *)
NothingIsLost ==
  trail.typed \subseteq InComposer \cup Held \cup trail.answered \cup trail.gone

(* A prompt waits in the queue once, and not while it is delivered or after *)
(* it was accepted.                                                         *)
QueuedOnce ==
  \A i, j \in DOMAIN queue :
    queue[i] \notin trail.kept => /\ queue[i] = queue[j] => i = j
                                 /\ queue[i] \notin Held \cup trail.answered

(* Pi is not given a prompt a second time, unless the first time was       *)
(* reported as a failure.                                                  *)
HandedOnce == \A p \in Prompts \ trail.kept : trail.taken[p] <= 1

(* A prompt the user typed is neither lost nor sent twice, whatever the    *)
(* deliveries, the dispatch of the queue, the start of Pi, its end and the *)
(* operations on the history do between its steps (deliverPrompt,          *)
(* dispatchNextPendingPrompt, sendActivePrompt).                           *)
PromptsAreSafe == NothingIsLost /\ QueuedOnce /\ HandedOnce
=============================================================================
