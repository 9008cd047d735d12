----------------------------- MODULE AgentHistory -----------------------------
(***************************************************************************)
(* The agent service around one thread's Pi                                *)
(* (src/internal/appservice/agent.go, pimaintenance.go): starting and      *)
(* stopping it, the commands it is sent, the operations that rewrite its   *)
(* session file while it runs, and the maintenance of the Pi installation. *)
(*                                                                         *)
(* A session file is a set of entries; which entries an operation changes  *)
(* is SessionTree's business.  Pi works on the history it read when it was *)
(* started or switched, and appends to it and to the file.  A Pi that is   *)
(* stopped leaves the supervisor's table at once and is killed afterwards, *)
(* with nobody waiting for its end: until then it may still append.  Slots *)
(* are the goroutines that serve calls.  mutationMu and maintenanceMu are  *)
(* the operations that hold them or wait for them.                         *)
(***************************************************************************)
EXTENDS Naturals, FiniteSets, Sequences

CONSTANTS
  Slots,         \* goroutines of the service
  Paths,         \* session files
  Missing,
  Left,          \* stands for the calls that gave up waiting for their command
  MaxBackups,    \* backups kept beside a session file
  MaxAppended,   \* bound on what Pi appends
  MaxMutations   \* bound on the history operations

(* A history is a set of entries, which Pi numbers; no file is none.       *)
ASSUME MaxAppendedIsNatural == MaxAppended \in Nat
ASSUME MissingIsNoHistory == \A history \in SUBSET (1 .. MaxAppended) : Missing # history
ASSUME MissingIsNoPath == Missing \notin Paths
ASSUME BackupsAreKept == MaxBackups \in Nat \ {0}
ASSUME LeftIsNoSlot == Left \notin Slots

VARIABLES
  pi,           \* the thread's Pi in the supervisor's table: what it runs on, what it does
  stopped,      \* files to which a Pi that left the table may still append
  sessionFiles, \* the session files
  backups,      \* every backup left beside each file, oldest first
  pruned,       \* how many of the oldest of them have been removed
  agent,        \* is there a runtime; historyStopFailed
  call,         \* the operation of each slot
  written,      \* entries Pi has written so far
  mutations,    \* history operations so far
  astray,       \* entries a stopped Pi wrote (history)
  unwatched     \* entries written during a history operation by what no call waits for (history)

entryVars == <<written, astray, unwatched>>
fileVars == <<sessionFiles, backups, pruned>>
agentVars == <<pi, stopped, fileVars, agent, call, mutations, entryVars>>

Free == [at |-> "idle", kind |-> "none", path |-> Missing, target |-> Missing, after |-> {}]

NoPi == [alive |-> FALSE, by |-> Left, path |-> Missing, view |-> {}, mode |-> "idle", bash |-> {}]

AgentInit ==
  /\ pi = NoPi /\ stopped = {}
  /\ \E p \in Paths, old \in 0 .. MaxBackups :
       /\ sessionFiles = [q \in Paths |-> IF q = p THEN {} ELSE Missing]
       /\ backups = [q \in Paths |-> [i \in 1 .. (IF q = p THEN old ELSE 0) |-> {}]]
  /\ pruned = [p \in Paths |-> 0]
  /\ agent = [runtime |-> TRUE, stopFailed |-> FALSE]
  /\ call = [o \in Slots |-> Free]
  /\ mutations = 0
  /\ written = 0 /\ astray = {} /\ unwatched = {}

(* mutationMu: commands and starts share it, a history operation has it    *)
(* alone; none waits for it.                                               *)
Sharing == {o \in Slots : call[o].at \in {"admitted", "starting", "ready", "calling"}}
Rewriting == {o \in Slots : call[o].kind \in {"mutate", "fork"}}

(* maintenanceMu: one that waits to have it alone keeps new starts out.    *)
Maintaining == {o \in Slots : call[o].at \in {"prepare", "stopping", "running", "quit", "closing"}}
MaintenanceFree == Maintaining = {}

GoOn(o, l) == call' = [call EXCEPT ![o].at = l]
Finish(o) == call' = [call EXCEPT ![o] = Free]

(* Supervisor.Stop and its like: the session leaves the table under the    *)
(* lock; then its process is killed, which is not waited for.              *)
PiLeaves == pi' = NoPi /\ stopped' = stopped \cup (IF pi.alive THEN {pi.path} ELSE {})

-----------------------------------------------------------------------------
(* StartSession                                                            *)

StartSession(o, p) ==
  /\ call[o] = Free /\ Rewriting = {} /\ ~agent.stopFailed
  /\ call' = [call EXCEPT ![o] = [Free EXCEPT !.at = "admitted", !.kind = "start", !.path = p]]
  /\ UNCHANGED <<pi, stopped, fileVars, agent, mutations, entryVars>>

(* Mutant: a start does not wait for maintenance.                          *)
AdmitAtOnce(o) ==
  /\ call[o].at = "admitted"
  /\ IF agent.runtime THEN GoOn(o, "starting") ELSE Finish(o)
  /\ UNCHANGED <<pi, stopped, fileVars, agent, mutations, entryVars>>

AdmitStart(o) ==
  /\ call[o].at = "admitted" /\ MaintenanceFree
  /\ IF agent.runtime THEN GoOn(o, "starting") ELSE Finish(o)
  /\ UNCHANGED <<pi, stopped, fileVars, agent, mutations, entryVars>>

(* The supervisor has one Pi per thread and may fail to start it.          *)
SpawnPi(o) ==
  /\ call[o].at = "starting"
  /\ \/ Finish(o) /\ UNCHANGED pi
     \/ /\ ~pi.alive /\ sessionFiles[call[o].path] # Missing
        /\ pi' = [alive |-> TRUE, by |-> o, path |-> call[o].path,
                  view |-> sessionFiles[call[o].path], mode |-> "idle", bash |-> {}]
        /\ GoOn(o, "ready")
  /\ UNCHANGED <<stopped, fileVars, agent, mutations, entryVars>>

(* The wait for readiness ends; if it fails, the session this start made   *)
(* is removed, unless it is no longer the one in the table.                *)
StartReturns(o) ==
  /\ call[o].at = "ready" /\ Finish(o)
  /\ \/ pi' = [pi EXCEPT !.by = IF @ = o THEN Left ELSE @] /\ UNCHANGED stopped
     \/ pi.by = o /\ PiLeaves
  /\ UNCHANGED <<fileVars, agent, mutations, entryVars>>

(* stopThreadIfRunning, which takes no gate.                               *)
StopSession(o) ==
  /\ call[o] = Free /\ agent.runtime /\ pi.alive
  /\ PiLeaves
  /\ UNCHANGED <<fileVars, agent, call, mutations, entryVars>>

-----------------------------------------------------------------------------
(* Commands that may write to the session                                  *)

callWithContext(o, kind) ==
  /\ call[o] = Free /\ Rewriting = {} /\ ~agent.stopFailed
  /\ agent.runtime /\ pi.alive
  /\ call' = [call EXCEPT ![o] = [Free EXCEPT !.at = "calling", !.kind = kind]]
  /\ \/ kind = "prompt" /\ pi' = [pi EXCEPT !.mode = "turn"]
     \/ kind = "bash" /\ pi' = [pi EXCEPT !.bash = @ \cup {o}]
  /\ UNCHANGED <<stopped, fileVars, agent, mutations, entryVars>>

(* The prompt is acknowledged while the turn goes on; bash is answered     *)
(* when it ended, or its deadline passes and it goes on.                   *)
CallReturns(o) ==
  /\ call[o].at = "calling"
  /\ pi' = [pi EXCEPT !.bash = IF o \in @ THEN (@ \ {o}) \cup {Left} ELSE @]
  /\ Finish(o)
  /\ UNCHANGED <<stopped, fileVars, agent, mutations, entryVars>>

(* External: what Pi does by itself.  An entry is appended to its history  *)
(* and to its file.                                                        *)
NewEntry == written < MaxAppended /\ written' = written + 1

(* An entry of a turn or of a bash command, which ends with it; asked      *)
(* says whether it was asked for by a call that the service knows of.      *)
PiWrites(asked, stillRunning) ==
  /\ NewEntry
  /\ pi' = [pi EXCEPT !.view = @ \cup {written'}, !.bash = stillRunning]
  /\ sessionFiles' = [sessionFiles EXCEPT ![pi.path] = @ \cup {written'}]
  /\ unwatched' = IF asked \/ Rewriting = {} THEN unwatched ELSE unwatched \cup {written'}
  /\ UNCHANGED <<stopped, backups, pruned, agent, call, mutations, astray>>

PiWorks ==
  \/ pi.mode \in {"turn", "own"} /\ PiWrites(pi.mode = "turn", pi.bash)
  \/ \E o \in pi.bash : PiWrites(o # Left, pi.bash \ {o})

(* A failed turn is retried after a pause in which Pi does not report to   *)
(* be streaming; the goal extension begins another turn when one has       *)
(* settled, also by itself.                                                *)
PiRests ==
  /\ \/ /\ pi.mode \in {"turn", "own"}
        /\ \E m \in {"idle", "goal"} : pi' = [pi EXCEPT !.mode = m]
     \/ pi.mode = "turn" /\ pi' = [pi EXCEPT !.mode = "retry"]
     \/ pi.mode = "retry" /\ pi' = [pi EXCEPT !.mode = "turn"]
     \/ pi.mode = "goal" /\ pi' = [pi EXCEPT !.mode = "own"]
  /\ UNCHANGED <<stopped, fileVars, agent, call, mutations, entryVars>>

(* Its process ends, or what it says is taken for a protocol error: then   *)
(* it is killed as if it were stopped.                                     *)
PiExits ==
  /\ pi.alive
  /\ \/ PiLeaves
     \/ pi' = NoPi /\ UNCHANGED stopped
  /\ UNCHANGED <<fileVars, agent, call, mutations, entryVars>>

StoppedPiWrites(p) ==
  /\ p \in stopped /\ NewEntry
  /\ sessionFiles' = [sessionFiles EXCEPT ![p] = @ \cup {written'}]
  /\ astray' = astray \cup {written'}
  /\ unwatched' = IF Rewriting = {} THEN unwatched ELSE unwatched \cup {written'}
  /\ UNCHANGED <<pi, stopped, backups, pruned, agent, call, mutations>>

StoppedPiEnds(p) ==
  /\ p \in stopped /\ stopped' = stopped \ {p}
  /\ UNCHANGED <<pi, fileVars, agent, call, mutations, entryVars>>

-----------------------------------------------------------------------------
(* mutateSessionMessage and ForkSessionAt                                  *)

Rewrite(o, kind, p) ==
  /\ call[o] = Free /\ Rewriting = {} /\ Sharing = {} /\ ~agent.stopFailed
  /\ sessionFiles[p] # Missing /\ mutations < MaxMutations
  /\ mutations' = mutations + 1
  /\ call' = [call EXCEPT ![o] = [Free EXCEPT !.at = "locked", !.kind = kind, !.path = p]]
  /\ UNCHANGED <<pi, stopped, fileVars, agent, entryVars>>

(* editableSession: Pi is on this file and reports to be idle; then it is  *)
(* told to abort, which ends a pause before a retry too, though not the    *)
(* pursuit of a goal.                                                      *)
GetState(o) ==
  /\ call[o].at = "locked"
  /\ IF /\ agent.runtime /\ pi.alive /\ pi.path = call[o].path
        /\ pi.mode \notin {"turn", "own"}
       THEN GoOn(o, "asked") ELSE Finish(o)
  /\ UNCHANGED <<pi, stopped, fileVars, agent, mutations, entryVars>>

(* Mutant: what get_state says is taken for the whole truth.               *)
AbortNothing(o) ==
  /\ call[o].at = "asked"
  /\ IF pi.alive THEN GoOn(o, "settled") ELSE Finish(o)
  /\ UNCHANGED <<pi, stopped, fileVars, agent, mutations, entryVars>>

Abort(o) ==
  /\ call[o].at = "asked"
  /\ \/ pi.alive /\ GoOn(o, "settled")
        /\ \E m \in {"idle", "goal"} :
             /\ pi.mode = "idle" => m = "idle"
             /\ pi' = [pi EXCEPT !.mode = m]
     \/ Finish(o) /\ UNCHANGED pi
  /\ UNCHANGED <<stopped, fileVars, agent, mutations, entryVars>>

(* mutateMessage: the file is read and changed, or the change is refused;  *)
(* then it is backed up as it is by now, and then replaced.                *)
ReadSession(o) ==
  /\ call[o].at = "settled" /\ call[o].kind = "mutate"
  /\ \/ Finish(o)
     \/ \E left \in SUBSET sessionFiles[call[o].path] :
          call' = [call EXCEPT ![o].at = "changed", ![o].target = call[o].path, ![o].after = left]
  /\ UNCHANGED <<pi, stopped, fileVars, agent, mutations, entryVars>>

(* Mutant: the file is replaced without a backup.                          *)
GoWithoutBackup(o) ==
  /\ call[o].at = "changed" /\ GoOn(o, "saved")
  /\ UNCHANGED <<pi, stopped, fileVars, agent, mutations, entryVars>>

(* Mutant: the new backup does not count among those that are kept.        *)
GoneTooSoon(n, gone) == IF n - gone >= MaxBackups THEN n - MaxBackups + 1 ELSE gone

(* Of n backups, how many of the oldest are gone when only so many stay.   *)
Gone(n, gone) == IF n - gone > MaxBackups THEN n - MaxBackups ELSE gone

(* backupSession: a backup that cannot be written stays as it is, torn.    *)
BackUpSession(o) ==
  /\ call[o].at = "changed"
  /\ LET p == call[o].path
     IN \/ /\ backups' = [backups EXCEPT ![p] = Append(@, sessionFiles[p])]
           /\ pruned' = [pruned EXCEPT ![p] = Gone(Len(backups[p]) + 1, @)]
           /\ GoOn(o, "saved")
        \/ /\ \/ UNCHANGED backups
              \/ backups' = [backups EXCEPT ![p] = Append(@, {})]
           /\ UNCHANGED pruned /\ Finish(o)
  /\ UNCHANGED <<pi, stopped, sessionFiles, agent, mutations, entryVars>>

(* writeMutationLines; if it fails, the backup it does not need is removed. *)
ReplaceSession(o) ==
  /\ call[o].at = "saved"
  /\ LET p == call[o].path
     IN \/ /\ sessionFiles' = [sessionFiles EXCEPT ![p] = call[o].after]
           /\ GoOn(o, "written") /\ UNCHANGED backups
        \/ /\ backups' = [backups EXCEPT ![p] = SubSeq(@, 1, Len(@) - 1)]
           /\ Finish(o) /\ UNCHANGED sessionFiles
  /\ UNCHANGED <<pi, stopped, pruned, agent, mutations, entryVars>>

(* ForkMessage writes a file of its own, or fails.                         *)
ForkHistory(o, q) ==
  /\ call[o].at = "settled" /\ call[o].kind = "fork" /\ sessionFiles[q] = Missing
  /\ \/ Finish(o) /\ UNCHANGED sessionFiles
     \/ \E part \in SUBSET sessionFiles[call[o].path] :
          /\ sessionFiles' = [sessionFiles EXCEPT ![q] = part]
          /\ call' = [call EXCEPT ![o].at = "written", ![o].target = q]
  /\ UNCHANGED <<pi, stopped, backups, pruned, agent, mutations, entryVars>>

(* reloadMutatedSession: Pi switches to the file, or declines, and its     *)
(* answer arrives or is lost; it may switch after that.                    *)
PiSwitches(o) ==
  /\ call[o].at \in {"written", "uncertain"} /\ pi.alive
  /\ \/ /\ pi' = [pi EXCEPT !.path = call[o].target, !.view = sessionFiles[call[o].target],
                    !.mode = IF @ \in {"goal", "own"} THEN "goal" ELSE "idle"]
        /\ IF call[o].at = "written" THEN GoOn(o, "switched") ELSE UNCHANGED call
     \/ call[o].at = "written" /\ GoOn(o, "cancelled") /\ UNCHANGED pi
  /\ UNCHANGED <<stopped, fileVars, agent, mutations, entryVars>>

AnswerLost(o) ==
  /\ call[o].at \in {"written", "switched", "cancelled"}
  /\ GoOn(o, "uncertain")
  /\ UNCHANGED <<pi, stopped, fileVars, agent, mutations, entryVars>>

ReloadReturns(o) ==
  /\ call[o].at = "switched"
  /\ Finish(o)
  /\ UNCHANGED <<pi, stopped, fileVars, agent, mutations, entryVars>>

(* Mutant: a cancelled switch leaves the changed file.                     *)
CancelKeepsFile(o) ==
  /\ call[o].at = "cancelled" /\ Finish(o)
  /\ UNCHANGED <<pi, stopped, fileVars, agent, mutations, entryVars>>

(* A declined switch is undone: the fork is removed; RestoreMutation looks *)
(* whether the file is still the one that was written, ...                 *)
SwitchCancelled(o) ==
  /\ call[o].at = "cancelled"
  /\ LET c == call[o]
     IN \/ /\ c.kind = "mutate" /\ UNCHANGED sessionFiles
           /\ \/ sessionFiles[c.path] = c.after /\ GoOn(o, "restoring")
              \/ GoOn(o, "uncertain")
        \/ /\ c.kind = "fork" /\ Finish(o)
           /\ \/ sessionFiles' = [sessionFiles EXCEPT ![c.target] = Missing]
              \/ UNCHANGED sessionFiles
  /\ UNCHANGED <<pi, stopped, backups, pruned, agent, mutations, entryVars>>

(* ... and then puts back the backup that was made last.                   *)
RestoreSession(o) ==
  /\ call[o].at = "restoring"
  /\ LET p == call[o].path
     IN \/ /\ sessionFiles' = [sessionFiles EXCEPT ![p] = backups[p][Len(backups[p])]]
           /\ Finish(o)
        \/ GoOn(o, "uncertain") /\ UNCHANGED sessionFiles
  /\ UNCHANGED <<pi, stopped, backups, pruned, agent, mutations, entryVars>>

(* stopUncertainSession: files and backups stay; if Pi cannot be stopped,  *)
(* nothing may be started or said any more.  A Pi that still runs may      *)
(* still make the switch.                                                  *)
stopUncertainSession(o) ==
  /\ call[o].at = "uncertain" /\ Finish(o)
  /\ \/ /\ agent.runtime /\ pi.alive /\ pi' = NoPi
        /\ stopped' = stopped \cup {pi.path, call[o].target}
        /\ \E failed \in BOOLEAN : agent' = [agent EXCEPT !.stopFailed = failed]
     \/ agent.runtime /\ ~pi.alive /\ UNCHANGED <<pi, stopped, agent>>
     \/ ~agent.runtime /\ agent' = [agent EXCEPT !.stopFailed = TRUE] /\ UNCHANGED <<pi, stopped>>
  /\ UNCHANGED <<fileVars, mutations, entryVars>>

-----------------------------------------------------------------------------
(* MaintainPi and ServiceShutdown                                          *)

MaintainPi(o) ==
  /\ call[o] = Free
  /\ \A x \in Slots : call[x].kind # "maintain"   \* PiMaintenanceService.mu
  /\ call' = [call EXCEPT ![o] = [Free EXCEPT !.at = "prepare", !.kind = "maintain"]]
  /\ UNCHANGED <<pi, stopped, fileVars, agent, mutations, entryVars>>

ServiceShutdown(o) ==
  /\ call[o] = Free /\ \A x \in Slots : call[x].kind # "quit"
  /\ agent.runtime
  /\ call' = [call EXCEPT ![o] = [Free EXCEPT !.at = "quit", !.kind = "quit"]]
  /\ UNCHANGED <<pi, stopped, fileVars, agent, mutations, entryVars>>

(* maintenanceMu.Lock returns when no start holds it.                      *)
Exclusive(o) ==
  \A x \in Slots \ {o} : call[x].at \notin {"starting", "ready", "stopping", "running", "closing"}

preparePiMaintenance(o) ==
  /\ call[o].at = "prepare" /\ Exclusive(o)
  /\ IF agent.runtime THEN GoOn(o, "stopping") ELSE Finish(o)
  /\ UNCHANGED <<pi, stopped, fileVars, agent, mutations, entryVars>>

(* StopAll takes what is in the table.  It refuses while an exit is being  *)
(* projected, and fails when a Pi cannot be killed.                        *)
StopEverything(o) ==
  /\ call[o].at = "stopping"
  /\ \/ PiLeaves /\ (GoOn(o, "running") \/ Finish(o))
     \/ UNCHANGED <<pi, stopped>> /\ Finish(o)
  /\ UNCHANGED <<fileVars, agent, mutations, entryVars>>

MaintainerReturns(o) ==
  /\ call[o].at = "running" /\ Finish(o)
  /\ UNCHANGED <<pi, stopped, fileVars, agent, mutations, entryVars>>

(* The runtime is withdrawn, and then shut down.                           *)
WithdrawRuntime(o) ==
  /\ call[o].at = "quit" /\ Exclusive(o)
  /\ agent' = [agent EXCEPT !.runtime = FALSE] /\ GoOn(o, "closing")
  /\ UNCHANGED <<pi, stopped, fileVars, mutations, entryVars>>

Shutdown(o) ==
  /\ call[o].at = "closing" /\ PiLeaves /\ Finish(o)
  /\ UNCHANGED <<fileVars, agent, mutations, entryVars>>

-----------------------------------------------------------------------------
AgentNext ==
  \/ PiWorks \/ PiRests \/ PiExits
  \/ \E p \in Paths : StoppedPiWrites(p) \/ StoppedPiEnds(p)
  \/ \E o \in Slots :
       \/ AdmitStart(o) \/ SpawnPi(o) \/ StartReturns(o) \/ StopSession(o) \/ CallReturns(o)
       \/ GetState(o) \/ Abort(o) \/ ReadSession(o) \/ BackUpSession(o) \/ ReplaceSession(o)
       \/ PiSwitches(o) \/ AnswerLost(o) \/ ReloadReturns(o) \/ SwitchCancelled(o)
       \/ RestoreSession(o) \/ stopUncertainSession(o) \/ MaintainPi(o) \/ ServiceShutdown(o)
       \/ preparePiMaintenance(o) \/ StopEverything(o) \/ MaintainerReturns(o)
       \/ WithdrawRuntime(o) \/ Shutdown(o)
       \/ \E kind \in {"prompt", "bash"} : callWithContext(o, kind)
       \/ \E p \in Paths :
            \/ StartSession(o, p) \/ ForkHistory(o, p)
            \/ \E kind \in {"mutate", "fork"} : Rewrite(o, kind, p)

AgentSpec == AgentInit /\ [][AgentNext]_agentVars

-----------------------------------------------------------------------------
(* Properties                                                              *)

AgentTypeOK ==
  /\ pi.mode \in {"idle", "turn", "retry", "goal", "own"} /\ pi.bash \subseteq Slots \cup {Left}
  /\ Cardinality(Rewriting) <= 1 /\ (Rewriting # {} => Sharing = {})

(* What a Pi has in common with the file it works on, leaving out what a   *)
(* Pi that was stopped, or one that no call asked to, appended meanwhile.  *)
Watched(history) == history \ (astray \cup unwatched)

(* "Pi may already be using the new leaf.  Stop it and keep both the file  *)
(* and backup" (reloadMutatedSession): a Pi whose history is not the file  *)
(* is one that an operation is about to switch, and nothing that a call    *)
(* asked of it is going on, so no call appends to a branch that is gone;   *)
(* and when a Pi could not be stopped, none serves any more.               *)
PiKnowsItsHistory ==
  /\ pi.alive /\ Watched(pi.view) # Watched(sessionFiles[pi.path]) =>
       /\ Rewriting # {} \/ ~agent.runtime
       /\ pi.mode \notin {"turn", "retry"} /\ pi.bash \cap Slots = {}
  /\ agent.stopFailed /\ agent.runtime => ~pi.alive

(* While the Pi installation is replaced no Pi is in the table, where a    *)
(* call could find it, and none after shutdown: what still runs then has   *)
(* been stopped, although nothing waits for its end.                       *)
NoPiServesMaintenance ==
  \/ \E o \in Slots : call[o].at = "running"
  \/ ~agent.runtime /\ (\A o \in Slots : call[o].at # "closing")
  => ~pi.alive

(* Whatever a history operation did to the files, what Pi once wrote is in *)
(* a file or was copied into a backup, unless it was written during such   *)
(* an operation by what no call waits for; and a backup that was removed   *)
(* has had enough later ones.                                              *)
NothingIsLost ==
  /\ \A e \in (1 .. written) \ unwatched : \E p \in Paths :
       \/ sessionFiles[p] # Missing /\ e \in sessionFiles[p]
       \/ \E i \in DOMAIN backups[p] : e \in backups[p][i]
  /\ \A p \in Paths : pruned[p] > 0 => Len(backups[p]) - pruned[p] >= MaxBackups - 1

(* Rewriting the history of a running Pi puts nothing at risk.             *)
HistoryIsSafe == AgentTypeOK /\ PiKnowsItsHistory /\ NothingIsLost

=============================================================================
