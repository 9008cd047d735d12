-------------------------- MODULE AppServiceProofs --------------------------
(***************************************************************************)
(* Proofs about the services of the application.                           *)
(*                                                                         *)
(* AgentHistory, for any number of goroutines, session files, backups,     *)
(* writes of Pi and history operations.  A history operation has the       *)
(* thread for itself, though not the session files, to which a Pi that     *)
(* was stopped still writes: the inductive invariant says what each of its *)
(* steps may rely on in spite of that.                                     *)
(*                                                                         *)
(* WorkspaceCatalog, for any number of directories, targets, roots,        *)
(* identities, threads and session files.  What a request has checked      *)
(* before it takes the catalog's mutex stays true, or is checked again     *)
(* under it; a content that is written is good for the files as they are.  *)
(*                                                                         *)
(* ConfigDocuments and AgentFiles, for any number of keys, names and       *)
(* extensions: what one step of a request leaves to the next.              *)
(*                                                                         *)
(* Terminals, for any number of terminals, chunks, bindings and loads: who *)
(* will close a terminal, and what its replay buffer holds.                *)
(***************************************************************************)
EXTENDS AgentHistory, WorkspaceCatalog, ConfigDocuments, AgentFiles, Terminals,
        FiniteSetTheorems, SequenceTheorems, TLAPS

-----------------------------------------------------------------------------
(* The history of agents                                                   *)

Rewrites == {"locked", "asked", "settled", "changed", "saved", "written", "switched",
             "cancelled", "restoring", "uncertain"}
Shares == {"admitted", "starting", "ready", "calling"}
Stages == {"idle", "prepare", "stopping", "running", "quit", "closing"} \cup Shares \cup Rewrites
CallKinds == {"none", "start", "prompt", "bash", "mutate", "fork", "maintain", "quit"}
Modes == {"idle", "turn", "retry", "goal", "own"}

Entries == 1 .. written

Calls == [at : Stages, kind : CallKinds, path : Paths \cup {Missing},
          target : Paths \cup {Missing}, after : SUBSET Entries]

PiStates == [alive : BOOLEAN, by : Slots \cup {Left}, path : Paths \cup {Missing},
             view : SUBSET Entries, mode : Modes, bash : SUBSET (Slots \cup {Left})]

Types ==
  /\ written \in 0 .. MaxAppended /\ mutations \in Nat
  /\ pi \in PiStates /\ stopped \in SUBSET Paths
  /\ sessionFiles \in [Paths -> (SUBSET Entries) \cup {Missing}]
  /\ backups \in [Paths -> Seq(SUBSET Entries)] /\ pruned \in [Paths -> Nat]
  /\ agent \in [runtime : BOOLEAN, stopFailed : BOOLEAN]
  /\ call \in [Slots -> Calls]
  /\ astray \in SUBSET Entries /\ unwatched \in SUBSET Entries

(* The kind of an operation is known from its stage, and so is whether it  *)
(* has a file.                                                             *)
Kinds ==
  \A o \in Slots :
    /\ call[o].at \in Rewrites <=> call[o].kind \in {"mutate", "fork"}
    /\ call[o].at \in {"changed", "saved", "restoring"} => call[o].kind = "mutate"
    /\ call[o].at \in Rewrites \cup {"admitted", "starting"} => call[o].path \in Paths

(* mutationMu: one history operation, alone, and none, nor any command,    *)
(* after one that could not stop Pi.                                       *)
Alone ==
  /\ \A o \in Rewriting : Sharing = {} /\ \A x \in Rewriting : x = o
  /\ agent.stopFailed => Rewriting = {} /\ Sharing = {}

(* maintenanceMu: what has it alone runs alone, and no Pi starts once the  *)
(* runtime is gone.                                                        *)
Holding == {o \in Slots : call[o].at \in {"stopping", "running", "closing"}}
Starting == {o \in Slots : call[o].at \in {"starting", "ready"}}

Maintained ==
  /\ \A o \in Holding : Starting = {} /\ \A x \in Holding : x = o
  /\ Starting # {} => agent.runtime
  /\ NoPiServesMaintenance

(* A Pi that runs has a session file, and one that does not does nothing;  *)
(* a bash command that no call has left is still waited for.               *)
PiHasFile ==
  /\ ~pi.alive => pi = NoPi
  /\ pi.alive => pi.path \in Paths /\ sessionFiles[pi.path] # Missing
  /\ \A p \in stopped : sessionFiles[p] # Missing
  /\ \A o \in pi.bash : o # Left => call[o].at = "calling"

(* What a history operation relies on while it has the thread: the session *)
(* file it was called for, Pi on that file until it is switched, and the   *)
(* file it made.                                                           *)
Files(o) ==
  LET c == call[o] IN
  /\ sessionFiles[c.path] # Missing
  /\ c.at \notin {"locked", "switched", "uncertain"} /\ pi.alive => pi.path = c.path
  /\ c.at \in {"changed", "saved"} => c.target = c.path
  /\ c.at \in {"written", "switched", "cancelled", "restoring", "uncertain"} =>
       c.target \in Paths /\ sessionFiles[c.target] # Missing
  /\ c.at \in {"written", "cancelled", "restoring"} /\ c.kind = "mutate" => c.target = c.path
  /\ c.at \in {"written", "cancelled"} /\ c.kind = "fork" =>
       /\ c.target # c.path /\ c.target \notin stopped
       /\ sessionFiles[c.target] \subseteq sessionFiles[c.path]
  /\ c.at = "switched" /\ pi.alive => pi.path = c.target

(* The backup a history operation has made.                                *)
LastBackup(o) == backups[call[o].path][Len(backups[call[o].path])]

BackedUp(o) ==
  LET c == call[o] IN
  /\ c.at = "changed" => c.after \subseteq sessionFiles[c.path]
  /\ c.kind = "mutate" /\ c.at \in {"saved", "written", "cancelled", "restoring"} =>
       Len(backups[c.path]) > 0 /\ c.after \subseteq LastBackup(o)
  /\ c.at = "saved" => /\ LastBackup(o) \subseteq sessionFiles[c.path]
                       /\ sessionFiles[c.path] \subseteq LastBackup(o) \cup unwatched
                       /\ pruned[c.path] > 0 =>
                            Len(backups[c.path]) - pruned[c.path] >= MaxBackups
  /\ c.at = "restoring" => sessionFiles[c.path] \subseteq LastBackup(o) \cup unwatched

(* What Pi knows of the file at each stage of a history operation: nothing *)
(* it was asked to do goes on once it was told to abort, and it is unaware *)
(* of the new history from the write to the switch.                        *)
Current == Watched(pi.view) = Watched(sessionFiles[pi.path])

(* A Pi that lost track serves nobody: the runtime is gone.                *)
Strayed == ~agent.runtime /\ pi.mode \notin {"turn", "retry"} /\ pi.bash \subseteq {Left}

Stage(o) ==
  LET c == call[o] IN pi.alive =>
    /\ c.at \notin {"locked", "asked"} => pi.mode \notin {"turn", "retry"}
    /\ c.at = "locked" => Current \/ Strayed
    /\ c.at \in {"asked", "settled", "changed", "saved", "switched"} => Current
    /\ c.at \in {"written", "cancelled"} /\ c.kind = "fork" => Current
    /\ c.at \in {"saved", "written", "cancelled", "restoring"} /\ c.kind = "mutate" =>
         Watched(pi.view) = Watched(LastBackup(o))

(* Between history operations Pi knows its file, until the runtime is      *)
(* withdrawn, and serves if it could be stopped.                           *)
Between ==
  /\ pi.alive /\ Rewriting = {} => Current \/ Strayed
  /\ pi.alive /\ agent.runtime => ~agent.stopFailed

FInv ==
  /\ Types /\ Kinds /\ Alone /\ Maintained /\ PiHasFile
  /\ (\A o \in Rewriting : Files(o) /\ BackedUp(o) /\ Stage(o))
  /\ Between /\ NothingIsLost
-----------------------------------------------------------------------------
(* Types                                                                   *)

(* What a step may write.                                                  *)
LEMMA StartValues == Free \in Calls /\ NoPi \in PiStates /\ Free.at = "idle" /\ Free.kind = "none"
BY DEF Free, NoPi, Calls, PiStates, Stages, CallKinds, Modes

(* The ways in which an operation changes.                                 *)
Others(o) == DOMAIN call' = Slots /\ \A x \in Slots : x # o => call'[x] = call[x]

Begins(o, l, k) ==
  /\ call[o].at = "idle" /\ call[o].kind = "none" /\ call'[o].at = l /\ call'[o].kind = k
  /\ Others(o)

Goes(o, l, m) ==
  /\ call[o].at = l /\ call'[o].at = m /\ call'[o].kind = call[o].kind
  /\ call'[o].path = call[o].path /\ Others(o)
  /\ m \notin {"changed", "written"} \/ l = "saved" =>
       call'[o].target = call[o].target /\ call'[o].after = call[o].after

Ends(o) == call'[o] = Free /\ Others(o)

LEMMA Going ==
  ASSUME Types, NEW o \in Slots, NEW m \in Stages, GoOn(o, m)
  PROVE  Goes(o, call[o].at, m) /\ call' \in [Slots -> Calls]
BY DEF GoOn, Goes, Others, Types, Calls

LEMMA Ending ==
  ASSUME Types, NEW o \in Slots, Finish(o)
  PROVE  Ends(o) /\ call' \in [Slots -> Calls]
BY StartValues DEF Finish, Ends, Others, Types

LEMMA Beginning ==
  ASSUME Types, NEW o \in Slots, call[o] = Free, NEW l \in Stages, NEW k \in CallKinds,
         NEW p \in Paths \cup {Missing},
         call' = [call EXCEPT ![o] = [Free EXCEPT !.at = l, !.kind = k, !.path = p]]
  PROVE  Begins(o, l, k) /\ call'[o].path = p /\ call' \in [Slots -> Calls]
<1>1. [Free EXCEPT !.at = l, !.kind = k, !.path = p] \in Calls
  BY DEF Free, Calls
<1>2. /\ [Free EXCEPT !.at = l, !.kind = k, !.path = p].at = l
      /\ [Free EXCEPT !.at = l, !.kind = k, !.path = p].kind = k
      /\ [Free EXCEPT !.at = l, !.kind = k, !.path = p].path = p
  BY DEF Free
<1> QED
  BY <1>1, <1>2, StartValues DEF Begins, Others, Types

LEMMA BeginningWithout ==
  ASSUME Types, NEW o \in Slots, call[o] = Free, NEW l \in Stages, NEW k \in CallKinds,
         call' = [call EXCEPT ![o] = [Free EXCEPT !.at = l, !.kind = k]]
  PROVE  Begins(o, l, k) /\ call' \in [Slots -> Calls]
<1>1. [Free EXCEPT !.at = l, !.kind = k] \in Calls
  BY DEF Free, Calls
<1>2. /\ [Free EXCEPT !.at = l, !.kind = k].at = l
      /\ [Free EXCEPT !.at = l, !.kind = k].kind = k
  BY DEF Free
<1> QED
  BY <1>1, <1>2, StartValues DEF Begins, Others, Types

LEMMA CallFields ==
  ASSUME Types, NEW o \in Slots
  PROVE  /\ call[o].at \in Stages /\ call[o].kind \in CallKinds
         /\ call[o].path \in Paths \cup {Missing}
         /\ call[o].target \in Paths \cup {Missing} /\ call[o].after \in SUBSET Entries
BY DEF Types, Calls

LEMMA PiFields ==
  ASSUME Types
  PROVE  /\ pi.alive \in BOOLEAN /\ pi.by \in Slots \cup {Left} /\ pi.path \in Paths \cup {Missing}
         /\ pi.view \in SUBSET Entries /\ pi.mode \in Modes /\ pi.bash \in SUBSET (Slots \cup {Left})
BY DEF Types, PiStates

(* A file that is there is a history.                                      *)
LEMMA HistoryTypes ==
  ASSUME Types, NEW p \in Paths, sessionFiles[p] # Missing
  PROVE  sessionFiles[p] \in SUBSET Entries
<1>1. sessionFiles[p] \in (SUBSET Entries) \cup {Missing}
  BY DEF Types
<1> QED
  BY <1>1

LEMMA MissingIsNotAHistory == ASSUME Types, NEW h \in SUBSET Entries PROVE h # Missing
<1>1. written \in 0 .. MaxAppended /\ MaxAppended \in Nat
  BY MaxAppendedIsNatural DEF Types
<1>2. Entries \subseteq 1 .. MaxAppended
  BY <1>1 DEF Entries
<1>3. h \in SUBSET (1 .. MaxAppended)
  BY <1>2
<1> QED
  BY <1>3, MissingIsNoHistory
(* How each action changes the operation of its slot.                      *)
LEMMA Ways ==
  ASSUME Types, NEW o \in Slots
  PROVE  /\ \A p \in Paths : StartSession(o, p) => Begins(o, "admitted", "start") /\ call'[o].path = p
         /\ \A k \in {"prompt", "bash"} : callWithContext(o, k) => Begins(o, "calling", k)
         /\ \A k \in {"mutate", "fork"}, p \in Paths :
              Rewrite(o, k, p) => Begins(o, "locked", k) /\ call'[o].path = p
         /\ MaintainPi(o) => Begins(o, "prepare", "maintain")
         /\ ServiceShutdown(o) => Begins(o, "quit", "quit")
         /\ ReadSession(o) => Goes(o, "settled", "changed") \/ Ends(o)
         /\ \A q \in Paths : ForkHistory(o, q) => Goes(o, "settled", "written") \/ Ends(o)
         /\ PiSwitches(o) => \/ Goes(o, "written", "switched") \/ Goes(o, "written", "cancelled")
                             \/ call[o].at = "uncertain" /\ UNCHANGED call
         /\ AnswerLost(o) => Goes(o, call[o].at, "uncertain")
         /\ SwitchCancelled(o) => \/ Goes(o, "cancelled", "restoring") \/ Goes(o, "cancelled", "uncertain")
                                  \/ Ends(o)
         /\ WithdrawRuntime(o) => Goes(o, "quit", "closing")
         /\ AdmitStart(o) => Goes(o, "admitted", "starting") \/ Ends(o)
         /\ SpawnPi(o) => Goes(o, "starting", "ready") \/ Ends(o)
         /\ StartReturns(o) => Ends(o)
         /\ CallReturns(o) => Ends(o)
         /\ GetState(o) => Goes(o, "locked", "asked") \/ Ends(o)
         /\ Abort(o) => Goes(o, "asked", "settled") \/ Ends(o)
         /\ BackUpSession(o) => Goes(o, "changed", "saved") \/ Ends(o)
         /\ ReplaceSession(o) => Goes(o, "saved", "written") \/ Ends(o)
         /\ ReloadReturns(o) => Ends(o)
         /\ RestoreSession(o) => Goes(o, "restoring", "uncertain") \/ Ends(o)
         /\ stopUncertainSession(o) => Ends(o)
         /\ preparePiMaintenance(o) => Goes(o, "prepare", "stopping") \/ Ends(o)
         /\ StopEverything(o) => Goes(o, "stopping", "running") \/ Ends(o)
         /\ MaintainerReturns(o) => Ends(o)
         /\ Shutdown(o) => Ends(o)
<1> USE DEF Stages, Shares, Rewrites, CallKinds
<1>1. ASSUME NEW p \in Paths, StartSession(o, p)
      PROVE  Begins(o, "admitted", "start") /\ call'[o].path = p
  BY <1>1, Beginning DEF StartSession
<1>2. ASSUME NEW k \in {"prompt", "bash"}, callWithContext(o, k) PROVE Begins(o, "calling", k)
  BY <1>2, BeginningWithout DEF callWithContext
<1>3. ASSUME NEW k \in {"mutate", "fork"}, NEW p \in Paths, Rewrite(o, k, p)
      PROVE  Begins(o, "locked", k) /\ call'[o].path = p
  <2>1. /\ call[o] = Free /\ k \in CallKinds /\ p \in Paths \cup {Missing} /\ "locked" \in Stages
        /\ call' = [call EXCEPT ![o] = [Free EXCEPT !.at = "locked", !.kind = k, !.path = p]]
    BY <1>3 DEF Rewrite
  <2> QED
    <3> HIDE DEF CallKinds, Stages, Shares, Rewrites
    <3> QED
      BY <2>1, Beginning
<1>4. MaintainPi(o) => Begins(o, "prepare", "maintain")
  BY BeginningWithout DEF MaintainPi
<1>5. ServiceShutdown(o) => Begins(o, "quit", "quit")
  BY BeginningWithout DEF ServiceShutdown
<1>6. ASSUME ReadSession(o) PROVE Goes(o, "settled", "changed") \/ Ends(o)
  <2>1. CASE Finish(o)
    BY <2>1, Ending
  <2>2. ASSUME NEW left \in SUBSET sessionFiles[call[o].path],
               call' = [call EXCEPT ![o].at = "changed", ![o].target = call[o].path, ![o].after = left]
        PROVE  Goes(o, "settled", "changed")
    <3>1. call[o].at = "settled"
      BY <1>6 DEF ReadSession
    <3>2. call'[o] = [call[o] EXCEPT !.at = "changed", !.target = call[o].path, !.after = left]
      BY <2>2 DEF Types
    <3>3. Others(o)
      BY <2>2 DEF Others, Types
    <3> QED
      BY <3>1, <3>2, <3>3, CallFields DEF Goes
  <2> QED
    BY <1>6, <2>1, <2>2 DEF ReadSession
<1>7. ASSUME NEW q \in Paths, ForkHistory(o, q) PROVE Goes(o, "settled", "written") \/ Ends(o)
  <2>1. CASE Finish(o)
    BY <2>1, Ending
  <2>2. CASE call' = [call EXCEPT ![o].at = "written", ![o].target = q]
    BY <1>7, <2>2 DEF ForkHistory, Goes, Others, Types, Calls
  <2> QED
    BY <1>7, <2>1, <2>2 DEF ForkHistory
<1>8. PiSwitches(o) => \/ Goes(o, "written", "switched") \/ Goes(o, "written", "cancelled")
                       \/ call[o].at = "uncertain" /\ UNCHANGED call
  BY Going DEF PiSwitches
<1>9. AnswerLost(o) => Goes(o, call[o].at, "uncertain")
  BY Going DEF AnswerLost
<1>10. SwitchCancelled(o) => \/ Goes(o, "cancelled", "restoring") \/ Goes(o, "cancelled", "uncertain")
                             \/ Ends(o)
  BY Going, Ending DEF SwitchCancelled
<1>11. WithdrawRuntime(o) => Goes(o, "quit", "closing")
  BY Going DEF WithdrawRuntime
<1>12. AdmitStart(o) => Goes(o, "admitted", "starting") \/ Ends(o)
  BY Going, Ending DEF AdmitStart
<1>13. SpawnPi(o) => Goes(o, "starting", "ready") \/ Ends(o)
  BY Going, Ending DEF SpawnPi
<1>14. StartReturns(o) => Ends(o)
  BY Going, Ending DEF StartReturns
<1>15. CallReturns(o) => Ends(o)
  BY Going, Ending DEF CallReturns
<1>16. GetState(o) => Goes(o, "locked", "asked") \/ Ends(o)
  BY Going, Ending DEF GetState
<1>17. Abort(o) => Goes(o, "asked", "settled") \/ Ends(o)
  BY Going, Ending DEF Abort
<1>18. BackUpSession(o) => Goes(o, "changed", "saved") \/ Ends(o)
  BY Going, Ending DEF BackUpSession
<1>19. ReplaceSession(o) => Goes(o, "saved", "written") \/ Ends(o)
  BY Going, Ending DEF ReplaceSession
<1>20. ReloadReturns(o) => Ends(o)
  BY Going, Ending DEF ReloadReturns
<1>21. RestoreSession(o) => Goes(o, "restoring", "uncertain") \/ Ends(o)
  BY Going, Ending DEF RestoreSession
<1>22. stopUncertainSession(o) => Ends(o)
  BY Going, Ending DEF stopUncertainSession
<1>23. preparePiMaintenance(o) => Goes(o, "prepare", "stopping") \/ Ends(o)
  BY Going, Ending DEF preparePiMaintenance
<1>24. StopEverything(o) => Goes(o, "stopping", "running") \/ Ends(o)
  BY Going, Ending DEF StopEverything
<1>25. MaintainerReturns(o) => Ends(o)
  BY Going, Ending DEF MaintainerReturns
<1>26. Shutdown(o) => Ends(o)
  BY Going, Ending DEF Shutdown
<1> QED
  BY <1>1, <1>2, <1>3, <1>4, <1>5, <1>6, <1>7, <1>8, <1>9, <1>10, <1>11, <1>12, <1>13, <1>14, <1>15, <1>16, <1>17, <1>18, <1>19, <1>20, <1>21, <1>22, <1>23, <1>24, <1>25, <1>26
LEMMA SameTypes ==
  UNCHANGED written => Entries' = Entries /\ Calls' = Calls /\ PiStates' = PiStates
BY DEF Entries, Calls, PiStates

(* A step that writes no entry is judged by the entries there are.         *)
LEMMA TypesWithoutEntry ==
  ASSUME Types, UNCHANGED entryVars, mutations' \in Nat,
         pi' \in PiStates, stopped' \in SUBSET Paths,
         sessionFiles' \in [Paths -> (SUBSET Entries) \cup {Missing}],
         backups' \in [Paths -> Seq(SUBSET Entries)], pruned' \in [Paths -> Nat],
         agent' \in [runtime : BOOLEAN, stopFailed : BOOLEAN], call' \in [Slots -> Calls]
  PROVE  Types'
BY SameTypes DEF Types, entryVars

LEMMA PiLeavesTypes ==
  ASSUME Types, PiHasFile, PiLeaves
  PROVE  pi' \in PiStates /\ stopped' \in SUBSET Paths
BY StartValues DEF PiLeaves, PiHasFile, Types

LEMMA PiTypes ==
  ASSUME Types
  PROVE  /\ \A m \in Modes : [pi EXCEPT !.mode = m] \in PiStates
         /\ \A b \in SUBSET (Slots \cup {Left}) : [pi EXCEPT !.bash = b] \in PiStates
         /\ \A b \in Slots \cup {Left} : [pi EXCEPT !.by = b] \in PiStates
         /\ \A p \in Paths, v \in SUBSET Entries, m \in Modes :
              [pi EXCEPT !.path = p, !.view = v, !.mode = m] \in PiStates
         /\ \A p \in Paths, v \in SUBSET Entries, o \in Slots :
              [alive |-> TRUE, by |-> o, path |-> p, view |-> v, mode |-> "idle", bash |-> {}] \in PiStates
BY DEF Types, PiStates, Modes

(* Writing an entry.                                                       *)
LEMMA EntryTypes ==
  ASSUME Types, NewEntry
  PROVE  /\ written' \in 0 .. MaxAppended /\ written' \in Entries'
         /\ \A h \in SUBSET Entries : h \in SUBSET Entries' /\ h \cup {written'} \in SUBSET Entries'
         /\ written' \notin Entries
<1>1. written \in Nat /\ MaxAppended \in Nat
  BY MaxAppendedIsNatural DEF Types
<1>2. written' = written + 1 /\ written' <= MaxAppended
  BY <1>1 DEF NewEntry
<1>3. Entries \subseteq Entries' /\ written' \in Entries' /\ written' \notin Entries
  BY <1>1, <1>2 DEF Entries
<1> QED
  BY <1>1, <1>2, <1>3

LEMMA TypesWithEntry ==
  ASSUME Types, NewEntry, UNCHANGED <<stopped, backups, pruned, agent, call, mutations>>,
         pi' \in PiStates', NEW p \in Paths, sessionFiles[p] # Missing,
         sessionFiles' = [sessionFiles EXCEPT ![p] = @ \cup {written'}],
         astray' = astray \/ astray' = astray \cup {written'},
         unwatched' = unwatched \/ unwatched' = unwatched \cup {written'}
  PROVE  Types'
<1>1. sessionFiles' \in [Paths -> (SUBSET Entries') \cup {Missing}]
  <2>1. sessionFiles[p] \cup {written'} \in SUBSET Entries'
    BY EntryTypes, HistoryTypes
  <2>2. \A q \in Paths : sessionFiles[q] \in (SUBSET Entries') \cup {Missing}
    BY EntryTypes DEF Types
  <2> QED
    BY <2>1, <2>2 DEF Types
<1>2. call' \in [Slots -> Calls']
  BY EntryTypes DEF Types, Calls
<1>3. backups' \in [Paths -> Seq(SUBSET Entries')]
  <2>1. SUBSET Entries \subseteq SUBSET Entries'
    BY EntryTypes
  <2>2. ASSUME NEW q \in Paths PROVE backups[q] \in Seq(SUBSET Entries')
    <3>1. backups[q] \in Seq(SUBSET Entries)
      BY DEF Types
    <3> QED
      BY <2>1, <3>1
  <2> QED
    BY <2>2 DEF Types
<1>4. astray' \in SUBSET Entries' /\ unwatched' \in SUBSET Entries'
  BY EntryTypes DEF Types
<1> QED
  BY <1>1, <1>2, <1>3, <1>4, EntryTypes DEF Types
LEMMA FilePut ==
  ASSUME Types, NEW p, NEW h \in (SUBSET Entries) \cup {Missing},
         sessionFiles' = [sessionFiles EXCEPT ![p] = h]
  PROVE  sessionFiles' \in [Paths -> (SUBSET Entries) \cup {Missing}]
BY DEF Types

LEMMA BackupTypes ==
  ASSUME Types, NEW p \in Paths
  PROVE  /\ backups[p] \in Seq(SUBSET Entries) /\ Len(backups[p]) \in Nat
         /\ \A h \in SUBSET Entries : Append(backups[p], h) \in Seq(SUBSET Entries)
         /\ Len(backups[p]) > 0 =>
              /\ backups[p][Len(backups[p])] \in SUBSET Entries
              /\ SubSeq(backups[p], 1, Len(backups[p]) - 1) \in Seq(SUBSET Entries)
<1>1. backups[p] \in Seq(SUBSET Entries)
  BY DEF Types
<1> QED
  BY <1>1, AppendProperties, LenProperties, ElementOfSeq, SubSeqProperties

LEMMA CallEdits ==
  ASSUME Types, NEW o \in Slots, NEW l \in Stages, NEW t \in Paths \cup {Missing}
  PROVE  /\ [call EXCEPT ![o].at = l, ![o].target = t] \in [Slots -> Calls]
         /\ \A a \in SUBSET Entries :
              [call EXCEPT ![o].at = l, ![o].target = t, ![o].after = a] \in [Slots -> Calls]
<1>1. call \in [Slots -> Calls] /\ call[o] \in Calls
  BY DEF Types
<1>2. [call[o] EXCEPT !.at = l, !.target = t] \in Calls
  BY <1>1 DEF Calls
<1>3. ASSUME NEW a \in SUBSET Entries
      PROVE  [call[o] EXCEPT !.at = l, !.target = t, !.after = a] \in Calls
  BY <1>1 DEF Calls
<1>4. /\ [call EXCEPT ![o].at = l, ![o].target = t] =
            [call EXCEPT ![o] = [call[o] EXCEPT !.at = l, !.target = t]]
      /\ \A a \in SUBSET Entries :
           [call EXCEPT ![o].at = l, ![o].target = t, ![o].after = a] =
             [call EXCEPT ![o] = [call[o] EXCEPT !.at = l, !.target = t, !.after = a]]
  BY <1>1
<1> QED
  BY <1>1, <1>2, <1>3, <1>4

(* Every step, and a stutter, keeps the types.                             *)
LEMMA TypesStep == FInv /\ [AgentNext]_agentVars => Types'
<1> SUFFICES ASSUME FInv, Types, PiHasFile, [AgentNext]_agentVars PROVE Types'
  BY DEF FInv
<1>0. /\ mutations \in Nat /\ mutations + 1 \in Nat
      /\ pi \in PiStates /\ stopped \in SUBSET Paths
      /\ sessionFiles \in [Paths -> (SUBSET Entries) \cup {Missing}]
      /\ backups \in [Paths -> Seq(SUBSET Entries)] /\ pruned \in [Paths -> Nat]
      /\ agent \in [runtime : BOOLEAN, stopFailed : BOOLEAN] /\ call \in [Slots -> Calls]
  BY DEF Types
<1>l. Stages = {"idle", "prepare", "stopping", "running", "quit", "closing", "admitted", "starting",
                "ready", "calling", "locked", "asked", "settled", "changed", "saved", "written",
                "switched", "cancelled", "restoring", "uncertain"}
  BY DEF Stages, Shares, Rewrites
<1>1. CASE UNCHANGED agentVars
  BY <1>0, <1>1, TypesWithoutEntry DEF agentVars, entryVars, fileVars
<1>2. CASE PiWorks
  <2>1. ASSUME NEW asked \in BOOLEAN, NEW still \in SUBSET (Slots \cup {Left}), PiWrites(asked, still), pi.alive
        PROVE  Types'
    <3>1. NewEntry /\ UNCHANGED <<stopped, backups, pruned, agent, call, mutations>>
      BY <2>1 DEF PiWrites
    <3>2. pi' \in PiStates'
      BY <2>1, <3>1, EntryTypes DEF PiWrites, Types, PiStates
    <3>3. pi.path \in Paths /\ sessionFiles[pi.path] # Missing
      BY <2>1 DEF PiHasFile
    <3>4. /\ astray' = astray /\ (unwatched' = unwatched \/ unwatched' = unwatched \cup {written'})
          /\ sessionFiles' = [sessionFiles EXCEPT ![pi.path] = @ \cup {written'}]
      BY <2>1 DEF PiWrites
    <3> QED
      BY <3>1, <3>2, <3>3, <3>4, TypesWithEntry
  <2>2. pi.mode \in {"turn", "own"} \/ pi.bash # {} => pi.alive
    BY DEF PiHasFile, NoPi
  <2>3. pi.bash \in SUBSET (Slots \cup {Left})
    BY PiFields
  <2> QED
    BY <1>2, <2>1, <2>2, <2>3 DEF PiWorks
<1>3. ASSUME NEW p \in Paths, StoppedPiWrites(p) PROVE Types'
  <2>1. NewEntry /\ UNCHANGED <<stopped, backups, pruned, agent, call, mutations>> /\ pi' = pi
    BY <1>3 DEF StoppedPiWrites
  <2>2. pi' \in PiStates'
    BY <2>1, EntryTypes DEF Types, PiStates
  <2>3. sessionFiles[p] # Missing
    BY <1>3 DEF PiHasFile, StoppedPiWrites
  <2>4. /\ astray' = astray \cup {written'}
        /\ unwatched' = unwatched \/ unwatched' = unwatched \cup {written'}
        /\ sessionFiles' = [sessionFiles EXCEPT ![p] = @ \cup {written'}]
    BY <1>3 DEF StoppedPiWrites
  <2> QED
    BY <2>1, <2>2, <2>3, <2>4, TypesWithEntry
<1>4. CASE PiRests \/ PiExits \/ \E p \in Paths : StoppedPiEnds(p)
  <2>1. pi' \in PiStates
    BY <1>0, <1>4, PiTypes, PiLeavesTypes, StartValues DEF PiRests, PiExits, StoppedPiEnds, Modes
  <2>2. stopped' \in SUBSET Paths
    BY <1>0, <1>4, PiLeavesTypes DEF PiRests, PiExits, StoppedPiEnds
  <2> QED
    BY <1>0, <1>4, <2>1, <2>2, TypesWithoutEntry DEF PiRests, PiExits, StoppedPiEnds, fileVars
<1>5. ASSUME NEW o \in Slots, NEW p \in Paths, StartSession(o, p) PROVE Types'
  <2>1. call' \in [Slots -> Calls]
    BY <1>5, <1>l, Beginning DEF StartSession, CallKinds
  <2> QED
    BY <1>0, <1>5, <2>1, TypesWithoutEntry DEF StartSession, fileVars
<1>6. ASSUME NEW o \in Slots, NEW k \in {"prompt", "bash"}, callWithContext(o, k) PROVE Types'
  <2>1. call' \in [Slots -> Calls]
    BY <1>6, <1>l, BeginningWithout DEF callWithContext, CallKinds
  <2>2. pi' \in PiStates
    <3>1. [pi EXCEPT !.mode = "turn"] \in PiStates
      BY DEF Types, PiStates, Modes
    <3>2. [pi EXCEPT !.bash = pi.bash \cup {o}] \in PiStates
      BY DEF Types, PiStates
    <3>3. \/ pi' = [pi EXCEPT !.mode = "turn"]
          \/ pi' = [pi EXCEPT !.bash = pi.bash \cup {o}]
      BY <1>6 DEF callWithContext
    <3> QED
      BY <3>1, <3>2, <3>3
  <2> QED
    BY <1>0, <1>6, <2>1, <2>2, TypesWithoutEntry DEF callWithContext, fileVars
<1>7. ASSUME NEW o \in Slots, NEW k \in {"mutate", "fork"}, NEW p \in Paths, Rewrite(o, k, p)
      PROVE  Types'
  <2>1. /\ call[o] = Free /\ k \in CallKinds /\ "locked" \in Stages /\ p \in Paths \cup {Missing}
        /\ call' = [call EXCEPT ![o] = [Free EXCEPT !.at = "locked", !.kind = k, !.path = p]]
    BY <1>7, <1>l DEF Rewrite, CallKinds
  <2>2. call' \in [Slots -> Calls]
    BY <2>1, Beginning
  <2> QED
    BY <1>0, <1>7, <2>2, TypesWithoutEntry DEF Rewrite, fileVars
<1>8. ASSUME NEW o \in Slots, MaintainPi(o) \/ ServiceShutdown(o) PROVE Types'
  <2>1. call' \in [Slots -> Calls]
    BY <1>8, <1>l, BeginningWithout DEF MaintainPi, ServiceShutdown, CallKinds
  <2> QED
    BY <1>0, <1>8, <2>1, TypesWithoutEntry DEF MaintainPi, ServiceShutdown, fileVars
<1>9. ASSUME NEW o \in Slots,
             \/ AdmitStart(o) \/ GetState(o) \/ AnswerLost(o) \/ ReloadReturns(o)
             \/ preparePiMaintenance(o) \/ MaintainerReturns(o)
      PROVE  Types'
  <2>1. call' \in [Slots -> Calls]
    BY <1>9, <1>l, Going, Ending DEF AdmitStart, GetState, AnswerLost, ReloadReturns,
                                     preparePiMaintenance, MaintainerReturns
  <2> QED
    BY <1>0, <1>9, <2>1, TypesWithoutEntry
       DEF AdmitStart, GetState, AnswerLost, ReloadReturns, preparePiMaintenance,
           MaintainerReturns, fileVars
<1>10. ASSUME NEW o \in Slots,
              \/ StartReturns(o) \/ StopSession(o) \/ CallReturns(o) \/ Abort(o)
              \/ StopEverything(o) \/ Shutdown(o)
       PROVE  Types'
  <2>1. call' \in [Slots -> Calls]
    BY <1>0, <1>10, <1>l, Going, Ending
       DEF StartReturns, StopSession, CallReturns, Abort, StopEverything, Shutdown
  <2>2. pi' \in PiStates /\ stopped' \in SUBSET Paths
    <3>1. CASE StartReturns(o)
      <4>1. (IF pi.by = o THEN Left ELSE pi.by) \in Slots \cup {Left}
        BY PiFields
      <4>2. [pi EXCEPT !.by = IF pi.by = o THEN Left ELSE pi.by] \in PiStates
        BY <4>1, PiTypes
      <4> QED
        BY <1>0, <3>1, <4>2, PiLeavesTypes DEF StartReturns
    <3>2. CASE CallReturns(o)
      BY <1>0, <3>2, PiTypes, PiFields DEF CallReturns
    <3>3. CASE Abort(o)
      BY <1>0, <3>3, PiTypes DEF Abort, Modes
    <3> QED
      BY <1>0, <1>10, <3>1, <3>2, <3>3, PiLeavesTypes DEF StopSession, StopEverything, Shutdown
  <2> QED
    BY <1>0, <1>10, <2>1, <2>2, TypesWithoutEntry
       DEF StartReturns, StopSession, CallReturns, Abort, StopEverything, Shutdown, fileVars
<1>11. ASSUME NEW o \in Slots, SpawnPi(o) PROVE Types'
  <2>1. call' \in [Slots -> Calls]
    BY <1>11, <1>l, Going, Ending DEF SpawnPi
  <2>2. pi' \in PiStates
    <3>1. call[o].path \in Paths
      BY <1>11 DEF SpawnPi, FInv, Kinds
    <3> QED
      <4>1. CASE UNCHANGED pi
        BY <1>0, <4>1
      <4>2. CASE sessionFiles[call[o].path] # Missing
        <5>1. sessionFiles[call[o].path] \in SUBSET Entries
          BY <3>1, <4>2, HistoryTypes
        <5>2. [alive |-> TRUE, by |-> o, path |-> call[o].path, view |-> sessionFiles[call[o].path],
               mode |-> "idle", bash |-> {}] \in PiStates
          BY <3>1, <5>1, PiTypes
        <5> QED
          BY <1>0, <1>11, <5>2 DEF SpawnPi
      <4> QED
        BY <1>11, <4>1, <4>2 DEF SpawnPi
  <2> QED
    BY <1>0, <1>11, <2>1, <2>2, TypesWithoutEntry DEF SpawnPi, fileVars
<1>12. ASSUME NEW o \in Slots, stopUncertainSession(o) PROVE Types'
  <2>1. o \in Rewriting /\ call[o].target \in Paths
    BY <1>12 DEF stopUncertainSession, FInv, Kinds, Rewriting, Rewrites, Files
  <2>2. call' \in [Slots -> Calls] /\ pi' \in PiStates /\ stopped' \in SUBSET Paths
    BY <1>0, <1>12, <2>1, Ending, StartValues DEF stopUncertainSession, PiHasFile
  <2>3. agent' \in [runtime : BOOLEAN, stopFailed : BOOLEAN]
    BY <1>0, <1>12 DEF stopUncertainSession
  <2> QED
    BY <1>0, <1>12, <2>2, <2>3, TypesWithoutEntry DEF stopUncertainSession, fileVars
<1>13. ASSUME NEW o \in Slots, WithdrawRuntime(o) PROVE Types'
  <2>1. call' \in [Slots -> Calls] /\ agent' \in [runtime : BOOLEAN, stopFailed : BOOLEAN]
    BY <1>0, <1>l, <1>13, Going DEF WithdrawRuntime
  <2> QED
    BY <1>0, <1>13, <2>1, TypesWithoutEntry DEF WithdrawRuntime, fileVars
<1>14. ASSUME NEW o \in Slots,
              \/ ReadSession(o) \/ BackUpSession(o) \/ ReplaceSession(o) \/ PiSwitches(o)
              \/ SwitchCancelled(o) \/ RestoreSession(o) \/ \E q \in Paths : ForkHistory(o, q)
       PROVE  Types'
  <2>1. /\ o \in Rewriting /\ call[o].path \in Paths /\ sessionFiles[call[o].path] # Missing
        /\ Files(o) /\ BackedUp(o) /\ call[o].kind \in {"mutate", "fork"}
    BY <1>14 DEF ReadSession, BackUpSession, ReplaceSession, PiSwitches, SwitchCancelled,
                 RestoreSession, ForkHistory, FInv, Kinds, Rewriting, Rewrites, Files
  <2>2. sessionFiles[call[o].path] \in SUBSET Entries
    BY <2>1, HistoryTypes
  <2>3. CASE ReadSession(o)
    <3>1. ASSUME NEW left \in SUBSET sessionFiles[call[o].path],
                 call' = [call EXCEPT ![o].at = "changed", ![o].target = call[o].path, ![o].after = left]
          PROVE  call' \in [Slots -> Calls]
      <4>1. left \in SUBSET Entries /\ "changed" \in Stages
        BY <1>l, <2>2
      <4> QED
        BY <2>1, <3>1, <4>1, CallEdits
    <3>2. call' \in [Slots -> Calls]
      BY <2>3, <3>1, Ending DEF ReadSession
    <3> QED
      BY <1>0, <2>3, <3>2, TypesWithoutEntry DEF ReadSession, fileVars
  <2>4. CASE BackUpSession(o)
    <3>1. call' \in [Slots -> Calls]
      BY <1>l, <2>4, Going, Ending DEF BackUpSession
    <3>2. backups' \in [Paths -> Seq(SUBSET Entries)]
      <4>1. \A h \in SUBSET Entries : Append(backups[call[o].path], h) \in Seq(SUBSET Entries)
        BY <2>1, BackupTypes
      <4>2. ASSUME NEW h \in SUBSET Entries,
                   backups' = [backups EXCEPT ![call[o].path] = Append(@, h)]
            PROVE  backups' \in [Paths -> Seq(SUBSET Entries)]
        BY <1>0, <2>1, <4>1, <4>2
      <4>3. {} \in SUBSET Entries
        OBVIOUS
      <4> QED
        BY <1>0, <2>2, <2>4, <4>2, <4>3 DEF BackUpSession
    <3>3. pruned' \in [Paths -> Nat]
      <4>1. Gone(Len(backups[call[o].path]) + 1, pruned[call[o].path]) \in Nat
        BY <1>0, <2>1, BackupTypes, BackupsAreKept DEF Gone
      <4> QED
        BY <1>0, <2>1, <2>4, <4>1 DEF BackUpSession
    <3> QED
      BY <1>0, <2>4, <3>1, <3>2, <3>3, TypesWithoutEntry DEF BackUpSession
  <2>5. CASE ReplaceSession(o)
    <3>1. call' \in [Slots -> Calls]
      BY <1>l, <2>5, Going, Ending DEF ReplaceSession
    <3>2. call[o].after \in SUBSET Entries /\ Len(backups[call[o].path]) > 0
      <4>1. call[o].kind = "mutate" /\ call[o].at = "saved"
        BY <2>5 DEF ReplaceSession, FInv, Kinds
      <4> QED
        BY <2>1, <4>1, CallFields DEF BackedUp
    <3>3. sessionFiles' \in [Paths -> (SUBSET Entries) \cup {Missing}]
      BY <1>0, <2>5, <3>2, FilePut DEF ReplaceSession
    <3>4. backups' \in [Paths -> Seq(SUBSET Entries)]
      <4>1. SubSeq(backups[call[o].path], 1, Len(backups[call[o].path]) - 1) \in Seq(SUBSET Entries)
        BY <2>1, <3>2, BackupTypes
      <4>2. \/ UNCHANGED backups
            \/ backups' = [backups EXCEPT ![call[o].path] =
                              SubSeq(backups[call[o].path], 1, Len(backups[call[o].path]) - 1)]
        BY <2>5 DEF ReplaceSession
      <4> QED
        BY <1>0, <4>1, <4>2
    <3> QED
      BY <1>0, <2>5, <3>1, <3>3, <3>4, TypesWithoutEntry DEF ReplaceSession
  <2>6. CASE PiSwitches(o)
    <3>1. call[o].target \in Paths /\ sessionFiles[call[o].target] # Missing
      BY <2>1, <2>6 DEF PiSwitches, Files
    <3>2. sessionFiles[call[o].target] \in SUBSET Entries
      BY <3>1, HistoryTypes
    <3>3. call' \in [Slots -> Calls]
      BY <1>0, <1>l, <2>6, Going DEF PiSwitches
    <3>4. pi' \in PiStates
      <4>1. (IF pi.mode \in {"goal", "own"} THEN "goal" ELSE "idle") \in Modes
        BY DEF Modes
      <4>2. [pi EXCEPT !.path = call[o].target, !.view = sessionFiles[call[o].target],
                       !.mode = IF pi.mode \in {"goal", "own"} THEN "goal" ELSE "idle"] \in PiStates
        BY <3>1, <3>2, <4>1, PiTypes
      <4> QED
        BY <1>0, <2>6, <4>2 DEF PiSwitches
    <3> QED
      BY <1>0, <2>6, <3>3, <3>4, TypesWithoutEntry DEF PiSwitches, fileVars
  <2>7. CASE SwitchCancelled(o)
    <3>1. call' \in [Slots -> Calls]
      BY <1>l, <2>7, Going, Ending DEF SwitchCancelled
    <3>2. sessionFiles' \in [Paths -> (SUBSET Entries) \cup {Missing}]
      BY <1>0, <2>7, FilePut DEF SwitchCancelled
    <3> QED
      BY <1>0, <2>7, <3>1, <3>2, TypesWithoutEntry DEF SwitchCancelled
  <2>8. CASE RestoreSession(o)
    <3>1. call' \in [Slots -> Calls]
      BY <1>l, <2>8, Going, Ending DEF RestoreSession
    <3>2. LastBackup(o) \in SUBSET Entries
      <4>1. call[o].kind = "mutate" /\ call[o].at = "restoring"
        BY <2>8 DEF RestoreSession, FInv, Kinds
      <4> QED
        BY <2>1, <4>1, BackupTypes DEF BackedUp, LastBackup
    <3>3. sessionFiles' \in [Paths -> (SUBSET Entries) \cup {Missing}]
      BY <1>0, <2>8, <3>2, FilePut DEF RestoreSession, LastBackup
    <3> QED
      BY <1>0, <2>8, <3>1, <3>3, TypesWithoutEntry DEF RestoreSession
  <2>9. ASSUME NEW q \in Paths, ForkHistory(o, q) PROVE Types'
    <3>1. ASSUME NEW part \in SUBSET sessionFiles[call[o].path],
                 sessionFiles' = [sessionFiles EXCEPT ![q] = part],
                 call' = [call EXCEPT ![o].at = "written", ![o].target = q]
          PROVE  /\ call' \in [Slots -> Calls]
                 /\ sessionFiles' \in [Paths -> (SUBSET Entries) \cup {Missing}]
      <4>1. part \in (SUBSET Entries) \cup {Missing}
        BY <2>2
      <4>2. call' \in [Slots -> Calls]
        BY <1>l, <3>1, CallEdits
      <4> QED
        BY <3>1, <4>1, <4>2, FilePut
    <3>2. call' \in [Slots -> Calls] /\ sessionFiles' \in [Paths -> (SUBSET Entries) \cup {Missing}]
      BY <1>0, <2>9, <3>1, Ending DEF ForkHistory
    <3> QED
      BY <1>0, <2>9, <3>2, TypesWithoutEntry DEF ForkHistory
  <2> QED
    BY <1>14, <2>3, <2>4, <2>5, <2>6, <2>7, <2>8, <2>9
<1> QED
  BY <1>1, <1>2, <1>3, <1>4, <1>5, <1>6, <1>7, <1>8, <1>9, <1>10, <1>11, <1>12, <1>13, <1>14
     DEF AgentNext

-----------------------------------------------------------------------------
(* Who runs                                                                *)

(* The steps of Pi and of the operations, by what they change.             *)
PiSteps == PiWorks \/ PiRests \/ PiExits \/ \E p \in Paths : StoppedPiWrites(p) \/ StoppedPiEnds(p)

Maintains(o) ==
  \/ preparePiMaintenance(o) \/ StopEverything(o) \/ MaintainerReturns(o) \/ WithdrawRuntime(o)
  \/ Shutdown(o)

Edits(o) ==
  \/ GetState(o) \/ Abort(o) \/ ReadSession(o) \/ BackUpSession(o) \/ ReplaceSession(o)
  \/ (\E q \in Paths : ForkHistory(o, q)) \/ PiSwitches(o) \/ AnswerLost(o) \/ ReloadReturns(o)
  \/ SwitchCancelled(o) \/ RestoreSession(o) \/ stopUncertainSession(o)

LEMMA Steps ==
  AgentNext =>
    \/ PiSteps /\ UNCHANGED call
    \/ \E o \in Slots : StopSession(o) /\ UNCHANGED call
    \/ \E o \in Slots, p \in Paths : StartSession(o, p)
    \/ \E o \in Slots, k \in {"prompt", "bash"} : callWithContext(o, k)
    \/ \E o \in Slots, k \in {"mutate", "fork"}, p \in Paths : Rewrite(o, k, p)
    \/ \E o \in Slots : MaintainPi(o) \/ ServiceShutdown(o)
    \/ \E o \in Slots : AdmitStart(o) \/ SpawnPi(o) \/ StartReturns(o) \/ CallReturns(o)
    \/ \E o \in Slots : Maintains(o)
    \/ \E o \in Slots : Edits(o)
<1>1. PiSteps => UNCHANGED call
  BY DEF PiSteps, PiWorks, PiWrites, PiRests, PiExits, StoppedPiWrites, StoppedPiEnds
<1>2. ASSUME NEW o \in Slots, StopSession(o) PROVE UNCHANGED call
  BY <1>2 DEF StopSession
<1> QED
  BY <1>1, <1>2, Zenon DEF AgentNext, PiSteps, Maintains, Edits

(* What is left of the operations as one goes on or ends.                  *)
LEMMA KindGoes ==
  ASSUME Types, Kinds, NEW o \in Slots, NEW l, NEW m \in Stages, Goes(o, l, m),
         l \in Rewrites <=> m \in Rewrites,
         m \in {"changed", "saved", "restoring"} => call[o].kind = "mutate",
         m \in {"admitted", "starting"} => l = "admitted"
  PROVE  Kinds'
<1>1. ASSUME NEW x \in Slots, x # o
      PROVE  /\ call'[x].at \in Rewrites <=> call'[x].kind \in {"mutate", "fork"}
             /\ call'[x].at \in {"changed", "saved", "restoring"} => call'[x].kind = "mutate"
             /\ call'[x].at \in Rewrites \cup {"admitted", "starting"} => call'[x].path \in Paths
  BY <1>1 DEF Kinds, Goes, Others
<1>2. /\ call'[o].at \in Rewrites <=> call'[o].kind \in {"mutate", "fork"}
      /\ call'[o].at \in {"changed", "saved", "restoring"} => call'[o].kind = "mutate"
      /\ call'[o].at \in Rewrites \cup {"admitted", "starting"} => call'[o].path \in Paths
  BY DEF Kinds, Goes
<1> QED
  BY <1>1, <1>2 DEF Kinds

LEMMA KindBegins ==
  ASSUME Types, Kinds, NEW o \in Slots, NEW l, NEW k, Begins(o, l, k),
         l \in Rewrites <=> k \in {"mutate", "fork"}, l \notin {"changed", "saved", "restoring"},
         l \in Rewrites \cup {"admitted", "starting"} => call'[o].path \in Paths
  PROVE  Kinds'
BY DEF Kinds, Begins, Others

LEMMA KindEnds == ASSUME Types, Kinds, NEW o \in Slots, Ends(o) PROVE Kinds'
BY StartValues DEF Kinds, Ends, Others, Rewrites

(* A history operation goes on in its stages, or ends.                     *)
LEMMA EditWays ==
  ASSUME Types, Kinds, NEW o \in Slots, Edits(o)
  PROVE  \/ Ends(o) \/ UNCHANGED call
         \/ \E l \in Rewrites, m \in Rewrites :
              /\ Goes(o, l, m)
              /\ m \in {"changed", "saved", "restoring"} => call[o].kind = "mutate"
<1>1. CASE GetState(o)
  BY <1>1, Ways DEF Rewrites
<1>2. CASE Abort(o)
  BY <1>2, Ways DEF Rewrites
<1>3. CASE ReadSession(o)
  BY <1>3, Ways DEF Rewrites, ReadSession
<1>4. CASE BackUpSession(o)
  BY <1>4, Ways DEF Rewrites, Kinds, BackUpSession
<1>5. CASE ReplaceSession(o)
  BY <1>5, Ways DEF Rewrites
<1>6. ASSUME NEW q \in Paths, ForkHistory(o, q)
      PROVE  Ends(o) \/ Goes(o, "settled", "written")
  BY <1>6, Ways
<1>7. CASE PiSwitches(o)
  BY <1>7, Ways DEF Rewrites
<1>8. CASE AnswerLost(o)
  <2>1. Goes(o, call[o].at, "uncertain") /\ call[o].at \in Rewrites
    BY <1>8, Ways DEF AnswerLost, Rewrites
  <2> QED
    BY <2>1 DEF Rewrites
<1>9. CASE SwitchCancelled(o)
  <2>1. CASE call[o].kind = "mutate"
    BY <1>9, <2>1, Ways DEF Rewrites
  <2>2. CASE call[o].kind = "fork"
    <3>1. Ends(o)
      BY <1>9, <2>2, Ending DEF SwitchCancelled
    <3> QED
      BY <3>1
  <2> QED
    BY <1>9, <2>1, <2>2 DEF SwitchCancelled
<1>10. CASE RestoreSession(o)
  BY <1>10, Ways DEF Rewrites
<1> QED
  BY <1>1, <1>2, <1>3, <1>4, <1>5, <1>6, <1>7, <1>8, <1>9, <1>10, Ways DEF Edits, Rewrites

LEMMA KindsStep == FInv /\ [AgentNext]_agentVars => Kinds'
<1> SUFFICES ASSUME FInv, Types, Kinds, [AgentNext]_agentVars PROVE Kinds'
  BY DEF FInv
<1>0. ASSUME UNCHANGED call PROVE Kinds'
  BY <1>0 DEF Kinds
<1>1. CASE UNCHANGED agentVars
  BY <1>0, <1>1 DEF agentVars
<1>l. Stages = {"idle", "prepare", "stopping", "running", "quit", "closing", "admitted", "starting",
                "ready", "calling"} \cup Rewrites
  BY DEF Stages, Shares
<1>2. ASSUME NEW o \in Slots, NEW p \in Paths, StartSession(o, p) PROVE Kinds'
  BY <1>2, Ways, KindBegins DEF Rewrites
<1>3. ASSUME NEW o \in Slots, NEW k \in {"prompt", "bash"}, callWithContext(o, k) PROVE Kinds'
  BY <1>3, Ways, KindBegins DEF Rewrites
<1>4. ASSUME NEW o \in Slots, NEW k \in {"mutate", "fork"}, NEW p \in Paths, Rewrite(o, k, p) PROVE Kinds'
  BY <1>4, Ways, KindBegins DEF Rewrites
<1>5. ASSUME NEW o \in Slots, MaintainPi(o) \/ ServiceShutdown(o) PROVE Kinds'
  <2>1. Begins(o, "prepare", "maintain") \/ Begins(o, "quit", "quit")
    BY <1>5, Ways
  <2> QED
    BY <2>1, KindBegins DEF Rewrites
<1>6. ASSUME NEW o \in Slots, AdmitStart(o) \/ SpawnPi(o) \/ StartReturns(o) \/ CallReturns(o) PROVE Kinds'
  <2>1. Goes(o, "admitted", "starting") \/ Goes(o, "starting", "ready") \/ Ends(o)
    BY <1>6, Ways
  <2> QED
    BY <1>l, <2>1, KindGoes, KindEnds DEF Rewrites
<1>7. ASSUME NEW o \in Slots, Maintains(o) PROVE Kinds'
  <2>1. Goes(o, "prepare", "stopping") \/ Goes(o, "stopping", "running") \/ Goes(o, "quit", "closing") \/ Ends(o)
    BY <1>7, Ways DEF Maintains
  <2> QED
    BY <1>l, <2>1, KindGoes, KindEnds DEF Rewrites
<1>8. ASSUME NEW o \in Slots, Edits(o) PROVE Kinds'
  <2>1. \/ Ends(o) \/ UNCHANGED call
        \/ \E l \in Rewrites, m \in Rewrites :
             /\ Goes(o, l, m)
             /\ m \in {"changed", "saved", "restoring"} => call[o].kind = "mutate"
    BY <1>8, EditWays
  <2>2. ASSUME NEW l \in Rewrites, NEW m \in Rewrites, Goes(o, l, m),
               m \in {"changed", "saved", "restoring"} => call[o].kind = "mutate"
        PROVE  Kinds'
    BY <1>l, <2>2, KindGoes DEF Rewrites
  <2> QED
    BY <1>0, <2>1, <2>2, KindEnds
<1> QED
  BY <1>0, <1>1, <1>2, <1>3, <1>4, <1>5, <1>6, <1>7, <1>8, Steps

(* The operations that Edits are of have the history to themselves.        *)
LEMMA Editing ==
  ASSUME Types, Kinds, NEW o \in Slots, Edits(o)
  PROVE  o \in Rewriting /\ call[o].at \in Rewrites /\ call[o].path \in Paths
<1>1. call[o].at \in Rewrites
  BY DEF Edits, GetState, Abort, ReadSession, BackUpSession, ReplaceSession, ForkHistory, PiSwitches,
         AnswerLost, ReloadReturns, SwitchCancelled, RestoreSession, stopUncertainSession, Rewrites
<1> QED
  BY <1>1 DEF Kinds, Rewriting

(* Only the three that begin one let an operation into the sets.           *)
LEMMA Shrinking ==
  ASSUME Types, Kinds, NEW o \in Slots,
         \/ UNCHANGED call \/ Ends(o)
         \/ \E l \in Stages, m \in Stages :
              /\ Goes(o, l, m) /\ (m \in Shares => l \in Shares)
         \/ \E l \in Stages, k \in CallKinds :
              /\ Begins(o, l, k) /\ l \notin Shares /\ k \notin {"mutate", "fork"}
  PROVE  Rewriting' \subseteq Rewriting /\ Sharing' \subseteq Sharing
<1>1. Sharing = {x \in Slots : call[x].at \in Shares}
  BY DEF Sharing, Shares
<1>2. Sharing' = {x \in Slots : call'[x].at \in Shares}
  BY DEF Sharing, Shares
<1>3. CASE UNCHANGED call
  BY <1>3 DEF Rewriting, Sharing
<1>4. CASE Ends(o)
  BY <1>1, <1>2, <1>4, StartValues DEF Ends, Others, Rewriting, Shares
<1>5. ASSUME NEW l \in Stages, NEW m \in Stages, Goes(o, l, m), m \in Shares => l \in Shares
      PROVE  Rewriting' \subseteq Rewriting /\ Sharing' \subseteq Sharing
  BY <1>1, <1>2, <1>5 DEF Goes, Others, Rewriting
<1>6. ASSUME NEW l \in Stages, NEW k \in CallKinds, Begins(o, l, k), l \notin Shares,
             k \notin {"mutate", "fork"}
      PROVE  Rewriting' \subseteq Rewriting /\ Sharing' \subseteq Sharing
  BY <1>1, <1>2, <1>6 DEF Begins, Others, Rewriting
<1> QED
  BY <1>3, <1>4, <1>5, <1>6

LEMMA AloneStays ==
  ASSUME Types, Kinds, Alone, Rewriting' \subseteq Rewriting, Sharing' \subseteq Sharing,
         agent'.stopFailed => agent.stopFailed
  PROVE  Alone'
BY DEF Alone

LEMMA AloneStep == FInv /\ [AgentNext]_agentVars => Alone'
<1> SUFFICES ASSUME FInv, Types, Kinds, Alone, [AgentNext]_agentVars PROVE Alone'
  BY DEF FInv
<1>l. Stages = {"idle", "prepare", "stopping", "running", "quit", "closing"} \cup Shares \cup Rewrites
  BY DEF Stages
<1>1. CASE UNCHANGED agentVars
  BY <1>1 DEF agentVars, Alone, Rewriting, Sharing
<1>2. CASE PiSteps /\ UNCHANGED call
  <2>1. UNCHANGED agent
    BY <1>2 DEF PiSteps, PiWorks, PiWrites, PiRests, PiExits, StoppedPiWrites, StoppedPiEnds
  <2> QED
    BY <1>2, <2>1 DEF Alone, Rewriting, Sharing
<1>3. ASSUME NEW o \in Slots, StopSession(o) PROVE Alone'
  BY <1>3 DEF StopSession, Alone, Rewriting, Sharing
<1>4. ASSUME NEW o \in Slots, NEW p \in Paths, StartSession(o, p) PROVE Alone'
  <2>1. Begins(o, "admitted", "start") /\ Rewriting = {} /\ ~agent.stopFailed /\ UNCHANGED agent
    BY <1>4, Ways DEF StartSession
  <2> QED
    BY <2>1 DEF Alone, Rewriting, Begins, Others
<1>5. ASSUME NEW o \in Slots, NEW k \in {"prompt", "bash"}, callWithContext(o, k) PROVE Alone'
  <2>1. Begins(o, "calling", k) /\ Rewriting = {} /\ ~agent.stopFailed /\ UNCHANGED agent
    BY <1>5, Ways DEF callWithContext
  <2> QED
    BY <2>1 DEF Alone, Rewriting, Begins, Others
<1>6. ASSUME NEW o \in Slots, NEW k \in {"mutate", "fork"}, NEW p \in Paths, Rewrite(o, k, p) PROVE Alone'
  <2>1. /\ Begins(o, "locked", k) /\ Rewriting = {} /\ Sharing = {} /\ ~agent.stopFailed
        /\ UNCHANGED agent
    BY <1>6, Ways DEF Rewrite
  <2>2. \A x \in Rewriting' : x = o
    BY <2>1 DEF Rewriting, Begins, Others
  <2>3. Sharing' = {}
    BY <2>1 DEF Sharing, Begins, Others
  <2> QED
    BY <2>1, <2>2, <2>3 DEF Alone
<1>7. ASSUME NEW o \in Slots, MaintainPi(o) \/ ServiceShutdown(o) PROVE Alone'
  <2>1. Begins(o, "prepare", "maintain") \/ Begins(o, "quit", "quit")
    BY <1>7, Ways
  <2>2. UNCHANGED agent
    BY <1>7 DEF MaintainPi, ServiceShutdown
  <2>3. /\ {"prepare", "quit"} \subseteq Stages /\ {"prepare", "quit"} \cap Shares = {}
        /\ {"maintain", "quit"} \subseteq CallKinds
    BY <1>l DEF Shares, CallKinds
  <2> QED
    BY <2>1, <2>2, <2>3, Shrinking, AloneStays
<1>8. ASSUME NEW o \in Slots, AdmitStart(o) \/ SpawnPi(o) \/ StartReturns(o) \/ CallReturns(o) PROVE Alone'
  <2>1. Goes(o, "admitted", "starting") \/ Goes(o, "starting", "ready") \/ Ends(o)
    BY <1>8, Ways
  <2>2. UNCHANGED agent
    BY <1>8 DEF AdmitStart, SpawnPi, StartReturns, CallReturns
  <2>3. {"admitted", "starting", "ready"} \subseteq Stages \cap Shares
    BY <1>l DEF Shares
  <2> QED
    BY <2>1, <2>2, <2>3, Shrinking, AloneStays
<1>9. ASSUME NEW o \in Slots, Maintains(o) PROVE Alone'
  <2>1. Goes(o, "prepare", "stopping") \/ Goes(o, "stopping", "running") \/ Goes(o, "quit", "closing") \/ Ends(o)
    BY <1>9, Ways DEF Maintains
  <2>2. agent'.stopFailed = agent.stopFailed
    BY <1>9 DEF Maintains, preparePiMaintenance, StopEverything, MaintainerReturns, WithdrawRuntime,
                Shutdown, Types
  <2>3. /\ {"prepare", "stopping", "running", "quit", "closing"} \subseteq Stages
        /\ {"prepare", "stopping", "running", "quit", "closing"} \cap Shares = {}
    BY <1>l DEF Shares
  <2> QED
    BY <2>1, <2>2, <2>3, Shrinking, AloneStays
<1>10. ASSUME NEW o \in Slots, Edits(o) PROVE Alone'
  <2>1. Rewriting' \subseteq Rewriting /\ Sharing' \subseteq Sharing
    <3>1. \/ Ends(o) \/ UNCHANGED call
          \/ \E l \in Rewrites, m \in Rewrites : Goes(o, l, m)
      BY <1>10, EditWays
    <3>2. Rewrites \subseteq Stages /\ Rewrites \cap Shares = {}
      BY <1>l DEF Rewrites, Shares
    <3> QED
      BY <3>1, <3>2, Shrinking
  <2>2. CASE agent'.stopFailed = agent.stopFailed
    BY <2>1, <2>2, AloneStays
  <2>3. CASE stopUncertainSession(o)
    <3>1. Sharing = {} /\ \A x \in Rewriting : x = o
      BY <1>10, Editing DEF Alone
    <3>2. o \notin Rewriting'
      BY <2>3, Ways, StartValues DEF Ends, Rewriting
    <3> QED
      BY <2>1, <3>1, <3>2 DEF Alone
  <2>4. ~stopUncertainSession(o) => UNCHANGED agent
    BY <1>10 DEF Edits, GetState, Abort, ReadSession, BackUpSession, ReplaceSession, ForkHistory,
                 PiSwitches, AnswerLost, ReloadReturns, SwitchCancelled, RestoreSession
  <2> QED
    BY <2>2, <2>3, <2>4
<1> QED
  BY <1>1, <1>2, <1>3, <1>4, <1>5, <1>6, <1>7, <1>8, <1>9, <1>10, Steps

-----------------------------------------------------------------------------
(* Maintenance                                                             *)

(* A Pi is in the table only because a start put it there.                 *)
LEMMA PiBegins ==
  ASSUME Types, AgentNext, pi'.alive
  PROVE  pi.alive \/ \E o \in Slots : SpawnPi(o)
<1>0. pi \in PiStates /\ NoPi.alive = FALSE
  BY DEF Types, NoPi
<1>1. CASE PiSteps
  BY <1>0, <1>1 DEF PiSteps, PiWorks, PiWrites, PiRests, PiExits, PiLeaves, StoppedPiWrites, StoppedPiEnds,
                    PiStates
<1>2. ASSUME NEW o \in Slots, StopSession(o) PROVE pi.alive
  BY <1>0, <1>2 DEF StopSession, PiLeaves
<1>3. ASSUME NEW o \in Slots, NEW p \in Paths, StartSession(o, p) PROVE pi.alive
  BY <1>3 DEF StartSession
<1>4. ASSUME NEW o \in Slots, NEW k \in {"prompt", "bash"}, callWithContext(o, k) PROVE pi.alive
  BY <1>4 DEF callWithContext
<1>5. ASSUME NEW o \in Slots, NEW k \in {"mutate", "fork"}, NEW p \in Paths, Rewrite(o, k, p)
      PROVE  pi.alive
  BY <1>5 DEF Rewrite
<1>6. ASSUME NEW o \in Slots, MaintainPi(o) \/ ServiceShutdown(o) PROVE pi.alive
  BY <1>6 DEF MaintainPi, ServiceShutdown
<1>7. ASSUME NEW o \in Slots, AdmitStart(o) \/ StartReturns(o) \/ CallReturns(o) PROVE pi.alive
  BY <1>0, <1>7 DEF AdmitStart, StartReturns, CallReturns, PiLeaves, PiStates
<1>8. ASSUME NEW o \in Slots, Maintains(o) PROVE pi.alive
  BY <1>0, <1>8 DEF Maintains, preparePiMaintenance, StopEverything, MaintainerReturns, WithdrawRuntime,
                    Shutdown, PiLeaves
<1>9. ASSUME NEW o \in Slots, Edits(o) PROVE pi.alive
  <2>1. CASE stopUncertainSession(o)
    BY <1>0, <2>1 DEF stopUncertainSession
  <2>2. CASE Abort(o) \/ PiSwitches(o)
    BY <1>0, <2>2 DEF Abort, PiSwitches, PiStates
  <2> QED
    BY <1>9, <2>1, <2>2 DEF Edits, GetState, ReadSession, BackUpSession, ReplaceSession, ForkHistory,
                            AnswerLost, ReloadReturns, SwitchCancelled, RestoreSession
<1> QED
  BY <1>1, <1>2, <1>3, <1>4, <1>5, <1>6, <1>7, <1>8, <1>9, Steps

LEMMA NarrowingSets ==
  ASSUME Types, NEW o \in Slots,
         \/ UNCHANGED call \/ Ends(o)
         \/ \E l \in Stages, m \in Stages :
              /\ Goes(o, l, m)
              /\ m \in {"stopping", "running", "closing"} => l \in {"stopping", "running", "closing"}
              /\ m \in {"starting", "ready"} => l \in {"starting", "ready"}
         \/ \E l \in Stages, k \in CallKinds :
              Begins(o, l, k) /\ l \notin {"stopping", "running", "closing", "starting", "ready"}
  PROVE  Holding' \subseteq Holding /\ Starting' \subseteq Starting
<1>3. CASE UNCHANGED call
  BY <1>3 DEF Holding, Starting
<1>4. CASE Ends(o)
  BY <1>4, StartValues DEF Ends, Others, Holding, Starting
<1>5. ASSUME NEW l \in Stages, NEW m \in Stages, Goes(o, l, m),
             m \in {"stopping", "running", "closing"} => l \in {"stopping", "running", "closing"},
             m \in {"starting", "ready"} => l \in {"starting", "ready"}
      PROVE  Holding' \subseteq Holding /\ Starting' \subseteq Starting
  BY <1>5 DEF Goes, Others, Holding, Starting
<1>6. ASSUME NEW l \in Stages, NEW k \in CallKinds, Begins(o, l, k),
             l \notin {"stopping", "running", "closing", "starting", "ready"}
      PROVE  Holding' \subseteq Holding /\ Starting' \subseteq Starting
  BY <1>6 DEF Begins, Others, Holding, Starting
<1> QED
  BY <1>3, <1>4, <1>5, <1>6

LEMMA StaysMaintained ==
  ASSUME Types, Maintained, NEW o \in Slots,
         Holding' \subseteq Holding, Starting' \subseteq Starting,
         pi'.alive => pi.alive \/ (Holding = {} /\ agent.runtime), agent'.runtime = agent.runtime,
         \A x \in Slots : x # o => call'[x] = call[x],
         call'[o].at = "running" => call[o].at = "running" \/ ~pi'.alive,
         call[o].at = "closing" => call'[o].at = "closing" \/ ~pi'.alive
  PROVE  Maintained'
<1>1. /\ \A x \in Holding' : Starting' = {} /\ \A y \in Holding' : y = x
      /\ Starting' # {} => agent'.runtime
  BY DEF Maintained
<1>2. NoPiServesMaintenance'
  <2> SUFFICES ASSUME pi'.alive,
                      \/ \E x \in Slots : call'[x].at = "running"
                      \/ ~agent'.runtime /\ (\A x \in Slots : call'[x].at # "closing")
               PROVE  FALSE
    BY DEF NoPiServesMaintenance
  <2>1. \/ \E x \in Slots : call[x].at = "running"
        \/ ~agent.runtime /\ (\A x \in Slots : call[x].at # "closing")
    OBVIOUS
  <2>2. ~pi.alive
    BY <2>1 DEF Maintained, NoPiServesMaintenance
  <2>3. Holding = {} /\ agent.runtime
    BY <2>2
  <2> QED
    BY <2>1, <2>3 DEF Holding
<1> QED
  BY <1>1, <1>2 DEF Maintained

LEMMA MaintainedStep == FInv /\ [AgentNext]_agentVars => Maintained'
<1> SUFFICES ASSUME FInv, Types, Kinds, Maintained, [AgentNext]_agentVars PROVE Maintained'
  BY DEF FInv
<1>l. Stages = {"idle", "prepare", "stopping", "running", "quit", "closing"} \cup Shares \cup Rewrites
  BY DEF Stages
<1>1. CASE UNCHANGED agentVars
  BY <1>1 DEF agentVars, Maintained, Holding, Starting, NoPiServesMaintenance
<1>0. ASSUME AgentNext, UNCHANGED call, UNCHANGED agent, ~(\E o \in Slots : SpawnPi(o)) PROVE Maintained'
  BY <1>0, PiBegins DEF Maintained, Holding, Starting, NoPiServesMaintenance
<1>2. CASE PiSteps /\ UNCHANGED call
  <2>1. UNCHANGED agent
    BY <1>2 DEF PiSteps, PiWorks, PiWrites, PiRests, PiExits, StoppedPiWrites, StoppedPiEnds
  <2>2. ~(\E o \in Slots : SpawnPi(o))
    BY <1>2, Ways, StartValues DEF Goes, Ends, SpawnPi
  <2>3. AgentNext
    BY <1>2, Zenon DEF PiSteps, AgentNext
  <2> QED
    BY <1>0, <1>2, <2>1, <2>2, <2>3
<1>3. ASSUME NEW o \in Slots, StopSession(o) PROVE Maintained'
  BY <1>3 DEF StopSession, PiLeaves, NoPi, Maintained, Holding, Starting, NoPiServesMaintenance
<1>5. ASSUME NEW o \in Slots, NEW p \in Paths, StartSession(o, p) PROVE Maintained'
  <2>1. Begins(o, "admitted", "start") /\ UNCHANGED <<pi, agent>>
    BY <1>5, Ways DEF StartSession
  <2>2. Holding' \subseteq Holding /\ Starting' \subseteq Starting
    BY <2>1 DEF Begins, Others, Holding, Starting
  <2> QED
    BY <2>1, <2>2, StaysMaintained DEF Begins, Others
<1>6. ASSUME NEW o \in Slots, NEW k \in {"prompt", "bash"}, callWithContext(o, k) PROVE Maintained'
  <2>1. Begins(o, "calling", k) /\ UNCHANGED agent /\ pi.alive
    BY <1>6, Ways DEF callWithContext
  <2>2. Holding' \subseteq Holding /\ Starting' \subseteq Starting
    BY <2>1 DEF Begins, Others, Holding, Starting
  <2> QED
    BY <2>1, <2>2, StaysMaintained DEF Begins, Others
<1>7. ASSUME NEW o \in Slots, NEW k \in {"mutate", "fork"}, NEW p \in Paths, Rewrite(o, k, p)
      PROVE  Maintained'
  <2>1. Begins(o, "locked", k) /\ UNCHANGED <<pi, agent>>
    BY <1>7, Ways DEF Rewrite
  <2>2. Holding' \subseteq Holding /\ Starting' \subseteq Starting
    BY <2>1 DEF Begins, Others, Holding, Starting
  <2> QED
    BY <2>1, <2>2, StaysMaintained DEF Begins, Others
<1>8. ASSUME NEW o \in Slots, MaintainPi(o) \/ ServiceShutdown(o) PROVE Maintained'
  <2>1. /\ Begins(o, "prepare", "maintain") \/ Begins(o, "quit", "quit")
        /\ UNCHANGED <<pi, agent>>
    BY <1>8, Ways DEF MaintainPi, ServiceShutdown
  <2>2. Holding' \subseteq Holding /\ Starting' \subseteq Starting
    BY <2>1 DEF Begins, Others, Holding, Starting
  <2> QED
    BY <2>1, <2>2, StaysMaintained DEF Begins, Others
<1>9. ASSUME NEW o \in Slots, AdmitStart(o) PROVE Maintained'
  <2>1. UNCHANGED <<pi, agent>>
    BY <1>9 DEF AdmitStart
  <2>2. CASE Ends(o)
    <3>1. Holding' \subseteq Holding /\ Starting' \subseteq Starting
      BY <2>2, NarrowingSets
    <3>2. call[o].at = "admitted" /\ call'[o].at = "idle"
      BY <1>9, <2>2, StartValues DEF AdmitStart, Ends
    <3> QED
      BY <2>1, <2>2, <3>1, <3>2, StaysMaintained DEF Ends, Others
  <2>3. CASE Goes(o, "admitted", "starting") /\ agent.runtime
    <3>1. Maintaining = {}
      BY <1>9 DEF AdmitStart, MaintenanceFree
    <3>2. \A x \in Slots : call'[x].at \notin {"prepare", "stopping", "running", "quit", "closing"}
      BY <2>3, <3>1 DEF Goes, Others, Maintaining
    <3> QED
      BY <2>1, <2>3, <3>2 DEF Maintained, Holding, NoPiServesMaintenance
  <2> QED
    BY <1>9, <2>2, <2>3, Going, Ending, Ways DEF AdmitStart, Stages, Shares
<1>10. ASSUME NEW o \in Slots, SpawnPi(o) PROVE Maintained'
  <2>1. /\ Goes(o, "starting", "ready") \/ Ends(o)
        /\ UNCHANGED agent /\ call[o].at = "starting"
    BY <1>10, Ways DEF SpawnPi
  <2>2. o \in Starting
    BY <2>1 DEF Starting
  <2>3. Holding = {} /\ agent.runtime
    BY <2>2 DEF Maintained
  <2>4. Holding' \subseteq Holding /\ Starting' \subseteq Starting
    BY <2>1, NarrowingSets DEF Stages, Shares
  <2>5. call'[o].at \in {"ready", "idle"}
    BY <2>1, StartValues DEF Goes, Ends
  <2> QED
    BY <2>1, <2>3, <2>4, <2>5, StaysMaintained DEF Goes, Ends, Others
<1>11. ASSUME NEW o \in Slots, StartReturns(o) \/ CallReturns(o) PROVE Maintained'
  <2>1. Ends(o) /\ UNCHANGED agent /\ call[o].at \in {"ready", "calling"}
    BY <1>11, Ways DEF StartReturns, CallReturns
  <2>2. Holding' \subseteq Holding /\ Starting' \subseteq Starting
    BY <2>1, NarrowingSets
  <2>3. pi'.alive => pi.alive
    <3>1. pi \in PiStates /\ NoPi.alive = FALSE
      BY DEF Types, NoPi
    <3> QED
      BY <1>11, <3>1 DEF StartReturns, CallReturns, PiLeaves, PiStates
  <2>4. call'[o].at = "idle" /\ \A x \in Slots : x # o => call'[x] = call[x]
    BY <2>1, StartValues DEF Ends, Others
  <2> QED
    BY <2>1, <2>2, <2>3, <2>4, StaysMaintained
<1>12. ASSUME NEW o \in Slots, preparePiMaintenance(o) PROVE Maintained'
  <2>1. UNCHANGED <<pi, agent>> /\ Exclusive(o) /\ call[o].at = "prepare"
    BY <1>12 DEF preparePiMaintenance
  <2>2. CASE Ends(o)
    <3>1. Holding' \subseteq Holding /\ Starting' \subseteq Starting
      BY <2>2, NarrowingSets
    <3>2. call'[o].at = "idle" /\ \A x \in Slots : x # o => call'[x] = call[x]
      BY <2>2, StartValues DEF Ends, Others
    <3> QED
      BY <2>1, <3>1, <3>2, StaysMaintained
  <2>3. CASE Goes(o, "prepare", "stopping")
    <3>1. Starting' = {} /\ Holding' = {o}
      BY <2>1, <2>3 DEF Goes, Others, Exclusive, Starting, Holding
    <3>2. agent.runtime
      <4>1. CASE ~agent.runtime
        <5>1. Ends(o)
          BY <1>12, <4>1, Ending DEF preparePiMaintenance
        <5> QED
          BY <2>3, <5>1, StartValues DEF Ends, Goes
      <4> QED
        BY <4>1
    <3>3. NoPiServesMaintenance'
      <4>1. call'[o].at = "stopping"
        BY <2>3 DEF Goes
      <4>2. \A x \in Slots : call'[x].at = "running" => x = o
        BY <3>1 DEF Holding
      <4> QED
        BY <2>1, <3>2, <4>1, <4>2 DEF NoPiServesMaintenance
    <3> QED
      BY <3>1, <3>3 DEF Maintained
  <2> QED
    BY <1>12, <2>2, <2>3, Ways
<1>13. ASSUME NEW o \in Slots, StopEverything(o) \/ MaintainerReturns(o) \/ Shutdown(o) PROVE Maintained'
  <2>1. /\ Goes(o, "stopping", "running") \/ Ends(o)
        /\ UNCHANGED agent /\ call[o].at \in {"stopping", "running", "closing"}
    BY <1>13, Ways DEF StopEverything, MaintainerReturns, Shutdown
  <2>2. Holding' \subseteq Holding /\ Starting' \subseteq Starting
    BY <2>1, NarrowingSets DEF Stages
  <2>3. /\ pi'.alive => pi.alive
        /\ call[o].at = "closing" => ~pi'.alive
        /\ call'[o].at = "running" => ~pi'.alive
    BY <1>13, <2>1, StartValues DEF StopEverything, MaintainerReturns, Shutdown, PiLeaves, NoPi, Finish, Types
  <2> QED
    BY <2>1, <2>2, <2>3, StaysMaintained DEF Ends, Goes, Others
<1>14. ASSUME NEW o \in Slots, WithdrawRuntime(o) PROVE Maintained'
  <2>1. Goes(o, "quit", "closing") /\ Exclusive(o) /\ UNCHANGED pi
    BY <1>14, Ways DEF WithdrawRuntime
  <2>2. Starting' = {} /\ Holding' = {o}
    BY <2>1 DEF Goes, Others, Exclusive, Starting, Holding
  <2>3. NoPiServesMaintenance'
    BY <2>1, <2>2 DEF NoPiServesMaintenance, Goes, Holding
  <2> QED
    BY <2>2, <2>3 DEF Maintained
<1>15. ASSUME NEW o \in Slots, AgentNext, Edits(o) PROVE Maintained'
  <2>1. /\ \/ Ends(o) \/ UNCHANGED call
           \/ \E l \in Rewrites, m \in Rewrites : Goes(o, l, m)
        /\ call[o].at \in Rewrites
    BY <1>15, EditWays, Editing
  <2>2. Rewrites \cap {"stopping", "running", "closing", "starting", "ready"} = {}
    BY DEF Rewrites
  <2>3. Holding' \subseteq Holding /\ Starting' \subseteq Starting
    BY <1>l, <2>1, <2>2, NarrowingSets
  <2>4. agent'.runtime = agent.runtime
    BY <1>15 DEF Edits, GetState, Abort, ReadSession, BackUpSession, ReplaceSession, ForkHistory,
                 PiSwitches, AnswerLost, ReloadReturns, SwitchCancelled, RestoreSession,
                 stopUncertainSession, Types
  <2>5. pi'.alive => pi.alive
    BY <1>15 DEF Edits, GetState, Abort, ReadSession, BackUpSession, ReplaceSession, ForkHistory,
                 PiSwitches, AnswerLost, ReloadReturns, SwitchCancelled, RestoreSession,
                 stopUncertainSession, Types, PiStates, NoPi
  <2>6. call'[o].at # "running" /\ call[o].at # "closing"
    BY <2>1, <2>2, StartValues DEF Ends, Goes
  <2>7. \A x \in Slots : x # o => call'[x] = call[x]
    BY <2>1 DEF Ends, Goes, Others
  <2> QED
    BY <2>3, <2>4, <2>5, <2>6, <2>7, StaysMaintained
<1> QED
  BY <1>1, <1>2, <1>3, <1>5, <1>6, <1>7, <1>8, <1>9, <1>10, <1>11, <1>12, <1>13, <1>14, <1>15, Steps
     DEF Maintains

-----------------------------------------------------------------------------
(* Pi and its file                                                         *)

(* What the steps leave alone.                                             *)
LEMMA Untouched ==
  ASSUME NEW o \in Slots
  PROVE  /\ \A p \in Paths : StartSession(o, p) => UNCHANGED <<pi, stopped, fileVars, agent, entryVars>>
         /\ \A k \in {"prompt", "bash"} : callWithContext(o, k) => UNCHANGED <<stopped, fileVars, agent, entryVars>>
         /\ \A k \in {"mutate", "fork"}, p \in Paths :
              Rewrite(o, k, p) => UNCHANGED <<pi, stopped, fileVars, agent, entryVars>>
         /\ MaintainPi(o) \/ ServiceShutdown(o) => UNCHANGED <<pi, stopped, fileVars, agent, entryVars>>
         /\ AdmitStart(o) => UNCHANGED <<pi, stopped, fileVars, agent, entryVars>>
         /\ SpawnPi(o) => UNCHANGED <<stopped, fileVars, agent, entryVars>>
         /\ StopSession(o) \/ StartReturns(o) \/ CallReturns(o) => UNCHANGED <<fileVars, agent, entryVars>>
         /\ Maintains(o) => UNCHANGED <<fileVars, entryVars>>
         /\ GetState(o) \/ ReadSession(o) \/ AnswerLost(o) \/ ReloadReturns(o) =>
              UNCHANGED <<pi, stopped, fileVars, agent, entryVars>>
         /\ Abort(o) \/ PiSwitches(o) => UNCHANGED <<stopped, fileVars, agent, entryVars>>
         /\ stopUncertainSession(o) => UNCHANGED <<fileVars, entryVars>>
         /\ BackUpSession(o) => UNCHANGED <<pi, stopped, sessionFiles, agent, entryVars>>
         /\ ReplaceSession(o) => UNCHANGED <<pi, stopped, pruned, agent, entryVars>>
         /\ (\E q \in Paths : ForkHistory(o, q)) \/ SwitchCancelled(o) \/ RestoreSession(o) =>
              UNCHANGED <<pi, stopped, backups, pruned, agent, entryVars>>
<1>1. \A p \in Paths : StartSession(o, p) => UNCHANGED <<pi, stopped, fileVars, agent, entryVars>>
  BY DEF StartSession
<1>2. \A k \in {"prompt", "bash"} : callWithContext(o, k) => UNCHANGED <<stopped, fileVars, agent, entryVars>>
  BY DEF callWithContext
<1>3. \A k \in {"mutate", "fork"}, p \in Paths :
        Rewrite(o, k, p) => UNCHANGED <<pi, stopped, fileVars, agent, entryVars>>
  BY DEF Rewrite
<1>4. MaintainPi(o) \/ ServiceShutdown(o) \/ AdmitStart(o) =>
        UNCHANGED <<pi, stopped, fileVars, agent, entryVars>>
  BY DEF MaintainPi, ServiceShutdown, AdmitStart
<1>5. SpawnPi(o) => UNCHANGED <<stopped, fileVars, agent, entryVars>>
  BY DEF SpawnPi
<1>6. StopSession(o) \/ StartReturns(o) \/ CallReturns(o) => UNCHANGED <<fileVars, agent, entryVars>>
  BY DEF StopSession, StartReturns, CallReturns
<1>7. Maintains(o) => UNCHANGED <<fileVars, entryVars>>
  BY DEF Maintains, preparePiMaintenance, StopEverything, MaintainerReturns, WithdrawRuntime, Shutdown
<1>8. GetState(o) \/ ReadSession(o) \/ AnswerLost(o) \/ ReloadReturns(o) =>
        UNCHANGED <<pi, stopped, fileVars, agent, entryVars>>
  BY DEF GetState, ReadSession, AnswerLost, ReloadReturns
<1>9. Abort(o) \/ PiSwitches(o) => UNCHANGED <<stopped, fileVars, agent, entryVars>>
  BY DEF Abort, PiSwitches
<1>10. stopUncertainSession(o) => UNCHANGED <<fileVars, entryVars>>
  BY DEF stopUncertainSession
<1>11. BackUpSession(o) => UNCHANGED <<pi, stopped, sessionFiles, agent, entryVars>>
  BY DEF BackUpSession
<1>12. ReplaceSession(o) => UNCHANGED <<pi, stopped, pruned, agent, entryVars>>
  BY DEF ReplaceSession
<1>13. (\E q \in Paths : ForkHistory(o, q)) \/ SwitchCancelled(o) \/ RestoreSession(o) =>
         UNCHANGED <<pi, stopped, backups, pruned, agent, entryVars>>
  BY DEF ForkHistory, SwitchCancelled, RestoreSession
<1> QED
  BY <1>1, <1>2, <1>3, <1>4, <1>5, <1>6, <1>7, <1>8, <1>9, <1>10, <1>11, <1>12, <1>13

(* A command stays until it returns.                                       *)
LEMMA CallingStays ==
  ASSUME Types, AgentNext, NEW x \in Slots, call[x].at = "calling"
  PROVE  call'[x].at = "calling" \/ CallReturns(x)
<1>0. ASSUME NEW o \in Slots, NEW l, NEW m, Begins(o, l, m) \/ Goes(o, l, m), l # "calling"
      PROVE  call'[x].at = "calling"
  BY <1>0 DEF Begins, Goes, Others
<1>1. ASSUME NEW o \in Slots, call[o].at # "calling", \A y \in Slots : y # o => call'[y] = call[y]
      PROVE  call'[x].at = "calling"
  BY <1>1
<1>2. ASSUME NEW o \in Slots, NEW p \in Paths, StartSession(o, p) PROVE call'[x].at = "calling"
  <2>1. Begins(o, "admitted", "start")
    BY <1>2, Ways
  <2> QED
    BY <1>1, <2>1 DEF Begins, Others
<1>3. ASSUME NEW o \in Slots, NEW k \in {"prompt", "bash"}, callWithContext(o, k)
      PROVE  call'[x].at = "calling"
  <2>1. Begins(o, "calling", k)
    BY <1>3, Ways
  <2> QED
    BY <1>1, <2>1 DEF Begins, Others
<1>4. ASSUME NEW o \in Slots, NEW k \in {"mutate", "fork"}, NEW p \in Paths, Rewrite(o, k, p)
      PROVE  call'[x].at = "calling"
  <2>1. Begins(o, "locked", k)
    BY <1>4, Ways
  <2> QED
    BY <1>1, <2>1 DEF Begins, Others
<1>5. ASSUME NEW o \in Slots, MaintainPi(o) \/ ServiceShutdown(o) PROVE call'[x].at = "calling"
  <2>1. Begins(o, "prepare", "maintain") \/ Begins(o, "quit", "quit")
    BY <1>5, Ways
  <2> QED
    BY <1>1, <2>1 DEF Begins, Others
<1>6. ASSUME NEW o \in Slots, AdmitStart(o) \/ SpawnPi(o) \/ StartReturns(o) \/ CallReturns(o), o # x
      PROVE  call'[x].at = "calling"
  <2>1. Goes(o, "admitted", "starting") \/ Goes(o, "starting", "ready") \/ Ends(o)
    BY <1>6, Ways
  <2> QED
    BY <1>6, <2>1 DEF Goes, Ends, Others
<1>7. ASSUME NEW o \in Slots, AdmitStart(o) \/ SpawnPi(o) \/ StartReturns(o) \/ Maintains(o)
      PROVE  call'[x].at = "calling"
  <2>1. Goes(o, "admitted", "starting") \/ Goes(o, "starting", "ready") \/ Ends(o)
        \/ Goes(o, "prepare", "stopping") \/ Goes(o, "stopping", "running") \/ Goes(o, "quit", "closing")
    BY <1>7, Ways DEF Maintains
  <2>2. call[o].at # "calling"
    BY <1>7 DEF AdmitStart, SpawnPi, StartReturns, Maintains, preparePiMaintenance, StopEverything,
                MaintainerReturns, WithdrawRuntime, Shutdown
  <2> QED
    BY <1>1, <2>1, <2>2 DEF Goes, Ends, Others
<1>8. ASSUME NEW o \in Slots, Edits(o) PROVE call'[x].at = "calling"
  <2>1. call[o].at # "calling"
    BY <1>8 DEF Edits, GetState, Abort, ReadSession, BackUpSession, ReplaceSession, ForkHistory, PiSwitches,
                AnswerLost, ReloadReturns, SwitchCancelled, RestoreSession, stopUncertainSession
  <2>2. UNCHANGED call \/ \A y \in Slots : y # o => call'[y] = call[y]
    <3>1. UNCHANGED call \/ Ends(o) \/ \E l, m : Goes(o, l, m)
      BY <1>8, Ways DEF Edits
    <3> QED
      BY <3>1 DEF Goes, Ends, Others
  <2> QED
    BY <1>1, <2>1, <2>2
<1> QED
  BY <1>2, <1>3, <1>4, <1>5, <1>6, <1>7, <1>8, Steps

(* Only the removal of a declined fork takes a file away.                  *)
LEMMA FileStays ==
  ASSUME FInv, AgentNext, NEW p \in Paths, sessionFiles[p] # Missing
  PROVE  \/ sessionFiles'[p] # Missing
         \/ \E o \in Slots : /\ call[o].at = "cancelled" /\ call[o].kind = "fork" /\ p = call[o].target
                             /\ SwitchCancelled(o)
<1>t. Types /\ Kinds
  BY DEF FInv
<1>0. ASSUME UNCHANGED sessionFiles PROVE sessionFiles'[p] # Missing
  BY <1>0
<1>1. CASE PiSteps
  <2>1. CASE NewEntry /\ \E q : sessionFiles' = [sessionFiles EXCEPT ![q] = @ \cup {written'}]
    <3>1. PICK q : sessionFiles' = [sessionFiles EXCEPT ![q] = @ \cup {written'}]
      BY <2>1
    <3>2. written' \in 1 .. MaxAppended /\ MaxAppended \in Nat
      BY <1>t, <2>1, MaxAppendedIsNatural DEF NewEntry, Types
    <3>3. Entries \subseteq 1 .. MaxAppended
      BY <1>t, MaxAppendedIsNatural DEF Entries, Types
    <3>4. sessionFiles[p] \in SUBSET (1 .. MaxAppended)
      BY <1>t, <3>3, HistoryTypes
    <3>5. sessionFiles[p] \cup {written'} # Missing
      BY <3>2, <3>4, MissingIsNoHistory
    <3> QED
      BY <1>t, <3>1, <3>5 DEF Types
  <2>2. UNCHANGED sessionFiles \/ (NewEntry /\ \E q : sessionFiles' = [sessionFiles EXCEPT ![q] = @ \cup {written'}])
    BY <1>1 DEF PiSteps, PiWorks, PiWrites, PiRests, PiExits, StoppedPiWrites, StoppedPiEnds, fileVars
  <2> QED
    BY <1>0, <2>1, <2>2
<1>2. ASSUME NEW o \in Slots, ReplaceSession(o) PROVE sessionFiles'[p] # Missing
  <2>1. call[o].after # Missing
    BY <1>t, CallFields, MissingIsNotAHistory
  <2> QED
    BY <1>t, <1>2, <2>1 DEF ReplaceSession, Types
<1>3. ASSUME NEW o \in Slots, NEW q \in Paths, ForkHistory(o, q) PROVE sessionFiles'[p] # Missing
  BY <1>t, <1>3 DEF ForkHistory, Types
<1>4. ASSUME NEW o \in Slots, SwitchCancelled(o)
      PROVE  \/ sessionFiles'[p] # Missing
             \/ call[o].at = "cancelled" /\ call[o].kind = "fork" /\ p = call[o].target
  BY <1>t, <1>4 DEF SwitchCancelled, Types
<1>5. ASSUME NEW o \in Slots, RestoreSession(o) PROVE sessionFiles'[p] # Missing
  <2>1. call[o].path \in Paths /\ o \in Rewriting /\ call[o].kind = "mutate" /\ call[o].at = "restoring"
    BY <1>t, <1>5 DEF RestoreSession, Kinds, Rewrites, Rewriting
  <2>2. BackedUp(o)
    BY <2>1 DEF FInv
  <2>3. backups[call[o].path][Len(backups[call[o].path])] # Missing
    BY <1>t, <2>1, <2>2, BackupTypes, MissingIsNotAHistory DEF BackedUp
  <2> QED
    BY <1>t, <1>5, <2>3 DEF RestoreSession, Types
<1> QED
  BY <1>0, <1>1, <1>2, <1>3, <1>4, <1>5, Steps, Untouched DEF Edits, fileVars

(* What becomes of the Pi in the table.                                    *)
PiGoesOn ==
  /\ pi.alive /\ pi'.alive /\ pi'.path = pi.path
  /\ \A o \in pi'.bash : o \in pi.bash \/ o = Left \/ call'[o].at = "calling"

LEMMA PiChanges ==
  ASSUME Types, PiHasFile, AgentNext
  PROVE  \/ pi' = NoPi \/ pi' = pi \/ PiGoesOn
         \/ \E o \in Slots : /\ SpawnPi(o) /\ pi'.alive /\ pi'.bash = {} /\ pi'.path = call[o].path
                             /\ sessionFiles[call[o].path] # Missing
         \/ \E o \in Slots : PiSwitches(o) /\ pi'.alive /\ pi'.path = call[o].target /\ pi'.bash = pi.bash
<1>0. pi \in PiStates /\ NoPi.alive = FALSE /\ NoPi.bash = {} /\ NoPi.mode = "idle" /\ NoPi.by = Left
  BY DEF Types, NoPi
<1>1. ~pi.alive => pi = NoPi
  BY DEF PiHasFile
<1>2. CASE PiSteps
  <2>1. pi.mode \in {"turn", "own", "retry", "goal"} \/ pi.bash # {} => pi.alive
    BY <1>0, <1>1
  <2>2. CASE PiWorks
    <3>1. ASSUME NEW asked, NEW still \in SUBSET pi.bash, PiWrites(asked, still), pi.alive PROVE PiGoesOn
      BY <1>0, <3>1 DEF PiWrites, PiGoesOn, PiStates
    <3> QED
      BY <2>1, <2>2, <3>1 DEF PiWorks
  <2>3. CASE PiRests
    BY <1>0, <2>1, <2>3 DEF PiRests, PiGoesOn, PiStates
  <2> QED
    BY <1>2, <2>2, <2>3 DEF PiSteps, PiExits, PiLeaves, StoppedPiWrites, StoppedPiEnds
<1>3. ASSUME NEW o \in Slots, NEW k \in {"prompt", "bash"}, callWithContext(o, k) PROVE PiGoesOn
  <2>1. call'[o].at = "calling"
    BY <1>3, Ways DEF Begins
  <2> QED
    BY <1>0, <1>3, <2>1 DEF callWithContext, PiGoesOn, PiStates
<1>4. ASSUME NEW o \in Slots, StartReturns(o) PROVE pi' = NoPi \/ pi' = pi \/ PiGoesOn
  <2>1. CASE PiLeaves
    BY <2>1 DEF PiLeaves
  <2>2. CASE pi' = [pi EXCEPT !.by = IF pi.by = o THEN Left ELSE pi.by]
    <3>1. CASE pi.alive
      BY <1>0, <2>2, <3>1 DEF PiGoesOn, PiStates
    <3>2. CASE ~pi.alive
      <4>1. pi.by = Left /\ o # Left
        BY <1>0, <1>1, <3>2, LeftIsNoSlot
      <4> QED
        BY <1>0, <2>2, <4>1 DEF PiStates
    <3> QED
      BY <3>1, <3>2
  <2> QED
    BY <1>4, <2>1, <2>2 DEF StartReturns
<1>5. ASSUME NEW o \in Slots, CallReturns(o) PROVE pi' = NoPi \/ pi' = pi \/ PiGoesOn
  <2>1. CASE o \in pi.bash
    <3>1. pi.alive
      BY <1>0, <1>1, <2>1
    <3> QED
      BY <1>0, <1>5, <2>1, <3>1 DEF CallReturns, PiGoesOn, PiStates
  <2>2. CASE o \notin pi.bash
    BY <1>0, <1>5, <2>2 DEF CallReturns, PiStates
  <2> QED
    BY <2>1, <2>2
<1>6. ASSUME NEW o \in Slots, SpawnPi(o)
      PROVE  \/ pi' = pi
             \/ /\ pi'.alive /\ pi'.bash = {} /\ pi'.path = call[o].path
                /\ sessionFiles[call[o].path] # Missing
  BY <1>6 DEF SpawnPi
<1>7. ASSUME NEW o \in Slots, PiSwitches(o)
      PROVE  pi' = pi \/ (pi'.alive /\ pi'.path = call[o].target /\ pi'.bash = pi.bash)
  BY <1>0, <1>7 DEF PiSwitches, PiStates
<1>8. ASSUME NEW o \in Slots, Abort(o) PROVE pi' = pi \/ PiGoesOn
  BY <1>0, <1>8 DEF Abort, PiGoesOn, PiStates
<1>9. ASSUME NEW o \in Slots, Maintains(o) \/ StopSession(o) \/ stopUncertainSession(o)
      PROVE  pi' = NoPi \/ pi' = pi
  BY <1>9 DEF Maintains, preparePiMaintenance, StopEverything, MaintainerReturns, WithdrawRuntime, Shutdown,
              StopSession, stopUncertainSession, PiLeaves
<1> QED
  BY <1>2, <1>3, <1>4, <1>5, <1>6, <1>7, <1>8, <1>9, Steps, Untouched DEF Edits

(* A stopped Pi was in the table, or was still to switch.                  *)
LEMMA StoppedChanges ==
  ASSUME AgentNext, NEW p \in stopped'
  PROVE  \/ p \in stopped
         \/ pi.alive /\ p = pi.path
         \/ \E o \in Slots : stopUncertainSession(o) /\ p = call[o].target
<1>1. CASE PiSteps
  BY <1>1 DEF PiSteps, PiWorks, PiWrites, PiRests, PiExits, PiLeaves, StoppedPiWrites, StoppedPiEnds
<1>2. ASSUME NEW o \in Slots, StopSession(o) \/ StartReturns(o) \/ CallReturns(o) \/ Maintains(o)
      PROVE  p \in stopped \/ (pi.alive /\ p = pi.path)
  BY <1>2 DEF StopSession, StartReturns, CallReturns, Maintains, preparePiMaintenance, StopEverything,
              MaintainerReturns, WithdrawRuntime, Shutdown, PiLeaves
<1>3. ASSUME NEW o \in Slots, stopUncertainSession(o)
      PROVE  p \in stopped \/ (pi.alive /\ p = pi.path) \/ p = call[o].target
  BY <1>3 DEF stopUncertainSession
<1> QED
  BY <1>1, <1>2, <1>3, Steps, Untouched DEF Edits

LEMMA PiHasFileStep == FInv /\ [AgentNext]_agentVars => PiHasFile'
<1> SUFFICES ASSUME FInv, Types, Kinds, PiHasFile, AgentNext PROVE PiHasFile'
  <2>1. CASE UNCHANGED agentVars
    BY <2>1 DEF FInv, agentVars, fileVars, PiHasFile, NoPi
  <2> QED
    BY <2>1 DEF FInv
<1>0. ASSUME NEW o \in Slots, call[o].at \in Rewrites PROVE o \in Rewriting /\ Files(o) /\ BackedUp(o)
  <2>1. o \in Rewriting
    BY <1>0 DEF Kinds, Rewriting
  <2> QED
    BY <2>1 DEF FInv
<1>1. ASSUME NEW o \in Slots, NEW p \in Paths, SwitchCancelled(o), call[o].kind = "fork",
             p = call[o].target, call[o].at = "cancelled"
      PROVE  p \notin stopped /\ UNCHANGED <<pi, stopped>> /\ (pi.alive => p # pi.path)
  <2>1. Files(o)
    BY <1>0, <1>1 DEF Rewrites
  <2> QED
    BY <1>1, <2>1, Untouched DEF Files
<1>2. ~pi'.alive => pi' = NoPi
  BY PiChanges DEF PiHasFile, PiGoesOn
<1>3. pi'.alive => pi'.path \in Paths /\ sessionFiles[pi'.path] # Missing
  <2>1. ASSUME NEW o \in Slots, PiSwitches(o)
        PROVE  call[o].target \in Paths /\ sessionFiles[call[o].target] # Missing
    <3>1. Files(o)
      BY <1>0, <2>1 DEF PiSwitches, Rewrites
    <3> QED
      BY <2>1, <3>1 DEF Files, PiSwitches
  <2>2. ASSUME NEW o \in Slots, SpawnPi(o) PROVE call[o].path \in Paths
    BY <2>2 DEF SpawnPi, Kinds
  <2> QED
    BY <2>1, <2>2, PiChanges DEF PiHasFile, PiGoesOn, NoPi
<1>4. ASSUME pi'.alive PROVE pi'.path \in Paths /\ sessionFiles'[pi'.path] # Missing
  <2>1. PICK p \in Paths : p = pi'.path /\ sessionFiles[p] # Missing
    BY <1>3, <1>4
  <2>2. ASSUME NEW o \in Slots, SwitchCancelled(o), call[o].kind = "fork", p = call[o].target,
               call[o].at = "cancelled"
        PROVE  FALSE
    BY <1>1, <1>4, <2>1, <2>2
  <2> QED
    BY <2>1, <2>2, FileStays
<1>5. ASSUME NEW p \in stopped' PROVE sessionFiles'[p] # Missing
  <2>1. ASSUME NEW o \in Slots, stopUncertainSession(o)
        PROVE  call[o].target \in Paths /\ sessionFiles[call[o].target] # Missing
    <3>1. Files(o)
      BY <1>0, <2>1 DEF stopUncertainSession, Rewrites
    <3> QED
      BY <2>1, <3>1 DEF Files, stopUncertainSession
  <2>2. p \in Paths /\ sessionFiles[p] # Missing
    <3>1. CASE p \in stopped
      BY <3>1 DEF PiHasFile, Types
    <3>2. CASE pi.alive /\ p = pi.path
      BY <3>2 DEF PiHasFile
    <3> QED
      BY <1>5, <2>1, <3>1, <3>2, StoppedChanges
  <2>3. ASSUME NEW o \in Slots, SwitchCancelled(o) PROVE p \in stopped
    BY <1>5, <2>3, Untouched
  <2> QED
    BY <1>1, <2>2, <2>3, FileStays
<1>6. ASSUME NEW o \in pi'.bash, o # Left PROVE call'[o].at = "calling"
  <2>1. o \in pi.bash \/ call'[o].at = "calling"
    BY <1>6, PiChanges DEF PiGoesOn, NoPi
  <2>2. ASSUME o \in pi.bash PROVE o \in Slots /\ call[o].at = "calling"
    BY <1>6, <2>2, PiFields DEF PiHasFile
  <2>3. CASE CallReturns(o) /\ o \in pi.bash
    BY <1>6, <2>2, <2>3 DEF CallReturns, Types, PiStates
  <2> QED
    BY <2>1, <2>2, <2>3, CallingStays
<1> QED
  BY <1>2, <1>4, <1>5, <1>6 DEF PiHasFile

-----------------------------------------------------------------------------
(* What a history operation relies on                                      *)

(* Beside a history operation no other operation has to do with the files. *)
Beside(o) ==
  /\ call'[o] = call[o] /\ UNCHANGED <<fileVars, entryVars>>
  /\ agent'.runtime => agent.runtime
  /\ pi'.alive => /\ pi.alive /\ pi'.path = pi.path /\ pi'.view = pi.view /\ pi'.bash = pi.bash
                  /\ pi'.mode \in {"turn", "retry"} => pi.mode \in {"turn", "retry"}
  /\ \A p \in stopped' : p \in stopped \/ (pi.alive /\ p = pi.path)

LEMMA OthersBeside ==
  ASSUME FInv, AgentNext, NEW o \in Rewriting
  PROVE  \/ Edits(o)
         \/ Beside(o)
         \/ PiWorks /\ UNCHANGED call
         \/ \E p \in Paths : StoppedPiWrites(p) /\ UNCHANGED call
<1>t. Types /\ Kinds /\ Alone /\ pi \in PiStates /\ NoPi.alive = FALSE /\ o \in Slots
  BY DEF FInv, Types, NoPi, Rewriting
<1>1. Sharing = {} /\ Rewriting # {} /\ \A x \in Rewriting : x = o
  BY <1>t DEF Alone
<1>2. CASE PiSteps /\ UNCHANGED call
  <2>1. CASE PiRests \/ PiExits \/ \E p \in Paths : StoppedPiEnds(p)
    <3>1. UNCHANGED <<fileVars, entryVars, agent>>
      BY <2>1 DEF PiRests, PiExits, StoppedPiEnds
    <3>2. pi'.alive => /\ pi.alive /\ pi'.path = pi.path /\ pi'.view = pi.view /\ pi'.bash = pi.bash
                       /\ pi'.mode \in {"turn", "retry"} => pi.mode \in {"turn", "retry"}
      BY <1>t, <2>1 DEF PiRests, PiExits, StoppedPiEnds, PiLeaves, PiStates
    <3>3. \A p \in stopped' : p \in stopped \/ (pi.alive /\ p = pi.path)
      BY <2>1 DEF PiRests, PiExits, StoppedPiEnds, PiLeaves
    <3> QED
      BY <1>2, <3>1, <3>2, <3>3 DEF Beside
  <2> QED
    BY <1>2, <2>1 DEF PiSteps
<1>3. ASSUME NEW x \in Slots, StopSession(x) PROVE Beside(o)
  BY <1>t, <1>3 DEF StopSession, PiLeaves, Beside
<1>4. ASSUME NEW x \in Slots, MaintainPi(x) \/ ServiceShutdown(x) PROVE Beside(o)
  <2>1. call'[o] = call[o]
    <3>1. Begins(x, "prepare", "maintain") \/ Begins(x, "quit", "quit")
      BY <1>t, <1>4, Ways
    <3>2. call[o].kind # "none"
      BY DEF Rewriting
    <3> QED
      BY <1>t, <3>1, <3>2 DEF Begins, Others
  <2> QED
    BY <1>t, <1>4, <2>1, Untouched DEF Beside
<1>5. ASSUME NEW x \in Slots, Maintains(x) PROVE Beside(o)
  <2>1. call'[o] = call[o]
    <3>1. Goes(x, "prepare", "stopping") \/ Goes(x, "stopping", "running") \/ Goes(x, "quit", "closing") \/ Ends(x)
      BY <1>t, <1>5, Ways DEF Maintains
    <3>2. call[x].at \notin Rewrites
      BY <1>5 DEF Maintains, preparePiMaintenance, StopEverything, MaintainerReturns, WithdrawRuntime,
                  Shutdown, Rewrites
    <3>3. call[o].at \in Rewrites
      BY <1>t DEF Kinds, Rewriting
    <3> QED
      BY <1>t, <3>1, <3>2, <3>3 DEF Goes, Ends, Others
  <2>2. agent'.runtime => agent.runtime
    BY <1>t, <1>5 DEF Maintains, preparePiMaintenance, StopEverything, MaintainerReturns, WithdrawRuntime,
                      Shutdown, Types
  <2>3. pi' = pi \/ pi' = NoPi
    BY <1>5 DEF Maintains, preparePiMaintenance, StopEverything, MaintainerReturns, WithdrawRuntime,
                Shutdown, PiLeaves
  <2>4. \A p \in stopped' : p \in stopped \/ (pi.alive /\ p = pi.path)
    BY <1>5 DEF Maintains, preparePiMaintenance, StopEverything, MaintainerReturns, WithdrawRuntime,
                Shutdown, PiLeaves
  <2> QED
    BY <1>t, <1>5, <2>1, <2>2, <2>3, <2>4, Untouched DEF Beside
<1>6. ASSUME NEW x \in Slots, Edits(x) PROVE x = o
  BY <1>t, <1>1, <1>6, Editing
<1>7. ASSUME NEW x \in Slots, AdmitStart(x) \/ SpawnPi(x) \/ StartReturns(x) \/ CallReturns(x) PROVE FALSE
  BY <1>1, <1>7 DEF AdmitStart, SpawnPi, StartReturns, CallReturns, Sharing
<1>8. ASSUME NEW x \in Slots, NEW p \in Paths, StartSession(x, p) PROVE FALSE
  BY <1>1, <1>8 DEF StartSession
<1>9. ASSUME NEW x \in Slots, NEW k \in {"prompt", "bash"}, callWithContext(x, k) PROVE FALSE
  BY <1>1, <1>9 DEF callWithContext
<1>10. ASSUME NEW x \in Slots, NEW k \in {"mutate", "fork"}, NEW p \in Paths, Rewrite(x, k, p) PROVE FALSE
  BY <1>1, <1>10 DEF Rewrite
<1> QED
  BY <1>2, <1>3, <1>4, <1>5, <1>6, <1>7, <1>8, <1>9, <1>10, Steps DEF PiSteps

LEMMA RewritingFacts ==
  ASSUME FInv, NEW o \in Rewriting
  PROVE  /\ o \in Slots /\ call[o].at \in Rewrites /\ call[o].path \in Paths
         /\ call[o].kind \in {"mutate", "fork"}
         /\ call[o].at \in {"changed", "saved", "restoring"} => call[o].kind = "mutate"
         /\ call[o].target \in Paths \cup {Missing} /\ call[o].after \in SUBSET Entries
         /\ Files(o) /\ BackedUp(o) /\ Stage(o) /\ sessionFiles[call[o].path] # Missing
<1>1. o \in Slots /\ Types /\ Kinds /\ Files(o) /\ BackedUp(o) /\ Stage(o)
  BY DEF FInv, Rewriting
<1> QED
  BY <1>1, CallFields DEF Kinds, Rewriting, Files

LEMMA BesideKeeps ==
  ASSUME FInv, NEW o \in Rewriting, Beside(o)
  PROVE  Files(o)' /\ BackedUp(o)' /\ Stage(o)'
<1>0. /\ Files(o) /\ BackedUp(o) /\ Stage(o)
      /\ sessionFiles' = sessionFiles /\ backups' = backups /\ pruned' = pruned
      /\ astray' = astray /\ unwatched' = unwatched /\ call'[o] = call[o]
  BY RewritingFacts DEF Beside, fileVars, entryVars
<1>1. Files(o)'
  BY <1>0 DEF Beside, Files
<1>2. BackedUp(o)'
  BY <1>0 DEF BackedUp, LastBackup
<1>3. Stage(o)'
  <2> SUFFICES ASSUME pi'.alive PROVE Stage(o)'
    BY DEF Stage
  <2>1. /\ pi.alive /\ pi'.path = pi.path /\ pi'.view = pi.view
        /\ pi'.mode \in {"turn", "retry"} => pi.mode \in {"turn", "retry"}
    BY DEF Beside
  <2>3. Strayed => Strayed'
    BY DEF Beside, Strayed
  <2>2. Watched(pi.view)' = Watched(pi.view) /\ Current' = Current /\ Watched(LastBackup(o))' = Watched(LastBackup(o))
    BY <1>0, <2>1 DEF Watched, Current, LastBackup
  <2> QED
    BY <1>0, <2>1, <2>2, <2>3 DEF Stage
<1> QED
  BY <1>1, <1>2, <1>3

(* An entry is written to a file.                                          *)
Growth(p) ==
  /\ NewEntry /\ p \in Paths /\ sessionFiles[p] # Missing
  /\ sessionFiles' = [sessionFiles EXCEPT ![p] = @ \cup {written'}]
  /\ UNCHANGED <<stopped, backups, pruned, agent, call>>
  /\ astray' = astray \/ astray' = astray \cup {written'}
  /\ unwatched' = unwatched \/ unwatched' = unwatched \cup {written'}
  /\ pi.alive => /\ pi'.alive /\ pi'.path = pi.path /\ pi'.mode = pi.mode
                 /\ pi'.bash \subseteq pi.bash
  /\ pi'.alive => pi.alive

(* What Pi writes when nothing that a call asked for goes on is unwatched. *)
LEMMA PiGrows ==
  ASSUME Types, PiHasFile, PiWorks
  PROVE  /\ pi.alive /\ Growth(pi.path) /\ pi'.view = pi.view \cup {written'} /\ astray' = astray
         /\ Rewriting # {} /\ pi.mode # "turn" /\ pi.bash \subseteq {Left} =>
              unwatched' = unwatched \cup {written'}
<1>0. pi \in PiStates /\ NoPi.bash = {} /\ NoPi.mode = "idle"
  BY DEF Types, NoPi
<1>1. pi.alive /\ pi.path \in Paths /\ sessionFiles[pi.path] # Missing
  BY <1>0 DEF PiHasFile, PiWorks
<1>2. PICK asked \in BOOLEAN, still \in SUBSET pi.bash :
        /\ PiWrites(asked, still)
        /\ pi.mode # "turn" /\ pi.bash \subseteq {Left} => ~asked
  <2>1. CASE pi.mode \in {"turn", "own"} /\ PiWrites(pi.mode = "turn", pi.bash)
    BY <2>1
  <2>2. ASSUME NEW o \in pi.bash, PiWrites(o # Left, pi.bash \ {o})
        PROVE  \E asked \in BOOLEAN, still \in SUBSET pi.bash :
                 /\ PiWrites(asked, still)
                 /\ pi.mode # "turn" /\ pi.bash \subseteq {Left} => ~asked
    BY <2>2
  <2> QED
    BY <2>1, <2>2 DEF PiWorks
<1>3. /\ pi'.view = pi.view \cup {written'} /\ pi'.alive = pi.alive /\ pi'.path = pi.path
      /\ pi'.mode = pi.mode /\ pi'.bash \subseteq pi.bash
  BY <1>0, <1>2 DEF PiWrites, PiStates
<1>4. Growth(pi.path)
  BY <1>1, <1>2, <1>3 DEF PiWrites, Growth
<1> QED
  BY <1>1, <1>2, <1>3, <1>4 DEF PiWrites

LEMMA StoppedGrows ==
  ASSUME Types, PiHasFile, NEW p \in Paths, StoppedPiWrites(p)
  PROVE  /\ Growth(p) /\ p \in stopped /\ pi' = pi /\ astray' = astray \cup {written'}
         /\ Rewriting # {} => unwatched' = unwatched \cup {written'}
BY DEF StoppedPiWrites, Growth, PiHasFile

(* What a new entry makes of a history, and of what is known of it.        *)
LEMMA Grown ==
  ASSUME Types, NEW p, Growth(p)
  PROVE  /\ \A h \in SUBSET Entries : h \ (astray' \cup unwatched') = Watched(h)
         /\ \A h \in SUBSET Entries : (h \cup {written'}) \ (astray' \cup unwatched') =
              IF written' \in astray' \cup unwatched' THEN Watched(h) ELSE Watched(h) \cup {written'}
         /\ \A q \in Paths : sessionFiles[q] # Missing =>
              /\ sessionFiles'[q] # Missing /\ sessionFiles[q] \subseteq sessionFiles'[q]
              /\ sessionFiles'[q] \subseteq sessionFiles[q] \cup {written'}
              /\ q # p => sessionFiles'[q] = sessionFiles[q]
         /\ sessionFiles'[p] = sessionFiles[p] \cup {written'} /\ sessionFiles[p] \in SUBSET Entries
         /\ written' = written + 1 /\ written' \notin Entries
         /\ \A q \in Paths : sessionFiles[q] = Missing => sessionFiles'[q] = Missing
<1>1. NewEntry /\ p \in Paths /\ sessionFiles[p] # Missing
  BY DEF Growth
<1>2. written' \notin Entries /\ written' = written + 1
  BY <1>1, EntryTypes DEF NewEntry
<1>3. astray \in SUBSET Entries /\ unwatched \in SUBSET Entries
  BY DEF Types
<1>4. \A h \in SUBSET Entries : h \ (astray' \cup unwatched') = Watched(h)
  BY <1>2 DEF Growth, Watched
<1>5. \A h \in SUBSET Entries : (h \cup {written'}) \ (astray' \cup unwatched') =
        IF written' \in astray' \cup unwatched' THEN Watched(h) ELSE Watched(h) \cup {written'}
  BY <1>2, <1>3 DEF Growth, Watched
<1>6. sessionFiles'[p] = sessionFiles[p] \cup {written'} /\ sessionFiles[p] \in SUBSET Entries
  BY <1>1, HistoryTypes DEF Growth, Types
<1>7. sessionFiles'[p] # Missing
  <2>1. written' \in 1 .. MaxAppended /\ MaxAppended \in Nat /\ Entries \subseteq 1 .. MaxAppended
    BY <1>1, MaxAppendedIsNatural DEF NewEntry, Types, Entries
  <2>2. sessionFiles'[p] \in SUBSET (1 .. MaxAppended)
    BY <1>6, <2>1
  <2> QED
    BY <2>2, MissingIsNoHistory
<1>8. \A q \in Paths : q # p => sessionFiles'[q] = sessionFiles[q]
  BY DEF Growth, Types
<1> QED
  BY <1>1, <1>2, <1>4, <1>5, <1>6, <1>7, <1>8

(* Pi and its file grow together; what a stopped Pi writes is astray.      *)
LEMMA CurrentGrows ==
  ASSUME Types, PiHasFile, Current, pi.alive,
         PiWorks \/ \E p \in Paths : StoppedPiWrites(p)
  PROVE  Current'
<1>0. pi.view \in SUBSET Entries /\ pi.path \in Paths /\ sessionFiles[pi.path] # Missing
  BY PiFields DEF PiHasFile
<1>1. CASE PiWorks
  <2>1. /\ Growth(pi.path) /\ pi'.view = pi.view \cup {written'} /\ pi'.path = pi.path
    BY <1>1, PiGrows DEF Growth
  <2>2. sessionFiles'[pi.path] = sessionFiles[pi.path] \cup {written'} /\ sessionFiles[pi.path] \in SUBSET Entries
    BY <2>1, Grown
  <2> QED
    BY <1>0, <2>1, <2>2, Grown DEF Current, Watched
<1>2. ASSUME NEW p \in Paths, StoppedPiWrites(p) PROVE Current'
  <2>1. Growth(p) /\ pi' = pi /\ written' \in astray'
    BY <1>2, StoppedGrows
  <2>2. sessionFiles[pi.path] \in SUBSET Entries
    BY <1>0, HistoryTypes
  <2>3. sessionFiles'[pi.path] \in {sessionFiles[pi.path], sessionFiles[pi.path] \cup {written'}}
    BY <1>0, <2>1, Grown
  <2>4. sessionFiles'[pi.path] \ (astray' \cup unwatched') = Watched(sessionFiles[pi.path])
    BY <2>1, <2>2, <2>3, Grown
  <2>5. pi.view \ (astray' \cup unwatched') = Watched(pi.view)
    BY <1>0, <2>1, Grown
  <2> QED
    BY <2>1, <2>4, <2>5 DEF Current, Watched
<1> QED
  BY <1>1, <1>2

(* Beside a history operation whose Pi has settled only unwatched entries  *)
(* are written.                                                            *)
LEMMA Settled ==
  ASSUME FInv, NEW o \in Rewriting, call[o].at \notin {"locked", "asked"},
         PiWorks \/ \E p \in Paths : StoppedPiWrites(p)
  PROVE  unwatched' = unwatched \cup {written'}
<1>t. Types /\ PiHasFile /\ Alone
  BY DEF FInv
<1>1. CASE PiWorks
  <2>1. pi.alive
    BY <1>t, <1>1, PiGrows
  <2>2. pi.mode \notin {"turn", "retry"}
    BY <2>1, RewritingFacts DEF Stage
  <2>3. Sharing = {}
    BY <1>t DEF Alone
  <2>4. pi.bash \subseteq {Left}
    BY <1>t, <2>3, PiFields DEF PiHasFile, Sharing
  <2> QED
    BY <1>t, <1>1, <2>2, <2>4, PiGrows
<1>2. CASE \E p \in Paths : StoppedPiWrites(p)
  BY <1>t, <1>2, StoppedGrows
<1> QED
  BY <1>1, <1>2

LEMMA GrowthKeeps ==
  ASSUME FInv, NEW o \in Rewriting, PiWorks \/ \E p \in Paths : StoppedPiWrites(p)
  PROVE  Files(o)' /\ BackedUp(o)' /\ Stage(o)'
<1>t. Types /\ PiHasFile
  BY DEF FInv
<1>1. PICK p \in Paths :
        /\ Growth(p)
        /\ (pi.alive /\ p = pi.path) \/ p \in stopped
        /\ pi' = pi \/ pi'.view = pi.view \cup {written'}
  BY <1>t, PiGrows, StoppedGrows DEF PiHasFile
<1>2. /\ call' = call /\ stopped' = stopped /\ backups' = backups /\ pruned' = pruned
      /\ agent' = agent /\ pi'.alive = pi.alive
      /\ pi.alive => pi'.path = pi.path /\ pi'.mode = pi.mode /\ pi'.bash \subseteq pi.bash
  <2>1. pi'.alive \in BOOLEAN /\ pi.alive \in BOOLEAN
    <3>1. pi' = pi \/ pi'.alive = pi.alive
      BY <1>t, PiGrows, StoppedGrows, PiFields DEF PiWorks, PiWrites, Types, PiStates
    <3> QED
      BY <1>t, <3>1, PiFields
  <2> QED
    BY <1>1, <2>1 DEF Growth
<1>f. /\ o \in Slots /\ call[o].path \in Paths /\ sessionFiles[call[o].path] # Missing
      /\ Files(o) /\ BackedUp(o) /\ Stage(o) /\ call[o].target \in Paths \cup {Missing}
  BY RewritingFacts
<1>3. \A q \in Paths : sessionFiles[q] # Missing =>
        /\ sessionFiles'[q] # Missing /\ sessionFiles[q] \subseteq sessionFiles'[q]
        /\ sessionFiles'[q] \subseteq sessionFiles[q] \cup {written'}
        /\ q # p => sessionFiles'[q] = sessionFiles[q]
  BY <1>t, <1>1, Grown
<1>4. Files(o)'
  <2>1. ASSUME call[o].at \in {"written", "cancelled"}, call[o].kind = "fork"
        PROVE  sessionFiles'[call[o].target] \subseteq sessionFiles'[call[o].path]
    <3>1. /\ call[o].target # call[o].path /\ call[o].target \notin stopped /\ call[o].target \in Paths
          /\ sessionFiles[call[o].target] # Missing
          /\ sessionFiles[call[o].target] \subseteq sessionFiles[call[o].path]
          /\ pi.alive => pi.path = call[o].path
      BY <1>f, <2>1 DEF Files
    <3>2. call[o].target # p
      BY <1>1, <3>1
    <3> QED
      BY <1>3, <1>f, <3>1, <3>2
  <2> QED
    BY <1>2, <1>3, <1>f, <2>1 DEF Files
<1>5. call[o].at \in {"saved", "restoring"} => unwatched' = unwatched \cup {written'}
  BY Settled
<1>6. BackedUp(o)'
  <2>1. LastBackup(o)' = LastBackup(o)
    BY <1>2 DEF LastBackup
  <2>2. unwatched \subseteq unwatched'
    BY <1>1 DEF Growth
  <2>3. sessionFiles[call[o].path] \subseteq sessionFiles'[call[o].path]
    BY <1>3, <1>f
  <2>4. ASSUME call[o].at \in {"saved", "restoring"}, sessionFiles[call[o].path] \subseteq LastBackup(o) \cup unwatched
        PROVE  sessionFiles'[call[o].path] \subseteq LastBackup(o) \cup unwatched'
    BY <1>3, <1>5, <1>f, <2>4
  <2> QED
    BY <1>2, <1>f, <2>1, <2>2, <2>3, <2>4 DEF BackedUp
<1>7. Stage(o)'
  <2> SUFFICES ASSUME pi'.alive PROVE Stage(o)'
    BY DEF Stage
  <2>1. pi.alive /\ pi'.path = pi.path /\ pi'.mode = pi.mode
    BY <1>2
  <2>2. (Current => Current') /\ (Strayed => Strayed')
    BY <1>t, <1>2, <2>1, CurrentGrows DEF Strayed
  <2>3. ASSUME call[o].at \in {"saved", "written", "cancelled", "restoring"}, call[o].kind = "mutate"
        PROVE  Watched(pi.view)' = Watched(LastBackup(o))'
    <3>1. written' \in unwatched' /\ pi.view \in SUBSET Entries
      BY <1>t, <2>3, Settled, PiFields
    <3>2. LastBackup(o) \in SUBSET Entries
      BY <1>t, <1>f, <2>3, BackupTypes DEF BackedUp, LastBackup
    <3>3. LastBackup(o)' = LastBackup(o)
      BY <1>2 DEF LastBackup
    <3>4. pi'.view \ (astray' \cup unwatched') = Watched(pi.view)
      BY <1>t, <1>1, <3>1, Grown
    <3>5. LastBackup(o) \ (astray' \cup unwatched') = Watched(LastBackup(o))
      BY <1>t, <1>1, <3>2, Grown
    <3>6. Watched(pi.view) = Watched(LastBackup(o))
      BY <1>f, <2>1, <2>3 DEF Stage
    <3> QED
      BY <3>3, <3>4, <3>5, <3>6 DEF Watched
  <2> QED
    BY <1>2, <1>f, <2>1, <2>2, <2>3 DEF Stage
<1> QED
  BY <1>4, <1>6, <1>7

(* What each step of a history operation leaves behind it.                 *)
Leaves(o) ==
  /\ call'[o].kind \in {"mutate", "fork"} => Files(o)' /\ BackedUp(o)' /\ Stage(o)'
  /\ call'[o] = Free => (pi'.alive => Current' \/ Strayed')

LEMMA SameCurrent ==
  ASSUME UNCHANGED entryVars, pi'.view = pi.view, pi'.path = pi.path,
         sessionFiles'[pi.path] = sessionFiles[pi.path]
  PROVE  Current' = Current
BY DEF Current, Watched, entryVars

LEMMA QuestionsLeave ==
  ASSUME FInv, NEW o \in Rewriting, Types,
         GetState(o) \/ Abort(o) \/ ReadSession(o) \/ AnswerLost(o) \/ ReloadReturns(o)
  PROVE  Leaves(o)
<1>0. /\ o \in Slots /\ call[o].at \in Rewrites /\ call[o].path \in Paths
      /\ call[o].kind \in {"mutate", "fork"}
      /\ Files(o) /\ BackedUp(o) /\ Stage(o) /\ pi \in PiStates
  BY RewritingFacts DEF Types
<1>1. /\ sessionFiles' = sessionFiles /\ backups' = backups /\ pruned' = pruned /\ stopped' = stopped
      /\ astray' = astray /\ unwatched' = unwatched /\ agent' = agent /\ UNCHANGED entryVars
  BY <1>0, Untouched DEF fileVars, entryVars
<1>2. pi'.alive = pi.alive /\ pi'.path = pi.path /\ pi'.view = pi.view
  BY <1>0, Untouched DEF Abort, PiStates
<1>3. Current' = Current /\ Watched(pi.view)' = Watched(pi.view)
  BY <1>1, <1>2, SameCurrent DEF Watched
<1>4. ASSUME NEW l, NEW m, Goes(o, l, m), m # "changed"
      PROVE  /\ call[o].at = l /\ call'[o].at = m /\ call'[o].kind = call[o].kind
             /\ call'[o].path = call[o].path
             /\ m # "written" => call'[o].target = call[o].target /\ call'[o].after = call[o].after
  BY <1>4 DEF Goes
<1>5. ASSUME call'[o].path = call[o].path, call'[o].kind = call[o].kind
      PROVE  LastBackup(o)' = LastBackup(o) /\ Watched(LastBackup(o))' = Watched(LastBackup(o))
  BY <1>1, <1>5 DEF LastBackup, Watched
<1>6. CASE GetState(o)
  <2>1. CASE Ends(o)
    <3>1. Current \/ Strayed \/ ~pi.alive
      BY <1>0, <1>6 DEF GetState, Stage
    <3>2. pi' = pi
      BY <1>0, <1>6, Untouched
    <3> QED
      BY <1>1, <1>3, <2>1, <3>1, <3>2, StartValues DEF Leaves, Ends, Strayed
  <2>2. CASE Goes(o, "locked", "asked") /\ agent.runtime /\ pi.alive /\ pi.path = call[o].path
    <3>1. Files(o)'
      BY <1>0, <1>1, <1>2, <1>4, <2>2 DEF Files
    <3>2. BackedUp(o)'
      BY <1>4, <2>2 DEF BackedUp
    <3>3. Stage(o)'
      BY <1>0, <1>1, <1>2, <1>3, <1>4, <2>2 DEF Stage, Strayed
    <3> QED
      BY <1>0, <1>4, <2>2, <3>1, <3>2, <3>3, StartValues DEF Leaves
  <2> QED
    BY <1>0, <1>6, <2>1, <2>2, Going, Ending DEF GetState, Stages, Rewrites
<1>7. CASE Abort(o)
  <2>0. Current \/ ~pi.alive
    BY <1>0, <1>7 DEF Abort, Stage
  <2>1. CASE Ends(o)
    BY <1>1, <1>2, <1>3, <2>0, <2>1, StartValues DEF Leaves, Ends
  <2>2. CASE Goes(o, "asked", "settled") /\ pi.alive /\ pi'.mode \in {"idle", "goal"}
    <3>1. Files(o)'
      BY <1>0, <1>1, <1>2, <1>4, <2>2 DEF Files
    <3>2. BackedUp(o)'
      BY <1>4, <2>2 DEF BackedUp
    <3>3. Stage(o)'
      BY <1>0, <1>1, <1>2, <1>3, <1>4, <2>0, <2>2 DEF Stage
    <3> QED
      BY <1>0, <1>4, <2>2, <3>1, <3>2, <3>3, StartValues DEF Leaves
  <2> QED
    <3>1. CASE Finish(o)
      BY <1>0, <2>1, <3>1, Ending
    <3>2. CASE pi.alive /\ GoOn(o, "settled") /\ \E m \in {"idle", "goal"} : pi' = [pi EXCEPT !.mode = m]
      <4>1. Goes(o, "asked", "settled")
        BY <1>0, <1>7, <3>2, Going DEF Abort, Stages, Rewrites
      <4> QED
        BY <1>0, <2>2, <3>2, <4>1 DEF PiStates
    <3> QED
      BY <1>7, <3>1, <3>2 DEF Abort
<1>8. CASE ReadSession(o)
  <2>0. Current \/ ~pi.alive
    BY <1>0, <1>8 DEF ReadSession, Stage
  <2>1. CASE Ends(o)
    BY <1>1, <1>2, <1>3, <2>0, <2>1, StartValues DEF Leaves, Ends
  <2>2. ASSUME NEW left \in SUBSET sessionFiles[call[o].path],
               call' = [call EXCEPT ![o].at = "changed", ![o].target = call[o].path, ![o].after = left]
        PROVE  Leaves(o)
    <3>1. /\ call'[o].at = "changed" /\ call'[o].target = call[o].path /\ call'[o].after = left
          /\ call'[o].path = call[o].path /\ call'[o].kind = call[o].kind
      BY <1>0, <2>2 DEF Types, Calls
    <3>2. call[o].at = "settled"
      BY <1>8 DEF ReadSession
    <3>3. Files(o)'
      BY <1>0, <1>1, <1>2, <3>1, <3>2 DEF Files
    <3>4. BackedUp(o)'
      BY <1>1, <3>1 DEF BackedUp
    <3>5. pi' = pi
      BY <1>0, <1>8, Untouched
    <3>6. Stage(o)'
      BY <1>0, <1>3, <2>0, <3>1, <3>2, <3>5 DEF Stage
    <3> QED
      BY <3>1, <3>3, <3>4, <3>6, StartValues DEF Leaves
  <2> QED
    BY <1>0, <1>8, <2>1, <2>2, Ending DEF ReadSession
<1>9. CASE AnswerLost(o)
  <2>1. Goes(o, call[o].at, "uncertain") /\ call[o].at \in {"written", "switched", "cancelled"} /\ pi' = pi
    BY <1>0, <1>9, Ways, Untouched DEF AnswerLost
  <2>2. Files(o)'
    BY <1>0, <1>1, <1>2, <1>4, <2>1 DEF Files
  <2>3. BackedUp(o)'
    BY <1>4, <2>1 DEF BackedUp
  <2>4. Stage(o)'
    BY <1>0, <1>4, <2>1 DEF Stage
  <2> QED
    BY <1>0, <1>4, <2>1, <2>2, <2>3, <2>4, StartValues DEF Leaves
<1>10. CASE ReloadReturns(o)
  <2>0. Current \/ ~pi.alive
    BY <1>0, <1>10 DEF ReloadReturns, Stage
  <2>1. Ends(o)
    BY <1>0, <1>10, Ways
  <2> QED
    BY <1>1, <1>2, <1>3, <2>0, <2>1, StartValues DEF Leaves, Ends
<1> QED
  BY <1>6, <1>7, <1>8, <1>9, <1>10

LEMMA BackUpLeaves ==
  ASSUME FInv, NEW o \in Rewriting, Types, BackUpSession(o)
  PROVE  Leaves(o)
<1>0. /\ o \in Slots /\ call[o].path \in Paths /\ call[o].kind = "mutate" /\ call[o].at = "changed"
      /\ Files(o) /\ BackedUp(o) /\ Stage(o) /\ sessionFiles[call[o].path] # Missing
  BY RewritingFacts DEF BackUpSession
<1>1. /\ sessionFiles' = sessionFiles /\ stopped' = stopped /\ pi' = pi
      /\ astray' = astray /\ unwatched' = unwatched /\ agent' = agent /\ UNCHANGED entryVars
  BY <1>0, Untouched DEF entryVars
<1>2. Current' = Current
  BY <1>1, SameCurrent
<1>3. CASE Ends(o)
  BY <1>0, <1>1, <1>2, <1>3, StartValues DEF Leaves, Ends, Stage
<1>4. CASE /\ backups' = [backups EXCEPT ![call[o].path] = Append(@, sessionFiles[call[o].path])]
           /\ pruned' = [pruned EXCEPT ![call[o].path] =
                           Gone(Len(backups[call[o].path]) + 1, @)]
           /\ GoOn(o, "saved")
  <2>p. PICK p \in Paths : p = call[o].path
    BY <1>0
  <2>n. PICK n : n = Len(backups[p])
    OBVIOUS
  <2>1. Goes(o, "changed", "saved")
    BY <2>p, <2>n, <1>0, <1>4, Going DEF Goes, Stages, Rewrites
  <2>2. /\ call'[o].at = "saved" /\ call'[o].path = p /\ call'[o].kind = "mutate"
        /\ call'[o].target = call[o].target /\ call'[o].after = call[o].after
    BY <2>p, <2>n, <1>0, <2>1 DEF Goes
  <2>3. /\ backups'[p] = Append(backups[p], sessionFiles[p]) /\ Len(backups'[p]) = n + 1
        /\ backups'[p][n + 1] = sessionFiles[p] /\ n \in Nat
    <3>1. backups[p] \in Seq(SUBSET Entries) /\ sessionFiles[p] \in SUBSET Entries
      BY <2>p, <2>n, <1>0, BackupTypes, HistoryTypes
    <3>2. backups'[p] = Append(backups[p], sessionFiles[p])
      BY <2>p, <2>n, <1>0, <1>4 DEF Types
    <3> QED
      BY <2>p, <2>n, <3>1, <3>2, AppendProperties, LenProperties
  <2>4. LastBackup(o)' = sessionFiles[p]
    BY <2>p, <2>n, <2>2, <2>3 DEF LastBackup
  <2>5. pruned'[p] \in Nat /\ (pruned'[p] > 0 => n + 1 - pruned'[p] >= MaxBackups)
    <3>1. pruned'[p] = Gone(n + 1, pruned[p]) /\ pruned[p] \in Nat
      BY <2>p, <2>n, <1>0, <1>4 DEF Types
    <3>2. pruned[p] > 0 => n - pruned[p] >= MaxBackups - 1
      BY <2>p, <2>n, <1>0 DEF FInv, NothingIsLost
    <3> QED
      <4>1. PICK h \in Nat : h = pruned[p]
        BY <3>1
      <4>2. /\ n \in Nat /\ MaxBackups \in Nat \ {0}
            /\ h > 0 => n - h >= MaxBackups - 1
        BY <2>3, <2>n, <2>p, <3>2, <4>1, BackupsAreKept
      <4>3. /\ Gone(n + 1, h) \in Nat
            /\ Gone(n + 1, h) > 0 => n + 1 - Gone(n + 1, h) >= MaxBackups
        BY <4>1, <4>2 DEF Gone
      <4> QED
        BY <3>1, <4>1, <4>3
  <2>6. Files(o)'
    BY <2>p, <2>n, <1>0, <1>1, <2>2 DEF Files
  <2>7. BackedUp(o)'
    <3>1. call[o].after \subseteq sessionFiles[p]
      BY <2>p, <2>n, <1>0 DEF BackedUp
    <3> QED
      <4>1. /\ Len(backups'[p]) > 0
            /\ pruned'[p] > 0 => Len(backups'[p]) - pruned'[p] >= MaxBackups
        <5>1. n \in Nat /\ Len(backups'[p]) = n + 1
          BY <2>p, <2>n, <2>3
        <5> QED
          BY <2>5, <5>1, BackupsAreKept
      <4>2. /\ call'[o].after \subseteq LastBackup(o)' /\ LastBackup(o)' = sessionFiles'[call'[o].path]
            /\ call'[o].at = "saved"
        BY <2>p, <2>n, <1>1, <2>2, <2>4, <3>1
      <4> QED
        BY <2>p, <2>2, <4>1, <4>2 DEF BackedUp
  <2>8. Stage(o)'
    <3>1. pi.alive => pi.path = p /\ Current /\ pi.mode \notin {"turn", "retry"}
      BY <2>p, <2>n, <1>0 DEF Files, Stage
    <3>2. pi.alive => Watched(pi.view)' = Watched(LastBackup(o))'
      BY <2>p, <2>n, <1>1, <2>4, <3>1 DEF Current, Watched
    <3> QED
      BY <2>p, <2>n, <1>1, <1>2, <2>2, <3>1, <3>2 DEF Stage
  <2> QED
    BY <2>p, <2>n, <2>2, <2>6, <2>7, <2>8, StartValues DEF Leaves
<1> QED
  BY <1>0, <1>3, <1>4, Ending DEF BackUpSession

LEMMA ReplaceLeaves ==
  ASSUME FInv, NEW o \in Rewriting, Types, ReplaceSession(o)
  PROVE  Leaves(o)
<1>0. /\ o \in Slots /\ call[o].path \in Paths /\ call[o].kind = "mutate" /\ call[o].at = "saved"
      /\ Files(o) /\ BackedUp(o) /\ Stage(o) /\ call[o].after \in SUBSET Entries
  BY RewritingFacts DEF ReplaceSession
<1>1. /\ stopped' = stopped /\ pi' = pi /\ pruned' = pruned
      /\ astray' = astray /\ unwatched' = unwatched /\ agent' = agent /\ UNCHANGED entryVars
  BY <1>0, Untouched DEF entryVars
<1>2. CASE Finish(o) /\ UNCHANGED sessionFiles
  <2>1. Current' = Current
    BY <1>1, <1>2, SameCurrent
  <2> QED
    BY <1>0, <1>1, <1>2, <2>1, Ending, StartValues DEF Leaves, Ends, Stage
<1>3. CASE /\ sessionFiles' = [sessionFiles EXCEPT ![call[o].path] = call[o].after]
           /\ GoOn(o, "written") /\ UNCHANGED backups
  <2>1. Goes(o, "saved", "written")
    BY <1>0, <1>3, Going DEF Goes, Stages, Rewrites
  <2>2. /\ call'[o].at = "written" /\ call'[o].path = call[o].path /\ call'[o].kind = "mutate"
        /\ call'[o].target = call[o].target /\ call'[o].after = call[o].after
    BY <1>0, <2>1 DEF Goes
  <2>3. sessionFiles'[call[o].path] # Missing
    BY <1>0, <1>3, MissingIsNotAHistory DEF Types
  <2>4. LastBackup(o)' = LastBackup(o)
    BY <1>3, <2>2 DEF LastBackup
  <2>5. Files(o)'
    BY <1>0, <1>1, <2>2, <2>3 DEF Files
  <2>6. BackedUp(o)'
    BY <1>0, <1>3, <2>2, <2>4 DEF BackedUp
  <2>7. Stage(o)'
    BY <1>0, <1>1, <2>2, <2>4 DEF Stage, Watched
  <2> QED
    BY <2>2, <2>5, <2>6, <2>7, StartValues DEF Leaves
<1> QED
  BY <1>2, <1>3 DEF ReplaceSession

LEMMA ForkLeaves ==
  ASSUME FInv, NEW o \in Rewriting, Types, NEW q \in Paths, ForkHistory(o, q)
  PROVE  Leaves(o)
<1>0. /\ o \in Slots /\ call[o].path \in Paths /\ call[o].kind = "fork" /\ call[o].at = "settled"
      /\ Files(o) /\ BackedUp(o) /\ Stage(o) /\ sessionFiles[call[o].path] # Missing
      /\ sessionFiles[q] = Missing
  BY RewritingFacts DEF ForkHistory
<1>1. /\ stopped' = stopped /\ pi' = pi /\ pruned' = pruned /\ backups' = backups
      /\ astray' = astray /\ unwatched' = unwatched /\ agent' = agent /\ UNCHANGED entryVars
  BY <1>0, Untouched DEF entryVars
<1>2. pi.alive => pi.path = call[o].path /\ Current /\ pi.mode \notin {"turn", "retry"}
  BY <1>0 DEF Files, Stage
<1>3. CASE Finish(o) /\ UNCHANGED sessionFiles
  <2>1. Current' = Current
    BY <1>1, <1>3, SameCurrent
  <2> QED
    BY <1>0, <1>1, <1>2, <1>3, <2>1, Ending, StartValues DEF Leaves, Ends
<1>4. ASSUME NEW part \in SUBSET sessionFiles[call[o].path],
             sessionFiles' = [sessionFiles EXCEPT ![q] = part],
             call' = [call EXCEPT ![o].at = "written", ![o].target = q]
      PROVE  Leaves(o)
  <2>1. /\ call'[o].at = "written" /\ call'[o].target = q
        /\ call'[o].path = call[o].path /\ call'[o].kind = "fork"
    BY <1>0, <1>4 DEF Types, Calls
  <2>2. q # call[o].path /\ q \notin stopped
    BY <1>0 DEF FInv, PiHasFile
  <2>3. sessionFiles[call[o].path] \in SUBSET Entries
    BY <1>0, HistoryTypes
  <2>4. part # Missing
    BY <2>3, MissingIsNotAHistory
  <2>5. sessionFiles'[q] = part /\ sessionFiles'[call[o].path] = sessionFiles[call[o].path]
    BY <1>0, <1>4, <2>2 DEF Types
  <2>6. Files(o)'
    BY <1>0, <1>1, <1>2, <2>1, <2>2, <2>4, <2>5 DEF Files
  <2>7. BackedUp(o)'
    BY <2>1 DEF BackedUp
  <2>8. Stage(o)'
    <3>1. pi.alive => Current'
      BY <1>1, <1>2, <2>5, SameCurrent
    <3> QED
      BY <1>1, <1>2, <2>1, <3>1 DEF Stage
  <2> QED
    BY <2>1, <2>6, <2>7, <2>8, StartValues DEF Leaves
<1> QED
  BY <1>3, <1>4 DEF ForkHistory

LEMMA SwitchLeaves ==
  ASSUME FInv, NEW o \in Rewriting, Types, PiSwitches(o)
  PROVE  Leaves(o)
<1>0. /\ o \in Slots /\ call[o].path \in Paths /\ call[o].at \in {"written", "uncertain"}
      /\ call[o].kind \in {"mutate", "fork"} /\ call[o].target \in Paths
      /\ Files(o) /\ BackedUp(o) /\ Stage(o) /\ sessionFiles[call[o].path] # Missing
      /\ sessionFiles[call[o].target] # Missing /\ pi.alive
  BY RewritingFacts DEF PiSwitches, Files
<1>1. /\ stopped' = stopped /\ pruned' = pruned /\ backups' = backups /\ sessionFiles' = sessionFiles
      /\ astray' = astray /\ unwatched' = unwatched /\ agent' = agent /\ UNCHANGED entryVars
  BY <1>0, Untouched DEF entryVars, fileVars
<1>2. CASE call[o].at = "written" /\ GoOn(o, "cancelled") /\ UNCHANGED pi
  <2>1. Goes(o, "written", "cancelled")
    BY <1>2, Ways, <1>0, Going DEF Goes, Stages, Rewrites
  <2>2. /\ call'[o].at = "cancelled" /\ call'[o].path = call[o].path /\ call'[o].kind = call[o].kind
        /\ call'[o].target = call[o].target /\ call'[o].after = call[o].after
    BY <2>1 DEF Goes
  <2>3. LastBackup(o)' = LastBackup(o) /\ Current' = Current
    BY <1>1, <1>2, <2>2, SameCurrent DEF LastBackup
  <2>4. Files(o)'
    BY <1>0, <1>1, <1>2, <2>2 DEF Files
  <2>5. BackedUp(o)'
    BY <1>0, <1>1, <1>2, <2>2, <2>3 DEF BackedUp
  <2>6. Stage(o)'
    BY <1>0, <1>1, <1>2, <2>2, <2>3 DEF Stage, Watched
  <2> QED
    BY <1>0, <2>2, <2>4, <2>5, <2>6, StartValues DEF Leaves
<1>3. CASE /\ pi' = [pi EXCEPT !.path = call[o].target, !.view = sessionFiles[call[o].target],
                         !.mode = IF @ \in {"goal", "own"} THEN "goal" ELSE "idle"]
           /\ IF call[o].at = "written" THEN GoOn(o, "switched") ELSE UNCHANGED call
  <2>1. /\ pi'.path = call[o].target /\ pi'.view = sessionFiles[call[o].target]
        /\ pi'.mode \in {"goal", "idle"} /\ pi'.alive
    BY <1>0, <1>3 DEF Types, PiStates
  <2>2. Current'
    BY <1>1, <2>1 DEF Current, Watched
  <2>3. /\ call'[o].at \in {"switched", "uncertain"} /\ call'[o].path = call[o].path
        /\ call'[o].kind = call[o].kind /\ call'[o].target = call[o].target
    <3>1. CASE call[o].at = "written"
      <4>1. Goes(o, "written", "switched")
        BY <1>0, <1>3, <3>1, Going DEF Stages, Rewrites
      <4> QED
        BY <4>1 DEF Goes
    <3>2. CASE call[o].at = "uncertain"
      BY <1>3, <3>2
    <3> QED
      BY <1>0, <3>1, <3>2
  <2>4. Files(o)'
    BY <1>0, <1>1, <2>1, <2>3 DEF Files
  <2>5. BackedUp(o)'
    BY <2>3 DEF BackedUp
  <2>6. Stage(o)'
    BY <2>1, <2>2, <2>3 DEF Stage
  <2> QED
    BY <1>0, <2>3, <2>4, <2>5, <2>6, StartValues DEF Leaves
<1> QED
  BY <1>2, <1>3 DEF PiSwitches

LEMMA CancelLeaves ==
  ASSUME FInv, NEW o \in Rewriting, Types, SwitchCancelled(o)
  PROVE  Leaves(o)
<1>0. /\ o \in Slots /\ call[o].path \in Paths /\ call[o].at = "cancelled"
      /\ call[o].kind \in {"mutate", "fork"} /\ call[o].target \in Paths
      /\ Files(o) /\ BackedUp(o) /\ Stage(o) /\ sessionFiles[call[o].path] # Missing
      /\ sessionFiles[call[o].target] # Missing
  BY RewritingFacts DEF SwitchCancelled, Files
<1>1. /\ stopped' = stopped /\ pruned' = pruned /\ backups' = backups /\ pi' = pi
      /\ astray' = astray /\ unwatched' = unwatched /\ agent' = agent /\ UNCHANGED entryVars
  BY <1>0, Untouched DEF entryVars
<1>2. CASE /\ call[o].kind = "mutate" /\ UNCHANGED sessionFiles
           /\ \/ sessionFiles[call[o].path] = call[o].after /\ GoOn(o, "restoring")
              \/ GoOn(o, "uncertain")
  <2>1. PICK m \in {"restoring", "uncertain"} :
          GoOn(o, m) /\ (m = "restoring" => sessionFiles[call[o].path] = call[o].after)
    BY <1>2
  <2>2. m \in Stages
    BY DEF Stages, Rewrites
  <2>3. Goes(o, "cancelled", m)
    BY <1>0, <2>1, <2>2, Going
  <2>4. /\ call'[o].at = m /\ call'[o].path = call[o].path /\ call'[o].kind = "mutate"
        /\ call'[o].target = call[o].target /\ call'[o].after = call[o].after
    BY <1>2, <2>3 DEF Goes
  <2>5. LastBackup(o)' = LastBackup(o)
    BY <1>1, <2>4 DEF LastBackup
  <2>6. Files(o)'
    BY <1>0, <1>1, <1>2, <2>4 DEF Files
  <2>7. BackedUp(o)'
    BY <1>0, <1>1, <1>2, <2>1, <2>4, <2>5 DEF BackedUp
  <2>8. Stage(o)'
    BY <1>0, <1>1, <1>2, <2>4, <2>5 DEF Stage, Watched
  <2> QED
    BY <2>4, <2>6, <2>7, <2>8, StartValues DEF Leaves
<1>3. CASE /\ call[o].kind = "fork" /\ Finish(o)
           /\ \/ sessionFiles' = [sessionFiles EXCEPT ![call[o].target] = Missing]
              \/ UNCHANGED sessionFiles
  <2>1. pi.alive => pi.path # call[o].target /\ Current
    BY <1>0, <1>3 DEF Files, Stage
  <2>2. ASSUME pi.alive PROVE Current'
    <3>1. sessionFiles'[pi.path] = sessionFiles[pi.path]
      <4>1. CASE sessionFiles' = [sessionFiles EXCEPT ![call[o].target] = Missing]
        <5>1. sessionFiles \in [Paths -> (SUBSET Entries) \cup {Missing}] /\ pi.path # call[o].target
          BY <2>1, <2>2 DEF Types
        <5>2. pi.path \in Paths
          BY <2>2 DEF FInv, PiHasFile
        <5> QED
          BY <4>1, <5>1, <5>2
      <4> QED
        BY <1>3, <4>1
    <3> QED
      <4>1. Current' = Current
        BY <1>1, <3>1, SameCurrent
      <4> QED
        BY <2>1, <2>2, <4>1
  <2>3. call'[o] = Free
    BY <1>0, <1>3, Ending DEF Ends
  <2> QED
    BY <1>1, <2>2, <2>3, StartValues DEF Leaves
<1> QED
  BY <1>2, <1>3 DEF SwitchCancelled

LEMMA RestoreLeaves ==
  ASSUME FInv, NEW o \in Rewriting, Types, RestoreSession(o)
  PROVE  Leaves(o)
<1>0. /\ o \in Slots /\ call[o].path \in Paths /\ call[o].at = "restoring" /\ call[o].kind = "mutate"
      /\ Files(o) /\ BackedUp(o) /\ Stage(o) /\ sessionFiles[call[o].path] # Missing
  BY RewritingFacts DEF RestoreSession
<1>1. /\ stopped' = stopped /\ pruned' = pruned /\ backups' = backups /\ pi' = pi
      /\ astray' = astray /\ unwatched' = unwatched /\ agent' = agent /\ UNCHANGED entryVars
  BY <1>0, Untouched DEF entryVars
<1>2. CASE GoOn(o, "uncertain") /\ UNCHANGED sessionFiles
  <2>1. Goes(o, "restoring", "uncertain")
    BY <1>0, <1>2, Going DEF Stages, Rewrites
  <2>2. /\ call'[o].at = "uncertain" /\ call'[o].path = call[o].path /\ call'[o].kind = "mutate"
        /\ call'[o].target = call[o].target
    BY <1>0, <2>1 DEF Goes
  <2>3. Files(o)'
    BY <1>0, <1>1, <1>2, <2>2 DEF Files
  <2>4. BackedUp(o)' /\ Stage(o)'
    BY <1>0, <1>1, <2>2 DEF BackedUp, Stage
  <2> QED
    BY <2>2, <2>3, <2>4, StartValues DEF Leaves
<1>3. CASE Finish(o) /\ sessionFiles' = [sessionFiles EXCEPT ![call[o].path] = LastBackup(o)]
  <2>1. pi.alive => pi.path = call[o].path /\ Watched(pi.view) = Watched(LastBackup(o))
    BY <1>0 DEF Files, Stage
  <2>2. sessionFiles'[call[o].path] = LastBackup(o)
    BY <1>0, <1>3 DEF Types
  <2>3. pi.alive => Current'
    BY <1>1, <2>1, <2>2 DEF Current, Watched
  <2> QED
    BY <1>0, <1>1, <1>3, <2>3, Ending, StartValues DEF Leaves, Ends
<1> QED
  BY <1>2, <1>3 DEF RestoreSession, LastBackup

LEMMA EditsLeave ==
  ASSUME FInv, NEW o \in Rewriting, Edits(o)
  PROVE  Leaves(o)
<1>1. Types /\ o \in Slots
  BY DEF FInv, Rewriting
<1>2. CASE stopUncertainSession(o)
  <2>1. ~pi'.alive \/ Strayed'
    <3>1. NoPi.alive = FALSE /\ agent \in [runtime : BOOLEAN, stopFailed : BOOLEAN]
      BY <1>1 DEF NoPi, Types
    <3>2. ~pi'.alive \/ (~agent'.runtime /\ pi' = pi)
      BY <1>2, <3>1 DEF stopUncertainSession
    <3>3. call[o].at = "uncertain" /\ Sharing = {} /\ PiHasFile
      BY <1>2 DEF stopUncertainSession, FInv, Alone
    <3>4. pi.alive => pi.mode \notin {"turn", "retry"}
      BY <3>3, RewritingFacts DEF Stage
    <3>5. pi.bash \subseteq {Left}
      BY <1>1, <3>3, PiFields DEF PiHasFile, Sharing
    <3> QED
      BY <3>2, <3>4, <3>5 DEF Strayed
  <2>2. call'[o] = Free
    BY <1>1, <1>2, Ways DEF Ends
  <2> QED
    BY <2>1, <2>2, StartValues DEF Leaves
<1> QED
  BY <1>1, <1>2, QuestionsLeave, BackUpLeaves, ReplaceLeaves, ForkLeaves, SwitchLeaves, CancelLeaves,
     RestoreLeaves DEF Edits

(* A history operation begins with Rewrite, and stays until it ends.       *)
LEMMA Beginners ==
  ASSUME Types, AgentNext, NEW o \in Slots
  PROVE  \/ call'[o].kind = call[o].kind
         \/ call'[o] = Free /\ \A x \in Slots : x # o => call'[x] = call[x]
         \/ call'[o].kind \notin {"mutate", "fork"} /\ call[o] = Free
         \/ \E k \in {"mutate", "fork"}, p \in Paths : Rewrite(o, k, p)
<1>1. ASSUME NEW x \in Slots, (\E l, m : Goes(x, l, m)) \/ Ends(x)
      PROVE  \/ call'[o].kind = call[o].kind
             \/ call'[o] = Free /\ \A y \in Slots : y # o => call'[y] = call[y]
  BY <1>1 DEF Goes, Ends, Others
<1>2. ASSUME NEW x \in Slots, NEW p \in Paths, StartSession(x, p)
      PROVE  call'[o].kind = call[o].kind \/ (call'[o].kind \notin {"mutate", "fork"} /\ call[o] = Free)
  <2>1. Begins(x, "admitted", "start") /\ call[x] = Free
    BY <1>2, Ways DEF StartSession
  <2> QED
    BY <2>1 DEF Begins, Others
<1>3. ASSUME NEW x \in Slots, NEW k \in {"prompt", "bash"}, callWithContext(x, k)
      PROVE  call'[o].kind = call[o].kind \/ (call'[o].kind \notin {"mutate", "fork"} /\ call[o] = Free)
  <2>1. Begins(x, "calling", k) /\ call[x] = Free
    BY <1>3, Ways DEF callWithContext
  <2> QED
    BY <2>1 DEF Begins, Others
<1>4. ASSUME NEW x \in Slots, NEW k \in {"mutate", "fork"}, NEW p \in Paths, Rewrite(x, k, p), x # o
      PROVE  call'[o].kind = call[o].kind
  <2>1. Begins(x, "locked", k)
    BY <1>4, Ways
  <2> QED
    BY <1>4, <2>1 DEF Begins, Others
<1>5. ASSUME NEW x \in Slots, MaintainPi(x) \/ ServiceShutdown(x)
      PROVE  call'[o].kind = call[o].kind \/ (call'[o].kind \notin {"mutate", "fork"} /\ call[o] = Free)
  <2>1. /\ Begins(x, "prepare", "maintain") \/ Begins(x, "quit", "quit")
        /\ call[x] = Free
    BY <1>5, Ways DEF MaintainPi, ServiceShutdown
  <2> QED
    BY <2>1 DEF Begins, Others
<1>6. ASSUME NEW x \in Slots, AdmitStart(x) \/ SpawnPi(x) \/ StartReturns(x) \/ CallReturns(x) \/ Maintains(x)
      PROVE  (\E l, m : Goes(x, l, m)) \/ Ends(x)
  BY <1>6, Ways DEF Maintains
<1>7. ASSUME NEW x \in Slots, Edits(x)
      PROVE  (\E l, m : Goes(x, l, m)) \/ Ends(x) \/ UNCHANGED call
  BY <1>7, Ways DEF Edits
<1> QED
  BY <1>1, <1>2, <1>3, <1>4, <1>5, <1>6, <1>7, Steps

LEMMA RewritingStep ==
  ASSUME FInv, AgentNext, NEW o \in Rewriting'
  PROVE  Files(o)' /\ BackedUp(o)' /\ Stage(o)'
<1>t. Types /\ Between /\ o \in Slots /\ call'[o].kind \in {"mutate", "fork"}
  BY DEF FInv, Rewriting
<1>1. CASE o \in Rewriting
  BY <1>t, <1>1, OthersBeside, BesideKeeps, GrowthKeeps, EditsLeave DEF Leaves
<1>2. ASSUME NEW k \in {"mutate", "fork"}, NEW p \in Paths, Rewrite(o, k, p)
      PROVE  Files(o)' /\ BackedUp(o)' /\ Stage(o)'
  <2>1. call'[o].at = "locked" /\ call'[o].path = p
    BY <1>t, <1>2, Ways DEF Begins
  <2>2. /\ sessionFiles[p] # Missing /\ Rewriting = {}
        /\ UNCHANGED <<pi, stopped, fileVars, agent, entryVars>>
    BY <1>2 DEF Rewrite
  <2>3. /\ pi' = pi /\ agent' = agent /\ sessionFiles' = sessionFiles
        /\ Current' = Current
    BY <2>2, SameCurrent DEF fileVars
  <2>4. Files(o)'
    BY <2>1, <2>2, <2>3 DEF Files
  <2>5. BackedUp(o)'
    BY <2>1 DEF BackedUp
  <2>6. Stage(o)'
    BY <1>t, <2>1, <2>2, <2>3 DEF Stage, Between, Strayed
  <2> QED
    BY <2>4, <2>5, <2>6
<1> QED
  BY <1>t, <1>1, <1>2, Beginners, StartValues DEF Rewriting

(* Steps that neither write to a file nor change what Pi knows.            *)
LEMMA QuietCurrent ==
  ASSUME UNCHANGED <<sessionFiles, entryVars>>, pi'.view = pi.view, pi'.path = pi.path
  PROVE  Current' = Current
BY DEF Current, Watched, entryVars

LEMMA RuntimeGoes ==
  ASSUME Types, AgentNext
  PROVE  /\ agent'.runtime => agent.runtime
         /\ agent'.stopFailed => agent.stopFailed \/ \E o \in Slots : stopUncertainSession(o)
<1>t. agent \in [runtime : BOOLEAN, stopFailed : BOOLEAN]
  BY DEF Types
<1>1. PiSteps => UNCHANGED agent
  BY DEF PiSteps, PiWorks, PiWrites, PiRests, PiExits, StoppedPiWrites, StoppedPiEnds
<1>2. ASSUME NEW o \in Slots, Maintains(o)
      PROVE  (agent'.runtime => agent.runtime) /\ agent'.stopFailed = agent.stopFailed
  BY <1>t, <1>2 DEF Maintains, preparePiMaintenance, StopEverything, MaintainerReturns, WithdrawRuntime,
                    Shutdown
<1>3. ASSUME NEW o \in Slots, stopUncertainSession(o) PROVE agent'.runtime = agent.runtime
  BY <1>t, <1>3 DEF stopUncertainSession
<1>4. ASSUME UNCHANGED agent PROVE agent'.runtime = agent.runtime /\ agent'.stopFailed = agent.stopFailed
  BY <1>4
<1>5. \/ UNCHANGED agent \/ \E o \in Slots : Maintains(o) \/ stopUncertainSession(o)
  BY <1>1, Steps, Untouched DEF Edits
<1> QED
  BY <1>2, <1>3, <1>4, <1>5

(* What Pi knows between history operations.                               *)
LEMMA ViewChanges ==
  ASSUME Types, PiHasFile, AgentNext, Rewriting = {}, pi'.alive, Kinds
  PROVE  \/ PiWorks \/ \E p \in Paths : StoppedPiWrites(p)
         \/ UNCHANGED <<sessionFiles, entryVars>> /\ pi.alive /\ pi'.view = pi.view /\ pi'.path = pi.path
         \/ UNCHANGED <<sessionFiles, entryVars>> /\ pi'.view = sessionFiles[pi'.path]
<1>t. pi \in PiStates /\ NoPi.alive = FALSE /\ NoPi.mode = "idle"
  BY DEF Types, NoPi
<1> DEFINE Same == /\ UNCHANGED <<sessionFiles, entryVars>> /\ pi.alive
                   /\ pi'.view = pi.view /\ pi'.path = pi.path
<1>0. ASSUME UNCHANGED <<pi, sessionFiles, entryVars>> PROVE Same
  BY <1>0
<1>1. CASE PiSteps
  <2>1. CASE PiRests \/ PiExits \/ \E p \in Paths : StoppedPiEnds(p)
    <3>1. UNCHANGED <<sessionFiles, entryVars>>
      BY <2>1 DEF PiRests, PiExits, StoppedPiEnds, fileVars
    <3>2. pi.alive \/ pi' = pi
      BY <1>t, <2>1 DEF PiRests, PiExits, StoppedPiEnds, PiHasFile
    <3>3. pi'.view = pi.view /\ pi'.path = pi.path
      BY <1>t, <2>1 DEF PiRests, PiExits, StoppedPiEnds, PiLeaves, PiStates
    <3> QED
      BY <3>1, <3>2, <3>3
  <2> QED
    BY <1>1, <2>1 DEF PiSteps
<1>2. ASSUME NEW o \in Slots, SpawnPi(o) PROVE Same \/ (UNCHANGED <<sessionFiles, entryVars>> /\ pi'.view = sessionFiles[pi'.path])
  <2>1. UNCHANGED <<sessionFiles, entryVars>>
    BY <1>2, Untouched DEF fileVars
  <2>2. CASE UNCHANGED pi
    BY <2>1, <2>2
  <2>3. CASE pi' = [alive |-> TRUE, by |-> o, path |-> call[o].path,
                    view |-> sessionFiles[call[o].path], mode |-> "idle", bash |-> {}]
    BY <2>1, <2>3
  <2> QED
    BY <1>2, <2>2, <2>3 DEF SpawnPi
<1>3. ASSUME NEW o \in Slots,
             \/ StopSession(o) \/ StartReturns(o) \/ CallReturns(o) \/ Maintains(o)
             \/ \E k \in {"prompt", "bash"} : callWithContext(o, k)
      PROVE  Same
  <2>1. UNCHANGED <<sessionFiles, entryVars>>
    BY <1>3, Untouched DEF fileVars
  <2>2. pi' # NoPi
    BY <1>t
  <2>3. pi.alive /\ pi'.view = pi.view /\ pi'.path = pi.path
    <3>1. \/ pi' = pi
          \/ \E b \in Slots \cup {Left} : pi' = [pi EXCEPT !.by = b]
          \/ \E b \in SUBSET (Slots \cup {Left}) : pi' = [pi EXCEPT !.bash = b]
          \/ pi' = [pi EXCEPT !.mode = "turn"]
      <4>1. CASE StartReturns(o)
        <5>1. (IF pi.by = o THEN Left ELSE pi.by) \in Slots \cup {Left}
          BY PiFields
        <5> QED
          BY <2>2, <4>1, <5>1 DEF StartReturns, PiLeaves
      <4>2. CASE CallReturns(o)
        <5>1. (IF o \in pi.bash THEN (pi.bash \ {o}) \cup {Left} ELSE pi.bash) \in SUBSET (Slots \cup {Left})
          BY PiFields
        <5> QED
          BY <4>2, <5>1 DEF CallReturns
      <4>3. ASSUME NEW k \in {"prompt", "bash"}, callWithContext(o, k)
            PROVE  \/ pi' = [pi EXCEPT !.mode = "turn"]
                   \/ \E b \in SUBSET (Slots \cup {Left}) : pi' = [pi EXCEPT !.bash = b]
        <5>1. pi.bash \cup {o} \in SUBSET (Slots \cup {Left})
          BY PiFields
        <5> QED
          BY <4>3, <5>1 DEF callWithContext
      <4>4. CASE StopSession(o) \/ Maintains(o)
        BY <2>2, <4>4 DEF StopSession, Maintains, preparePiMaintenance, StopEverything, MaintainerReturns,
                          WithdrawRuntime, Shutdown, PiLeaves
      <4> QED
        BY <1>3, <4>1, <4>2, <4>3, <4>4
    <3>2. pi'.alive = pi.alive /\ pi'.view = pi.view /\ pi'.path = pi.path
      BY <1>t, <3>1 DEF PiStates
    <3> QED
      BY <3>2
  <2> QED
    BY <2>1, <2>3
<1>4. ASSUME NEW o \in Slots,
             \/ (\E p \in Paths : StartSession(o, p)) \/ AdmitStart(o) \/ MaintainPi(o) \/ ServiceShutdown(o)
             \/ \E k \in {"mutate", "fork"}, p \in Paths : Rewrite(o, k, p)
      PROVE  Same
  <2>1. UNCHANGED <<pi, sessionFiles, entryVars>>
    BY <1>4, Untouched DEF fileVars
  <2> QED
    BY <1>0, <2>1
<1>5. ASSUME NEW o \in Slots, Edits(o) PROVE FALSE
  BY <1>5, Editing
<1> QED
  BY <1>1, <1>2, <1>3, <1>4, <1>5, Steps

(* Nothing is begun any more by a Pi that lost track.                      *)
LEMMA StrayedStays ==
  ASSUME Types, Kinds, PiHasFile, Maintained, AgentNext, Rewriting = {}, Strayed, pi.alive, pi'.alive
  PROVE  Strayed'
<1>t. pi \in PiStates /\ NoPi.alive = FALSE
  BY DEF Types, NoPi
<1>0. ~agent'.runtime
  BY RuntimeGoes DEF Strayed
<1>s. ASSUME pi' = pi PROVE Strayed'
  BY <1>0, <1>s DEF Strayed
<1>1. CASE PiSteps
  <2>1. CASE PiWorks
    BY <1>0, <2>1, PiGrows DEF Growth, Strayed
  <2>2. CASE PiRests
    BY <1>0, <1>t, <2>2 DEF PiRests, Strayed, PiStates
  <2> QED
    BY <1>1, <1>s, <1>t, <2>1, <2>2 DEF PiSteps, PiExits, PiLeaves, StoppedPiWrites, StoppedPiEnds
<1>2. ASSUME NEW o \in Slots, SpawnPi(o) PROVE FALSE
  BY <1>2 DEF SpawnPi, Maintained, Starting, Strayed
<1>3. ASSUME NEW o \in Slots, NEW k \in {"prompt", "bash"}, callWithContext(o, k) PROVE FALSE
  BY <1>3 DEF callWithContext, Strayed
<1>4. ASSUME NEW o \in Slots, StartReturns(o) PROVE Strayed'
  BY <1>0, <1>t, <1>4 DEF StartReturns, PiLeaves, Strayed, PiStates
<1>5. ASSUME NEW o \in Slots, CallReturns(o) PROVE Strayed'
  BY <1>0, <1>t, <1>5 DEF CallReturns, Strayed, PiStates
<1>6. ASSUME NEW o \in Slots, Edits(o) PROVE FALSE
  BY <1>6, Editing
<1>7. ASSUME NEW o \in Slots, Maintains(o) \/ StopSession(o) PROVE pi' = pi
  BY <1>t, <1>7 DEF Maintains, preparePiMaintenance, StopEverything, MaintainerReturns, WithdrawRuntime, Shutdown,
                    StopSession, PiLeaves
<1> QED
  BY <1>s, <1>1, <1>2, <1>3, <1>4, <1>5, <1>6, <1>7, Steps, Untouched

LEMMA BetweenStep == FInv /\ [AgentNext]_agentVars => Between'
<1> SUFFICES ASSUME FInv, Types, Kinds, Alone, PiHasFile, Between, AgentNext PROVE Between'
  <2>1. CASE UNCHANGED agentVars
    BY <2>1 DEF FInv, agentVars, fileVars, entryVars, Between, Rewriting, Current, Watched,
                Strayed
  <2> QED
    BY <2>1 DEF FInv
<1>1. ASSUME pi'.alive, agent'.runtime, agent'.stopFailed PROVE FALSE
  <2>1. CASE \E o \in Slots : stopUncertainSession(o)
    BY <1>1, <2>1, RuntimeGoes DEF stopUncertainSession, NoPi
  <2>2. CASE agent.stopFailed
    <3>1. Sharing = {} /\ agent.runtime
      BY <1>1, <2>2, RuntimeGoes DEF Alone
    <3>2. ~(\E o \in Slots : SpawnPi(o))
      BY <3>1 DEF SpawnPi, Sharing
    <3> QED
      BY <1>1, <2>2, <3>1, <3>2, PiBegins DEF Between
  <2> QED
    BY <1>1, <2>1, <2>2, RuntimeGoes
<1>2. ASSUME pi'.alive, Rewriting' = {} PROVE Current' \/ Strayed'
  <2>1. CASE Rewriting = {}
    <3>1. CASE PiWorks \/ \E p \in Paths : StoppedPiWrites(p)
      <4>1. pi.alive
        BY <1>2, <3>1, PiGrows, StoppedGrows
      <4>2. Current => Current'
        BY <3>1, <4>1, CurrentGrows
      <4>3. Strayed => Strayed'
        BY <3>1, <4>1, PiGrows, StoppedGrows DEF Growth, Strayed
      <4> QED
        BY <2>1, <4>1, <4>2, <4>3 DEF Between
    <3>2. CASE UNCHANGED <<sessionFiles, entryVars>> /\ pi.alive /\ pi'.view = pi.view /\ pi'.path = pi.path
      BY <1>2, <2>1, <3>2, QuietCurrent, StrayedStays DEF Between, FInv
    <3>3. CASE UNCHANGED <<sessionFiles, entryVars>> /\ pi'.view = sessionFiles[pi'.path]
      BY <3>3 DEF Current, Watched
    <3> QED
      BY <1>2, <2>1, <3>1, <3>2, <3>3, ViewChanges
  <2>2. ASSUME NEW o \in Rewriting PROVE Current' \/ Strayed'
    <3>1. o \in Slots /\ call[o].kind \in {"mutate", "fork"} /\ call'[o].kind \notin {"mutate", "fork"}
      BY <1>2, <2>2 DEF Rewriting
    <3>2. Edits(o)
      BY <2>2, <3>1, OthersBeside DEF Beside
    <3>3. call'[o] = Free
      <4>1. call[o] # Free
        BY <3>1, StartValues
      <4> QED
        BY <3>1, <4>1, Beginners DEF Rewrite
    <3> QED
      BY <1>2, <2>2, <3>2, <3>3, EditsLeave DEF Leaves
  <2> QED
    BY <2>1, <2>2
<1> QED
  BY <1>1, <1>2 DEF Between

-----------------------------------------------------------------------------
(* Nothing is lost                                                         *)

(* Where an entry is found.                                                *)
Found(e, current, saved) ==
  \E p \in Paths : \/ current[p] # Missing /\ e \in current[p]
                   \/ \E i \in DOMAIN saved[p] : e \in saved[p][i]

Enough(p) == pruned[p] > 0 => Len(backups[p]) - pruned[p] >= MaxBackups - 1

LEMMA LostSplits ==
  NothingIsLost <=> /\ \A e \in Entries \ unwatched : Found(e, sessionFiles, backups)
                    /\ \A p \in Paths : Enough(p)
BY DEF NothingIsLost, Found, Enough, Entries

LEMMA LostSplitsThen ==
  NothingIsLost' <=> /\ \A e \in Entries' \ unwatched' : Found(e, sessionFiles', backups')
                     /\ \A p \in Paths : Enough(p)'
BY DEF NothingIsLost, Found, Enough, Entries

(* What a step does not take away stays found.                             *)
LEMMA StillFound ==
  ASSUME NEW e, Found(e, sessionFiles, backups),
         \A p \in Paths : sessionFiles[p] # Missing /\ e \in sessionFiles[p] => Found(e, sessionFiles', backups'),
         \A p \in Paths : \A i \in DOMAIN backups[p] : e \in backups[p][i] => Found(e, sessionFiles', backups')
  PROVE  Found(e, sessionFiles', backups')
BY DEF Found

LEMMA QuietLosesNothing ==
  ASSUME NothingIsLost, UNCHANGED <<fileVars, entryVars>>
  PROVE  NothingIsLost'
BY DEF NothingIsLost, fileVars, entryVars

LEMMA GrowthLosesNothing ==
  ASSUME Types, PiHasFile, NothingIsLost, PiWorks \/ \E p \in Paths : StoppedPiWrites(p)
  PROVE  NothingIsLost'
<1>1. PICK p \in Paths : Growth(p)
  BY PiGrows, StoppedGrows DEF Growth
<1>2. ASSUME NEW e \in Entries' \ unwatched' PROVE Found(e, sessionFiles', backups')
  <2>1. CASE e = written'
    <3>1. e \in sessionFiles'[p] /\ sessionFiles'[p] # Missing
      <4>1. sessionFiles[p] # Missing
        BY <1>1 DEF Growth
      <4> QED
        BY <1>1, <2>1, <4>1, Grown
    <3> QED
      BY <3>1 DEF Found
  <2>2. CASE e # written'
    <3>1. e \in Entries \ unwatched
      <4>1. written \in Nat /\ written' = written + 1
        BY <1>1, Grown DEF Types
      <4> QED
        BY <1>1, <1>2, <2>2, <4>1 DEF Entries, Growth
    <3>2. Found(e, sessionFiles, backups)
      BY <3>1, LostSplits
    <3> QED
      <4>1. \A q \in Paths : sessionFiles[q] # Missing =>
              sessionFiles'[q] # Missing /\ sessionFiles[q] \subseteq sessionFiles'[q]
        BY <1>1, Grown
      <4>2. backups' = backups
        BY <1>1 DEF Growth
      <4> QED
        BY <3>2, <4>1, <4>2 DEF Found
  <2> QED
    BY <2>1, <2>2
<1>3. \A q \in Paths : Enough(q)'
  <2>1. \A q \in Paths : Enough(q)
    BY LostSplits
  <2> QED
    BY <1>1, <2>1 DEF Enough, Growth
<1> QED
  BY <1>2, <1>3, LostSplitsThen

LEMMA BackUpLosesNothing ==
  ASSUME FInv, Types, NothingIsLost, NEW o \in Rewriting, BackUpSession(o)
  PROVE  NothingIsLost'
<1>0. PICK p \in Paths : p = call[o].path
  BY RewritingFacts
<1>1. /\ sessionFiles' = sessionFiles /\ Entries' = Entries /\ unwatched' = unwatched
      /\ o \in Slots /\ sessionFiles[p] # Missing
  BY <1>0, RewritingFacts, Untouched DEF entryVars, Entries
<1>2. PICK n \in Nat : n = Len(backups[p])
  BY BackupTypes
<1>3. PICK g \in Nat : g = pruned[p]
  BY DEF Types
<1>4. CASE UNCHANGED <<backups, pruned>>
  BY <1>1, <1>4, LostSplits, LostSplitsThen DEF Enough
<1>5. ASSUME NEW h \in SUBSET Entries, backups' = [backups EXCEPT ![p] = Append(@, h)],
             pruned' = pruned \/ pruned' = [pruned EXCEPT ![p] = Gone(n + 1, @)]
      PROVE  NothingIsLost'
  <2>1. /\ backups'[p] = Append(backups[p], h) /\ Len(backups'[p]) = n + 1
        /\ DOMAIN backups[p] \subseteq DOMAIN backups'[p]
        /\ \A i \in DOMAIN backups[p] : backups'[p][i] = backups[p][i]
    <3>1. backups[p] \in Seq(SUBSET Entries) /\ backups'[p] = Append(backups[p], h)
      BY <1>5, BackupTypes DEF Types
    <3> QED
      BY <1>2, <3>1, AppendProperties, LenProperties
  <2>2. \A q \in Paths : q # p => backups'[q] = backups[q] /\ pruned'[q] = pruned[q]
    BY <1>5 DEF Types
  <2>3. ASSUME NEW e \in Entries \ unwatched PROVE Found(e, sessionFiles', backups')
    <3>1. Found(e, sessionFiles, backups)
      BY LostSplits
    <3>2. ASSUME NEW q \in Paths, NEW i \in DOMAIN backups[q], e \in backups[q][i]
          PROVE  i \in DOMAIN backups'[q] /\ e \in backups'[q][i]
      BY <2>1, <2>2, <3>2
    <3> QED
      BY <1>1, <3>1, <3>2 DEF Found
  <2>4. ASSUME NEW q \in Paths PROVE Enough(q)'
    <3>1. Enough(q) /\ Enough(p)
      BY LostSplits
    <3>2. CASE q # p
      BY <2>2, <3>1, <3>2 DEF Enough
    <3>3. CASE q = p
      <4>1. g > 0 => n - g >= MaxBackups - 1
        BY <1>2, <1>3, <3>1 DEF Enough
      <4>2. pruned'[p] \in {g, Gone(n + 1, g)}
        BY <1>3, <1>5 DEF Types
      <4>3. MaxBackups \in Nat \ {0}
        BY BackupsAreKept
      <4>4. ASSUME NEW k \in {g, Gone(n + 1, g)}, k > 0 PROVE n + 1 - k >= MaxBackups - 1
        BY <4>1, <4>3, <4>4 DEF Gone
      <4> QED
        BY <2>1, <3>3, <4>2, <4>4 DEF Enough
    <3> QED
      BY <3>2, <3>3
  <2> QED
    BY <1>1, <2>3, <2>4, LostSplitsThen
<1>6. sessionFiles[p] \in SUBSET Entries /\ {} \in SUBSET Entries
  BY <1>1, HistoryTypes
<1> QED
  BY <1>0, <1>2, <1>4, <1>5, <1>6 DEF BackUpSession

LEMMA ReplaceLosesNothing ==
  ASSUME FInv, Types, NothingIsLost, NEW o \in Rewriting, ReplaceSession(o)
  PROVE  NothingIsLost'
<1>0. PICK p \in Paths : p = call[o].path
  BY RewritingFacts
<1>1. /\ pruned' = pruned /\ Entries' = Entries /\ unwatched' = unwatched /\ o \in Slots
      /\ sessionFiles[p] # Missing
  BY <1>0, RewritingFacts, Untouched DEF entryVars, Entries
<1>2. PICK n \in Nat : n = Len(backups[p])
  BY BackupTypes
<1>3. /\ n > 0 /\ backups[p][n] \subseteq sessionFiles[p]
      /\ sessionFiles[p] \subseteq backups[p][n] \cup unwatched
      /\ pruned[p] > 0 => n - pruned[p] >= MaxBackups
      /\ call[o].after \in SUBSET Entries
  BY <1>0, <1>2, RewritingFacts DEF ReplaceSession, BackedUp, LastBackup
<1>4. /\ backups[p] \in Seq(SUBSET Entries) /\ n \in DOMAIN backups[p]
  BY <1>2, <1>3, BackupTypes, LenProperties
<1>5. CASE /\ sessionFiles' = [sessionFiles EXCEPT ![p] = call[o].after] /\ UNCHANGED backups
  <2>1. ASSUME NEW e \in Entries \ unwatched PROVE Found(e, sessionFiles', backups')
    <3>1. Found(e, sessionFiles, backups)
      BY LostSplits
    <3>2. CASE e \in sessionFiles[p]
      <4>1. e \in backups'[p][n] /\ n \in DOMAIN backups'[p]
        BY <1>3, <1>4, <1>5, <2>1, <3>2
      <4> QED
        BY <4>1 DEF Found
    <3>3. ASSUME NEW q \in Paths, q # p PROVE sessionFiles'[q] = sessionFiles[q]
      BY <1>5, <3>3 DEF Types
    <3> QED
      BY <1>5, <3>1, <3>2, <3>3 DEF Found
  <2>2. \A q \in Paths : Enough(q)'
    <3>1. \A q \in Paths : Enough(q)
      BY LostSplits
    <3> QED
      BY <1>1, <1>5, <3>1 DEF Enough
  <2> QED
    BY <1>1, <2>1, <2>2, LostSplitsThen
<1>6. CASE backups' = [backups EXCEPT ![p] = SubSeq(@, 1, Len(@) - 1)] /\ UNCHANGED sessionFiles
  <2>1. /\ backups'[p] = SubSeq(backups[p], 1, n - 1) /\ Len(backups'[p]) = n - 1
        /\ \A i \in 1 .. (n - 1) : i \in DOMAIN backups'[p] /\ backups'[p][i] = backups[p][i]
        /\ DOMAIN backups[p] = 1 .. n
    <3>1. backups'[p] = SubSeq(backups[p], 1, n - 1)
      BY <1>2, <1>6 DEF Types
    <3> QED
      BY <1>2, <1>3, <1>4, <3>1, SubSeqProperties, LenProperties
  <2>2. \A q \in Paths : q # p => backups'[q] = backups[q]
    BY <1>6 DEF Types
  <2>3. ASSUME NEW e \in Entries \ unwatched PROVE Found(e, sessionFiles', backups')
    <3>1. Found(e, sessionFiles, backups)
      BY LostSplits
    <3>2. ASSUME NEW i \in DOMAIN backups[p], e \in backups[p][i]
          PROVE  Found(e, sessionFiles', backups')
      <4>1. CASE i \in 1 .. (n - 1)
        BY <2>1, <3>2, <4>1 DEF Found
      <4>2. CASE i = n
        BY <1>1, <1>3, <1>6, <3>2, <4>2 DEF Found
      <4> QED
        BY <1>2, <2>1, <4>1, <4>2
    <3> QED
      BY <1>6, <2>2, <3>1, <3>2 DEF Found
  <2>4. ASSUME NEW q \in Paths PROVE Enough(q)'
    <3>1. CASE q # p
      BY <1>1, <2>2, <3>1, LostSplits DEF Enough
    <3>2. CASE q = p
      <4>1. PICK g \in Nat : g = pruned[p]
        BY DEF Types
      <4>2. g > 0 => n - 1 - g >= MaxBackups - 1
        BY <1>3, <4>1, BackupsAreKept
      <4> QED
        BY <1>1, <2>1, <3>2, <4>1, <4>2 DEF Enough
    <3> QED
      BY <3>1, <3>2
  <2> QED
    BY <1>1, <2>3, <2>4, LostSplitsThen
<1> QED
  BY <1>0, <1>5, <1>6 DEF ReplaceSession

LEMMA ForkLosesNothing ==
  ASSUME FInv, Types, NothingIsLost, NEW o \in Rewriting, NEW q \in Paths,
         ForkHistory(o, q) \/ (SwitchCancelled(o) /\ call[o].kind = "fork" /\ q = call[o].target)
  PROVE  NothingIsLost'
<1>1. backups' = backups /\ pruned' = pruned /\ Entries' = Entries /\ unwatched' = unwatched /\ o \in Slots
  BY RewritingFacts, Untouched DEF entryVars, Entries
<1>2. \A p \in Paths : p # q => sessionFiles'[p] = sessionFiles[p]
  BY <1>1 DEF ForkHistory, SwitchCancelled, Types
<1>3. ASSUME NEW e \in Entries, e \in sessionFiles[q], sessionFiles[q] # Missing
      PROVE  Found(e, sessionFiles', backups')
  <2>1. CASE ForkHistory(o, q)
    BY <1>3, <2>1 DEF ForkHistory
  <2>2. CASE SwitchCancelled(o) /\ call[o].kind = "fork" /\ q = call[o].target
    <3>1. /\ q # call[o].path /\ sessionFiles[q] \subseteq sessionFiles[call[o].path]
          /\ call[o].path \in Paths /\ sessionFiles[call[o].path] # Missing
      BY <2>2, RewritingFacts DEF Files, SwitchCancelled
    <3> QED
      BY <1>2, <1>3, <3>1 DEF Found
  <2> QED
    BY <1>1, <2>1, <2>2, RewritingFacts DEF ForkHistory, SwitchCancelled
<1>4. ASSUME NEW e \in Entries \ unwatched PROVE Found(e, sessionFiles', backups')
  <2>1. Found(e, sessionFiles, backups)
    BY LostSplits
  <2> QED
    BY <1>1, <1>2, <1>3, <2>1 DEF Found
<1>5. \A p \in Paths : Enough(p)'
  <2>1. \A p \in Paths : Enough(p)
    BY LostSplits
  <2> QED
    BY <1>1, <2>1 DEF Enough
<1> QED
  BY <1>1, <1>4, <1>5, LostSplitsThen

LEMMA RestoreLosesNothing ==
  ASSUME FInv, Types, NothingIsLost, NEW o \in Rewriting, RestoreSession(o)
  PROVE  NothingIsLost'
<1>0. PICK p \in Paths : p = call[o].path
  BY RewritingFacts
<1>1. backups' = backups /\ pruned' = pruned /\ Entries' = Entries /\ unwatched' = unwatched /\ o \in Slots
  BY RewritingFacts, Untouched DEF entryVars, Entries
<1>2. PICK n \in Nat : n = Len(backups[p])
  BY BackupTypes
<1>3. n > 0 /\ sessionFiles[p] \subseteq backups[p][n] \cup unwatched
  BY <1>0, <1>2, RewritingFacts DEF RestoreSession, BackedUp, LastBackup
<1>4. n \in DOMAIN backups[p]
  BY <1>2, <1>3, BackupTypes, LenProperties
<1>5. \A q \in Paths : q # p => sessionFiles'[q] = sessionFiles[q]
  BY <1>0 DEF RestoreSession, Types
<1>6. ASSUME NEW e \in Entries \ unwatched PROVE Found(e, sessionFiles', backups')
  <2>1. Found(e, sessionFiles, backups)
    BY LostSplits
  <2>2. CASE e \in sessionFiles[p]
    BY <1>1, <1>3, <1>4, <1>6, <2>2 DEF Found
  <2> QED
    BY <1>1, <1>5, <2>1, <2>2 DEF Found
<1>7. \A q \in Paths : Enough(q)'
  <2>1. \A q \in Paths : Enough(q)
    BY LostSplits
  <2> QED
    BY <1>1, <2>1 DEF Enough
<1> QED
  BY <1>1, <1>6, <1>7, LostSplitsThen

LEMMA NothingIsLostStep == FInv /\ [AgentNext]_agentVars => NothingIsLost'
<1> SUFFICES ASSUME FInv, Types, PiHasFile, Kinds, NothingIsLost, AgentNext PROVE NothingIsLost'
  <2>1. CASE UNCHANGED agentVars
    BY <2>1, QuietLosesNothing DEF FInv, agentVars, fileVars, entryVars
  <2> QED
    BY <2>1 DEF FInv
<1>1. CASE PiSteps
  BY <1>1, GrowthLosesNothing, QuietLosesNothing DEF PiSteps, PiRests, PiExits, StoppedPiEnds
<1>2. ASSUME NEW o \in Slots, Edits(o) PROVE NothingIsLost'
  <2>1. o \in Rewriting
    BY <1>2, Editing
  <2>2. CASE SwitchCancelled(o)
    <3>1. CASE UNCHANGED sessionFiles
      BY <1>2, <2>2, <3>1, Untouched, QuietLosesNothing DEF fileVars
    <3>2. CASE call[o].kind = "fork"
      <4>1. call[o].target \in Paths
        BY <2>1, <2>2, RewritingFacts DEF Files, SwitchCancelled
      <4> QED
        BY <2>1, <2>2, <3>2, <4>1, ForkLosesNothing
    <3> QED
      BY <2>2, <3>1, <3>2 DEF SwitchCancelled
  <2> QED
    BY <1>2, <2>1, <2>2, Untouched, QuietLosesNothing, BackUpLosesNothing, ReplaceLosesNothing,
       ForkLosesNothing, RestoreLosesNothing DEF Edits
<1>3. \/ PiSteps \/ UNCHANGED <<fileVars, entryVars>>
      \/ \E o \in Slots : Edits(o)
  BY Steps, Untouched, Zenon
<1> QED
  BY <1>1, <1>2, <1>3, QuietLosesNothing

-----------------------------------------------------------------------------
LEMMA InitFInv == AgentInit => FInv
<1> SUFFICES ASSUME AgentInit PROVE FInv
  OBVIOUS
<1>1. PICK p \in Paths, old \in 0 .. MaxBackups :
        /\ sessionFiles = [q \in Paths |-> IF q = p THEN {} ELSE Missing]
        /\ backups = [q \in Paths |-> [i \in 1 .. (IF q = p THEN old ELSE 0) |-> {}]]
  BY DEF AgentInit
<1>2. /\ pi = NoPi /\ stopped = {} /\ pruned = [q \in Paths |-> 0]
      /\ agent = [runtime |-> TRUE, stopFailed |-> FALSE]
      /\ call = [o \in Slots |-> Free] /\ mutations = 0 /\ written = 0
      /\ astray = {} /\ unwatched = {}
  BY DEF AgentInit
<1>3. Entries = {}
  BY <1>2 DEF Entries
<1>4. Types
  <2>1. backups \in [Paths -> Seq(SUBSET Entries)]
    <3>1. ASSUME NEW q \in Paths PROVE backups[q] \in Seq(SUBSET Entries)
      <4>1. PICK n \in Nat : n = IF q = p THEN old ELSE 0
        BY <1>1, BackupsAreKept
      <4>2. backups[q] = [i \in 1 .. n |-> {}]
        BY <1>1, <4>1
      <4> QED
        BY <4>1, <4>2
    <3> QED
      BY <1>1, <3>1
  <2>2. 0 \in 0 .. MaxAppended
    BY MaxAppendedIsNatural
  <2> QED
    BY <1>1, <1>2, <1>3, <2>1, <2>2, StartValues DEF Types
<1>5. Rewriting = {} /\ Sharing = {} /\ Holding = {} /\ Starting = {}
  BY <1>2, StartValues DEF Rewriting, Sharing, Holding, Starting
<1>6. Kinds
  BY <1>2, StartValues DEF Kinds, Rewrites
<1>7. Alone
  BY <1>2, <1>5 DEF Alone
<1>8. Maintained /\ PiHasFile /\ Between
  BY <1>2, <1>5, StartValues DEF Maintained, NoPiServesMaintenance, PiHasFile, Between, NoPi
<1>9. NothingIsLost
  BY <1>2, <1>3, LostSplits DEF Enough
<1> QED
  BY <1>4, <1>5, <1>6, <1>7, <1>8, <1>9 DEF FInv

LEMMA FInvariant == AgentSpec => []FInv
<1>1. FInv /\ [AgentNext]_agentVars => FInv'
  <2> SUFFICES ASSUME FInv, [AgentNext]_agentVars PROVE FInv'
    OBVIOUS
  <2>1. \A o \in Rewriting' : Files(o)' /\ BackedUp(o)' /\ Stage(o)'
    <3>1. CASE UNCHANGED agentVars
      BY <3>1 DEF FInv, agentVars, fileVars, entryVars, Rewriting, Files, BackedUp, Stage, LastBackup, Current,
                  Watched, Strayed
    <3> QED
      BY <3>1, RewritingStep
  <2>2. Types' /\ Kinds' /\ Alone' /\ Maintained'
    BY TypesStep, KindsStep, AloneStep, MaintainedStep
  <2>3. PiHasFile' /\ Between' /\ NothingIsLost'
    BY PiHasFileStep, BetweenStep, NothingIsLostStep
  <2> QED
    BY <2>1, <2>2, <2>3 DEF FInv
<1> QED
  BY <1>1, InitFInv, PTL DEF AgentSpec

(* A history operation has the thread to itself.                           *)
LEMMA TypesHold == FInv => AgentTypeOK
<1> SUFFICES ASSUME FInv, Types, Alone PROVE AgentTypeOK
  BY DEF FInv
<1>1. pi.mode \in Modes /\ pi.bash \in SUBSET (Slots \cup {Left})
  BY PiFields
<1>2. Cardinality(Rewriting) <= 1
  <2>1. CASE Rewriting = {}
    BY <2>1, FS_EmptySet
  <2>2. ASSUME NEW o \in Rewriting PROVE Cardinality(Rewriting) <= 1
    <3>1. Rewriting = {o}
      BY <2>2 DEF Alone
    <3> QED
      BY <3>1, FS_Singleton
  <2> QED
    BY <2>1, <2>2
<1>3. Rewriting # {} => Sharing = {}
  BY DEF Alone
<1> QED
  BY <1>1, <1>2, <1>3 DEF AgentTypeOK, Modes

LEMMA PiKnows == FInv => PiKnowsItsHistory
<1> SUFFICES ASSUME FInv, Types, Alone, PiHasFile, Between PROVE PiKnowsItsHistory
  BY DEF FInv
<1>1. ASSUME pi.alive, ~Current
      PROVE  /\ Rewriting # {} \/ ~agent.runtime
             /\ pi.mode \notin {"turn", "retry"} /\ pi.bash \cap Slots = {}
  <2>1. CASE Rewriting = {}
    <3>1. Strayed
      BY <1>1, <2>1 DEF Between
    <3> QED
      BY <3>1, LeftIsNoSlot DEF Strayed
  <2>2. ASSUME NEW o \in Rewriting
        PROVE  pi.mode \notin {"turn", "retry"} /\ pi.bash \cap Slots = {}
    <3>1. pi.mode \notin {"turn", "retry"}
      BY <1>1, RewritingFacts DEF Stage, Strayed
    <3>2. Sharing = {}
      BY DEF Alone
    <3> QED
      BY <3>1, <3>2, PiFields, LeftIsNoSlot DEF PiHasFile, Sharing
  <2> QED
    BY <2>1, <2>2
<1> QED
  BY <1>1 DEF PiKnowsItsHistory, Current, Between

-----------------------------------------------------------------------------
(* FInv, for the thread of an agent: the files are histories of what Pi    *)
(* wrote, one history operation has the thread to itself and knows its     *)
(* backup, and Pi knows its file but for what nobody waited for.           *)
THEOREM FilesInvariant == AgentSpec => []FInv
BY FInvariant

(* Rewriting the history of a running Pi is safe (mutateSessionMessage):   *)
(* Pi works on the file it is on, or nothing that was asked of it goes on, *)
(* and what it wrote is in a file or a backup unless nobody waited for it. *)
THEOREM HistoryStaysSafe == AgentSpec => []HistoryIsSafe
<1>1. FInv => HistoryIsSafe
  BY TypesHold, PiKnows DEF FInv, HistoryIsSafe
<1> QED
  BY <1>1, FInvariant, PTL

(* What Pi wrote is in a file or in a backup, though other than the newest *)
(* backups are removed (backupSession, mutations.go:682-686, :853-858),    *)
(* unless it was written during a history operation by what nobody waited  *)
(* for; and a backup is removed only when enough later ones were made.     *)
THEOREM NothingPiWroteIsLost == AgentSpec => []NothingIsLost
<1>1. FInv => NothingIsLost
  BY DEF FInv
<1> QED
  BY <1>1, FInvariant, PTL

(* preparePiMaintenance and ServiceShutdown leave no Pi in the table; what *)
(* still runs has been stopped.                                            *)
THEOREM MaintenanceServesNoPi == AgentSpec => []NoPiServesMaintenance
<1>1. FInv => NoPiServesMaintenance
  BY DEF FInv, Maintained
<1> QED
  BY <1>1, FInvariant, PTL

-----------------------------------------------------------------------------
(* The workspace catalog                                                   *)


Remotes == {Remote(a, r) : a \in Aliases, r \in Roots}
Locations == {Local(d) : d \in Dirs} \cup Remotes

Contents ==
  [targets : [Aliases -> Bindings \cup {Nothing}], workspaces : SUBSET WorkspaceRecord,
   threads : [Threads -> AnyThread \cup {Nothing}], tasks : SUBSET Ids,
   active : Threads \cup {Nothing}]

(* What a version before 6 wrote: local workspaces, known by their path.   *)
OldThreads == {NewThread(Nothing, Local(d), Nothing) : d \in Dirs}

OldContents ==
  [targets : [Aliases -> {Nothing}], workspaces : SUBSET {LegacyRecord(d) : d \in Dirs},
   threads : [Threads -> OldThreads \cup {Nothing}], tasks : {{}}, active : {Nothing}]

SessionFiles == [at : {"none", "present", "recoverable", "gone"},
                 home : Locations \cup {NoPath}, anchor : Ids \cup {Nothing}]

(* References of a saved state s resolve; its threads own their sessions   *)
(* among the files f.                                                      *)
RefersTo(s, thread) ==
  thread.workspace # Nothing =>
    \E w \in s.workspaces : w.id = thread.workspace
      /\ thread.place = IF IsLocal(w) THEN w.place ELSE NoPath

Resolving(s) ==
  /\ \A t \in Threads : s.threads[t] # Nothing => RefersTo(s, s.threads[t])
  /\ \A i \in s.tasks : \E w \in s.workspaces : w.id = i /\ IsLocal(w)
  /\ s.active # Nothing => s.threads[s.active] # Nothing
  /\ \A w \in s.workspaces : ~IsLocal(w) => s.targets[w.place[1]] # Nothing

Owns(f, thread) ==
  thread.session # Nothing =>
    /\ f[thread.session].at # "none"
    /\ IF thread.place = NoPath THEN f[thread.session].anchor = thread.workspace
       ELSE f[thread.session].anchor = Nothing /\ f[thread.session].home = thread.place

Good(f, s) ==
  /\ s \in Contents
  /\ Resolving(s)
  /\ \A t \in Threads : s.threads[t] # Nothing => Owns(f, s.threads[t])

(* A file exists once it has a home; one bound to an anchor is of the root *)
(* the anchor's marker names, which never changes.                         *)
Bound(f, a) ==
  /\ f \in [SessionPaths -> SessionFiles]
  /\ a \in [Ids -> {NoAnchor, Unmarked} \cup Remotes]
  /\ \A p \in SessionPaths :
       /\ f[p].at # "none" => f[p].home # NoPath
       /\ f[p].at = "none" => f[p].anchor = Nothing
       /\ f[p].anchor # Nothing => a[f[p].anchor] = f[p].home /\ f[p].home \in Remotes

(* A restore under way has an orphan of the root of its workspace: the     *)
(* identity of an orphan is never given out again.                         *)
Restorable(r, f, m) ==
  r # Nothing =>
    /\ m.loaded
    /\ r \in [path : SessionPaths, id : Ids, place : Remotes]
    /\ f[r.path].at # "none" /\ f[r.path].anchor # Nothing
    /\ f[r.path].home = r.place
    /\ \A w \in m.content.workspaces : w.id # f[r.path].anchor

(* A checked request stays true of its session files, but for a workspace  *)
(* removed since, whose identity SaveDesktop refuses.                      *)
StillOwns(s, f, thread) ==
  thread.session # Nothing =>
    /\ f[thread.session].at # "none"
    /\ IF thread.place = NoPath
         THEN /\ thread.workspace # Nothing
              /\ \/ f[thread.session].anchor = thread.workspace
                 \/ \A w \in s.workspaces : w.id # thread.workspace
         ELSE f[thread.session].anchor = Nothing /\ f[thread.session].home = thread.place

Checked(v, f, m) ==
  v # Nothing =>
    /\ m.loaded /\ v \in Contents
    /\ \A t \in Threads : v.threads[t] # Nothing => StillOwns(m.content, f, v.threads[t])

(* What is on disk is good, and is what the catalog serves.                *)
Stored(f, d, m, broken) ==
  /\ d \in [version : {"none", "legacy", "current"}, content : Contents \cup OldContents]
  /\ m \in [loaded : BOOLEAN, content : Contents]
  /\ broken \in BOOLEAN
  /\ d.version = "none" => d.content = Empty
  /\ d.version = "legacy" => ~m.loaded /\ d.content \in OldContents
  /\ d.version = "current" => Good(f, d.content)
  /\ m.loaded /\ ~broken => m.content = d.content
  /\ ~m.loaded => m.content = Empty

(* A deletion under way has moved a file.                                  *)
Moving(x, f) == x \in SessionPaths \cup {Nothing} /\ (x # Nothing => f[x].at # "none")

CatInv ==
  /\ Good(files, kept)
  /\ Bound(files, anchors)
  /\ Restorable(restoring, files, memory)
  /\ Checked(saving, files, memory)
  /\ Stored(files, disk, memory, torn)
  /\ Moving(deleting, files)

-----------------------------------------------------------------------------
(* Directories have paths of one element, roots of targets of two.         *)
LEMMA LocationsDiffer ==
  /\ \A d \in Dirs : Local(d) \in Locations /\ Len(Local(d)) = 1 /\ Local(d) # NoPath
  /\ \A p \in Remotes : p \in Locations /\ Len(p) = 2 /\ p # NoPath /\ p # Unmarked /\ p[1] \in Aliases
  /\ \A a \in Aliases, r \in Roots : Remote(a, r) \in Remotes /\ Remote(a, r)[1] = a
<1>1. \A d \in Dirs : Local(d) \in Locations /\ Len(Local(d)) = 1 /\ Local(d) # NoPath
  BY DEF Local, Locations, NoPath
<1>2. ASSUME NEW a \in Aliases, NEW r \in Roots
      PROVE  /\ Remote(a, r) \in Remotes /\ Len(Remote(a, r)) = 2 /\ Remote(a, r)[1] = a
             /\ Remote(a, r) # NoPath /\ Remote(a, r) # Unmarked
  BY DEF Remote, Remotes, NoPath, Unmarked
<1>3. \A p \in Remotes : \E a \in Aliases, r \in Roots : p = Remote(a, r)
  BY DEF Remotes
<1>4. \A p \in Remotes : p \in Locations
  BY DEF Locations
<1> QED
  BY <1>1, <1>2, <1>3, <1>4

(* A workspace is at a directory or at a root.                             *)
LEMMA Located ==
  ASSUME NEW w \in WorkspaceRecord
  PROVE  /\ w.place \in Locations /\ w.place # NoPath /\ w.id \in Ids
         /\ IsLocal(w) <=> w.place \notin Remotes
         /\ IsLocal(w) => \E d \in Dirs : w.place = Local(d)
         /\ ~IsLocal(w) => w.place \in Remotes /\ w.place[1] \in Aliases
<1>1. w.place \in Locations /\ w.id \in Ids
  BY DEF WorkspaceRecord, Locations, Remotes
<1>2. CASE w.place \in Remotes
  BY <1>1, <1>2, LocationsDiffer DEF IsLocal
<1>3. CASE w.place \notin Remotes
  <2>1. \E d \in Dirs : w.place = Local(d)
    BY <1>1, <1>3 DEF Locations
  <2> QED
    BY <1>1, <1>3, <2>1, LocationsDiffer DEF IsLocal
<1> QED
  BY <1>2, <1>3

-----------------------------------------------------------------------------
(* What each operation does to a good content.                             *)

(* Nothing is known of a catalog that was never loaded.                    *)
LEMMA EmptyIsGood ==
  ASSUME NEW f PROVE Good(f, Empty)
<1>1. Empty \in Contents
  BY DEF Empty, Contents
<1>2. Resolving(Empty)
  BY DEF Empty, Resolving
<1> QED
  BY <1>1, <1>2 DEF Empty, Good

(* A workspace takes another trust or binding and stays where it is.       *)
LEMMA ReplacedIsGood ==
  ASSUME NEW f, NEW s, Good(f, s), NEW w \in s.workspaces,
         NEW v \in WorkspaceRecord, v.id = w.id, v.place = w.place
  PROVE  Good(f, [s EXCEPT !.workspaces = (@ \ {w}) \cup {v}])
<1> DEFINE n == [s EXCEPT !.workspaces = (@ \ {w}) \cup {v}]
<1>1. /\ n \in Contents
      /\ n.workspaces = (s.workspaces \ {w}) \cup {v}
      /\ n.threads = s.threads /\ n.tasks = s.tasks /\ n.active = s.active /\ n.targets = s.targets
  BY DEF Good, Contents
<1> HIDE DEF n
<1>2. IsLocal(v) <=> IsLocal(w)
  BY DEF IsLocal
<1>3. \A x \in s.workspaces : \E y \in n.workspaces :
        y.id = x.id /\ y.place = x.place /\ (IsLocal(y) <=> IsLocal(x))
  BY <1>1, <1>2
<1>4. ASSUME NEW thread, RefersTo(s, thread) PROVE RefersTo(n, thread)
  BY <1>3, <1>4 DEF RefersTo
<1>5. \A x \in n.workspaces : ~IsLocal(x) => n.targets[x.place[1]] # Nothing
  BY <1>1, <1>2 DEF Good, Resolving
<1>6. \A i \in n.tasks : \E y \in n.workspaces : y.id = i /\ IsLocal(y)
  BY <1>1, <1>3 DEF Good, Resolving
<1>7. \A t \in Threads : n.threads[t] # Nothing => RefersTo(n, n.threads[t])
  BY <1>1, <1>4 DEF Good, Resolving
<1>8. n.active # Nothing => n.threads[n.active] # Nothing
  BY <1>1 DEF Good, Resolving
<1>9. \A t \in Threads : n.threads[t] # Nothing => Owns(f, n.threads[t])
  BY <1>1 DEF Good
<1> QED
  BY <1>1, <1>5, <1>6, <1>7, <1>8, <1>9 DEF Good, Resolving, n

(* A new workspace takes nothing from the others.                          *)
LEMMA AddedIsGood ==
  ASSUME NEW f, NEW s, Good(f, s), NEW v \in WorkspaceRecord,
         IsLocal(v) \/ s.targets[v.place[1]] # Nothing
  PROVE  Good(f, [s EXCEPT !.workspaces = @ \cup {v}])
<1> DEFINE n == [s EXCEPT !.workspaces = @ \cup {v}]
<1>1. /\ n \in Contents
      /\ n.workspaces = s.workspaces \cup {v}
      /\ n.threads = s.threads /\ n.tasks = s.tasks /\ n.active = s.active /\ n.targets = s.targets
  BY DEF Good, Contents
<1> HIDE DEF n
<1>2. ASSUME NEW thread, RefersTo(s, thread) PROVE RefersTo(n, thread)
  BY <1>1, <1>2 DEF RefersTo
<1>3. \A x \in n.workspaces : ~IsLocal(x) => n.targets[x.place[1]] # Nothing
  BY <1>1 DEF Good, Resolving
<1>4. \A i \in n.tasks : \E y \in n.workspaces : y.id = i /\ IsLocal(y)
  BY <1>1 DEF Good, Resolving
<1>5. \A t \in Threads : n.threads[t] # Nothing => RefersTo(n, n.threads[t])
  BY <1>1, <1>2 DEF Good, Resolving
<1>6. n.active # Nothing => n.threads[n.active] # Nothing
  BY <1>1 DEF Good, Resolving
<1>7. \A t \in Threads : n.threads[t] # Nothing => Owns(f, n.threads[t])
  BY <1>1 DEF Good
<1> QED
  BY <1>1, <1>3, <1>4, <1>5, <1>6, <1>7 DEF Good, Resolving, n

(* A registered target gets a binding, and no workspace loses its own.     *)
LEMMA RegisteredIsGood ==
  ASSUME NEW f, NEW s, Good(f, s), NEW a \in Aliases, NEW b \in Bindings
  PROVE  Good(f, [s EXCEPT !.targets[a] = b])
<1> DEFINE n == [s EXCEPT !.targets[a] = b]
<1>1. /\ n \in Contents
      /\ n.workspaces = s.workspaces /\ n.threads = s.threads /\ n.tasks = s.tasks
      /\ n.active = s.active
      /\ \A x \in Aliases : n.targets[x] = IF x = a THEN b ELSE s.targets[x]
  BY DEF Good, Contents
<1> HIDE DEF n
<1>2. b # Nothing
  BY NothingIsNothing
<1>3. \A w \in n.workspaces : ~IsLocal(w) => n.targets[w.place[1]] # Nothing
  <2>1. \A w \in s.workspaces : ~IsLocal(w) => w.place[1] \in Aliases
    BY Located DEF Good, Contents
  <2> QED
    BY <1>1, <1>2, <2>1 DEF Good, Resolving
<1>4. \A thread : RefersTo(s, thread) => RefersTo(n, thread)
  BY <1>1 DEF RefersTo
<1>5. /\ \A t \in Threads : n.threads[t] # Nothing => RefersTo(n, n.threads[t])
      /\ \A i \in n.tasks : \E y \in n.workspaces : y.id = i /\ IsLocal(y)
      /\ n.active # Nothing => n.threads[n.active] # Nothing
      /\ \A t \in Threads : n.threads[t] # Nothing => Owns(f, n.threads[t])
  BY <1>1, <1>4 DEF Good, Resolving
<1> QED
  BY <1>1, <1>3, <1>5 DEF Good, Resolving, n

(* A target goes that no workspace is on.                                  *)
LEMMA UnregisteredIsGood ==
  ASSUME NEW f, NEW s, Good(f, s), NEW a \in Aliases,
         \A w \in s.workspaces : IsLocal(w) \/ w.place[1] # a
  PROVE  Good(f, [s EXCEPT !.targets[a] = Nothing])
<1> DEFINE n == [s EXCEPT !.targets[a] = Nothing]
<1>1. /\ n \in Contents
      /\ n.workspaces = s.workspaces /\ n.threads = s.threads /\ n.tasks = s.tasks
      /\ n.active = s.active
      /\ \A x \in Aliases : n.targets[x] = IF x = a THEN Nothing ELSE s.targets[x]
  BY DEF Good, Contents
<1> HIDE DEF n
<1>2. \A w \in n.workspaces : ~IsLocal(w) => n.targets[w.place[1]] # Nothing
  <2>1. \A w \in s.workspaces : ~IsLocal(w) => w.place[1] \in Aliases
    BY Located DEF Good, Contents
  <2> QED
    BY <1>1, <2>1 DEF Good, Resolving
<1>3. \A thread : RefersTo(s, thread) => RefersTo(n, thread)
  BY <1>1 DEF RefersTo
<1>4. /\ \A t \in Threads : n.threads[t] # Nothing => RefersTo(n, n.threads[t])
      /\ \A i \in n.tasks : \E y \in n.workspaces : y.id = i /\ IsLocal(y)
      /\ n.active # Nothing => n.threads[n.active] # Nothing
      /\ \A t \in Threads : n.threads[t] # Nothing => Owns(f, n.threads[t])
  BY <1>1, <1>3 DEF Good, Resolving
<1> QED
  BY <1>1, <1>2, <1>4 DEF Good, Resolving, n

(* Threads that go leave no active thread behind.                          *)
LEMMA WithoutIsGood ==
  ASSUME NEW f, NEW s, Good(f, s), NEW gone
  PROVE  /\ Good(f, Without(s, gone))
         /\ Without(s, gone).workspaces = s.workspaces
         /\ Without(s, gone).tasks = s.tasks /\ Without(s, gone).targets = s.targets
         /\ \A t \in Threads : Without(s, gone).threads[t]
              = IF s.threads[t] \in gone THEN Nothing ELSE s.threads[t]
<1> DEFINE m == [s EXCEPT !.threads = [t \in Threads |-> IF @[t] \in gone THEN Nothing ELSE @[t]]]
           n == Without(s, gone)
<1>1. /\ m \in Contents
      /\ m.workspaces = s.workspaces /\ m.tasks = s.tasks /\ m.targets = s.targets
      /\ m.active = s.active
      /\ \A t \in Threads : m.threads[t] = IF s.threads[t] \in gone THEN Nothing ELSE s.threads[t]
  BY DEF Good, Contents
<1>2. n = [m EXCEPT !.active = IF @ # Nothing /\ m.threads[@] = Nothing THEN Nothing ELSE @]
  BY DEF Without, StillActive
<1> HIDE DEF m, n
<1>3. /\ n \in Contents
      /\ n.workspaces = m.workspaces /\ n.tasks = m.tasks /\ n.targets = m.targets
      /\ n.threads = m.threads
      /\ n.active = IF m.active # Nothing /\ m.threads[m.active] = Nothing THEN Nothing ELSE m.active
  BY <1>1, <1>2 DEF Contents
<1>4. n.active # Nothing => n.threads[n.active] # Nothing
  BY <1>3
<1>5. \A thread : RefersTo(s, thread) => RefersTo(n, thread)
  BY <1>1, <1>3 DEF RefersTo
<1>6. /\ \A t \in Threads : n.threads[t] # Nothing => RefersTo(n, n.threads[t])
      /\ \A t \in Threads : n.threads[t] # Nothing => Owns(f, n.threads[t])
  BY <1>1, <1>3, <1>5 DEF Good, Resolving
<1>7. /\ \A i \in n.tasks : \E y \in n.workspaces : y.id = i /\ IsLocal(y)
      /\ \A w \in n.workspaces : ~IsLocal(w) => n.targets[w.place[1]] # Nothing
  BY <1>1, <1>3 DEF Good, Resolving
<1>8. Good(f, n)
  BY <1>3, <1>4, <1>6, <1>7 DEF Good, Resolving
<1> QED
  BY <1>1, <1>3, <1>8 DEF n

(* A workspace goes with its threads and its scheduled tasks.              *)
LEMMA RemovedIsGood ==
  ASSUME NEW f, NEW s, Good(f, s), NEW w \in s.workspaces
  PROVE  /\ Good(f, RemovedFrom(s, w))
         /\ RemovedFrom(s, w).workspaces = s.workspaces \ {w}
<1> DEFINE gone == {x \in ThreadRecords(s) :
                 \/ x.workspace = w.id
                 \/ IsLocal(w) /\ x.workspace = Nothing /\ x.place = w.place}
           m == Without(s, gone)
           n == [m EXCEPT !.workspaces = @ \ {w}, !.tasks = @ \ {w.id}]
<1>1. RemovedFrom(s, w) = n
  BY DEF RemovedFrom
<1>2. /\ Good(f, m) /\ m.workspaces = s.workspaces
      /\ \A t \in Threads : m.threads[t] = IF s.threads[t] \in gone THEN Nothing ELSE s.threads[t]
  BY WithoutIsGood
<1>3. \A t \in Threads : m.threads[t] # Nothing => m.threads[t].workspace # w.id
  BY <1>2 DEF ThreadRecords
<1> HIDE DEF gone, m
<1>4. /\ n \in Contents
      /\ n.workspaces = m.workspaces \ {w} /\ n.tasks = m.tasks \ {w.id}
      /\ n.threads = m.threads /\ n.active = m.active /\ n.targets = m.targets
  BY <1>2 DEF Good, Contents
<1> HIDE DEF n
<1>5. ASSUME NEW t \in Threads, n.threads[t] # Nothing
      PROVE  RefersTo(n, n.threads[t]) /\ Owns(f, n.threads[t])
  <2>1. RefersTo(m, m.threads[t]) /\ Owns(f, m.threads[t]) /\ m.threads[t].workspace # w.id
    BY <1>2, <1>3, <1>4, <1>5 DEF Good, Resolving
  <2> QED
    BY <1>4, <2>1 DEF RefersTo
<1>6. \A i \in n.tasks : \E y \in n.workspaces : y.id = i /\ IsLocal(y)
  BY <1>2, <1>4 DEF Good, Resolving
<1>7. /\ n.active # Nothing => n.threads[n.active] # Nothing
      /\ \A y \in n.workspaces : ~IsLocal(y) => n.targets[y.place[1]] # Nothing
  BY <1>2, <1>4 DEF Good, Resolving
<1> QED
  BY <1>1, <1>2, <1>4, <1>5, <1>6, <1>7 DEF Good, Resolving

(* A content of an old version becomes one where every workspace has an    *)
(* identity and every thread of its directory names it.                    *)
LEMMA MigratedIsGood ==
  ASSUME NEW f, NEW s \in OldContents, NEW n \in Migrations(s)
  PROVE  Good(f, n)
<1>1. PICK name \in [s.workspaces -> Ids] :
        n = [s EXCEPT !.workspaces = {[w EXCEPT !.id = name[w]] : w \in s.workspaces},
             !.threads = [t \in Threads |->
                LET thread == s.threads[t]
                IN IF thread = Nothing THEN Nothing
                   ELSE [thread EXCEPT !.workspace =
                     IF AtPlace(s, thread.place) = {} THEN Nothing
                     ELSE name[CHOOSE w \in AtPlace(s, thread.place) : TRUE]]]]
  BY DEF Migrations
<1> DEFINE named(w) == [w EXCEPT !.id = name[w]]
           at(p) == CHOOSE w \in AtPlace(s, p) : TRUE
           identity(p) == IF AtPlace(s, p) = {} THEN Nothing ELSE name[at(p)]
<1>2. /\ n.workspaces = {named(w) : w \in s.workspaces}
      /\ n.targets = s.targets /\ n.tasks = s.tasks /\ n.active = s.active
      /\ n.threads = [t \in Threads |->
                IF s.threads[t] = Nothing THEN Nothing
                   ELSE [s.threads[t] EXCEPT !.workspace = identity(s.threads[t].place)]]
      /\ n = [targets |-> n.targets, workspaces |-> n.workspaces, threads |-> n.threads,
              tasks |-> n.tasks, active |-> n.active]
  BY <1>1 DEF OldContents
<1>3. ASSUME NEW w \in s.workspaces
      PROVE  /\ named(w) \in WorkspaceRecord /\ named(w).id = name[w]
             /\ named(w).place = w.place /\ IsLocal(named(w))
  <2>1. PICK d \in Dirs : w = LegacyRecord(d)
    BY DEF OldContents
  <2>2. /\ named(w) = [id |-> name[w], place |-> Local(d), trust |-> "approve",
                       binding |-> Nothing, platform |-> Nothing]
        /\ w.place = Local(d)
    BY <2>1 DEF LegacyRecord
  <2>3. name[w] \in Ids
    OBVIOUS
  <2>4. named(w) \in WorkspaceRecord
    BY <2>2, <2>3 DEF WorkspaceRecord
  <2> QED
    BY <2>2, <2>4, LocationsDiffer DEF IsLocal
<1>4. ASSUME NEW t \in Threads, s.threads[t] # Nothing
      PROVE  /\ n.threads[t] \in AnyThread /\ n.threads[t].session = Nothing
             /\ RefersTo(n, n.threads[t])
  <2>1. PICK d \in Dirs : s.threads[t] = NewThread(Nothing, Local(d), Nothing)
    BY <1>4 DEF OldContents, OldThreads
  <2> DEFINE i == identity(Local(d))
  <2>2. n.threads[t] = NewThread(i, Local(d), Nothing)
    <3> HIDE DEF identity
    <3>1. s.threads[t].place = Local(d)
      BY <2>1 DEF NewThread
    <3>2. n.threads[t] = [s.threads[t] EXCEPT !.workspace = i]
      BY <1>2, <1>4, <3>1
    <3> QED
      BY <2>1, <3>2 DEF NewThread
  <2>3. CASE AtPlace(s, Local(d)) = {}
    BY <2>2, <2>3 DEF NewThread, AnyThread, RefersTo
  <2>4. CASE AtPlace(s, Local(d)) # {}
    <3>1. at(Local(d)) \in s.workspaces /\ at(Local(d)).place = Local(d)
      BY <2>4 DEF AtPlace
    <3> DEFINE w == at(Local(d))
    <3>2. /\ named(w) \in n.workspaces /\ named(w).id = name[w] /\ name[w] \in Ids
          /\ named(w).place = Local(d) /\ IsLocal(named(w))
      BY <1>2, <1>3, <3>1
    <3>3. i = name[w]
      BY <2>4
    <3> HIDE DEF w, named, i
    <3> QED
      BY <2>2, <3>2, <3>3 DEF NewThread, AnyThread, RefersTo
  <2> QED
    BY <2>3, <2>4
<1>5. n \in Contents
  <2>1. n.workspaces \subseteq WorkspaceRecord
    BY <1>2, <1>3
  <2>2. \A t \in Threads : n.threads[t] \in AnyThread \cup {Nothing}
    BY <1>2, <1>4
  <2>3. n.threads \in [Threads -> AnyThread \cup {Nothing}]
    BY <1>2, <2>2
  <2>4. /\ n.targets \in [Aliases -> Bindings \cup {Nothing}]
        /\ n.tasks \subseteq Ids /\ n.active \in Threads \cup {Nothing}
    BY <1>2 DEF OldContents
  <2> QED
    BY <1>2, <2>1, <2>3, <2>4 DEF Contents
<1>6. n.tasks = {} /\ n.active = Nothing
  BY <1>2 DEF OldContents
<1>7. \A y \in n.workspaces : IsLocal(y)
  BY <1>2, <1>3
<1>8. \A t \in Threads : n.threads[t] # Nothing => s.threads[t] # Nothing
  BY <1>2
<1> QED
  BY <1>4, <1>5, <1>6, <1>7, <1>8 DEF Good, Resolving, Owns

(* A thread of a path gets the identity of the workspace there, if any.    *)
LEMMA PathIdentity ==
  ASSUME NEW s \in Contents, NEW p, workspaceIDForLocalPath(s, p) # Nothing
  PROVE  \E w \in s.workspaces :
           w.id = workspaceIDForLocalPath(s, p) /\ w.place = p /\ w \in WorkspaceRecord
<1>1. AtPlace(s, p) # {}
  BY DEF workspaceIDForLocalPath
<1>2. (CHOOSE w \in AtPlace(s, p) : TRUE) \in AtPlace(s, p)
  BY <1>1
<1>3. AtPlace(s, p) \subseteq s.workspaces /\ \A w \in AtPlace(s, p) : w.place = p
  BY DEF AtPlace
<1>4. s.workspaces \subseteq WorkspaceRecord
  BY DEF Contents
<1>5. workspaceIDForLocalPath(s, p) = (CHOOSE w \in AtPlace(s, p) : TRUE).id
  BY <1>1 DEF workspaceIDForLocalPath
<1> QED
  BY <1>2, <1>3, <1>4, <1>5

(* The threads SaveDesktop saves: those of a path with its workspace.       *)
Attached ==
  [t \in Threads |->
    IF saving.threads[t] # Nothing /\ saving.threads[t].workspace = Nothing
      THEN [saving.threads[t] EXCEPT !.workspace =
              workspaceIDForLocalPath(kept, saving.threads[t].place)]
      ELSE saving.threads[t]]

Desktop == [saving EXCEPT !.threads = Attached, !.targets = kept.targets,
                          !.workspaces = kept.workspaces]

(* SaveDesktop: what its own checks, and those of SaveDesktopState that    *)
(* still hold, let through is good.                                        *)
LEMMA DesktopIsGood ==
  ASSUME Good(files, kept), saving # Nothing, Checked(saving, files, memory), Consistent(saving)
  PROVE  Good(files, Desktop) /\ Desktop.workspaces = kept.workspaces
<1> DEFINE identity(p) == workspaceIDForLocalPath(kept, p)
           n == Desktop
<1>1. /\ saving \in Contents /\ kept \in Contents
      /\ \A t \in Threads : saving.threads[t] # Nothing => StillOwns(kept, files, saving.threads[t])
  BY DEF Checked, Good, kept
<1>4. /\ n.workspaces = kept.workspaces /\ n.targets = kept.targets /\ n.threads = Attached
      /\ n.tasks = saving.tasks /\ n.active = saving.active
  BY <1>1 DEF Contents, Desktop
<1> HIDE DEF n
<1>5. ASSUME NEW t \in Threads, saving.threads[t] # Nothing
      PROVE  /\ Attached[t] \in AnyThread
             /\ RefersTo(kept, Attached[t])
             /\ Owns(files, Attached[t])
  <2> DEFINE x == saving.threads[t]
  <2>1. x \in AnyThread /\ StillOwns(kept, files, x)
    BY <1>1, <1>5 DEF Contents
  <2>2. CASE x.workspace # Nothing
    <3>1. Attached[t] = x
      BY <1>5, <2>2 DEF Attached
    <3>2. /\ ById(kept, x.workspace) # {}
          /\ \A v \in ById(kept, x.workspace) : x.place = IF IsLocal(v) THEN v.place ELSE NoPath
      BY <1>5, <2>2 DEF Consistent
    <3> HIDE DEF x
    <3>3. PICK w \in kept.workspaces : /\ w.id = x.workspace
                                      /\ x.place = IF IsLocal(w) THEN w.place ELSE NoPath
      BY <3>2 DEF ById
    <3>4. RefersTo(kept, x) /\ Owns(files, x)
      BY <2>1, <3>3 DEF RefersTo, Owns, StillOwns
    <3> QED
      BY <2>1, <3>1, <3>4
  <2>3. CASE x.workspace = Nothing
    <3> DEFINE y == [x EXCEPT !.workspace = identity(x.place)]
    <3>1. Attached[t] = y
      BY <1>5, <2>3 DEF Attached
    <3> HIDE DEF x, identity
    <3>2. y.workspace = identity(x.place) /\ y.place = x.place /\ y.session = x.session
      BY <2>1 DEF AnyThread
    <3>3. Owns(files, x) /\ (x.session # Nothing => x.place # NoPath)
      BY <2>1, <2>3 DEF StillOwns, Owns
    <3>4. Owns(files, y)
      BY <3>2, <3>3 DEF Owns
    <3>5. CASE identity(x.place) = Nothing
      <4>1. y \in AnyThread
        BY <2>1, <3>5 DEF AnyThread
      <4>2. RefersTo(kept, y)
        BY <3>2, <3>5 DEF RefersTo
      <4> QED
        BY <3>1, <3>4, <4>1, <4>2
    <3>6. CASE identity(x.place) # Nothing
      <4>1. PICK w \in kept.workspaces :
              w.id = identity(x.place) /\ w.place = x.place /\ w \in WorkspaceRecord
        BY <1>1, <3>6, PathIdentity DEF identity
      <4>2. w.id \in Ids /\ w.place # NoPath
        BY <4>1, Located
      <4>3. \E d \in Dirs : x.place = Local(d)
        BY <2>1, <4>1, <4>2 DEF AnyThread
      <4>4. IsLocal(w)
        BY <4>1, <4>3, LocationsDiffer DEF IsLocal
      <4>5. y \in AnyThread
        BY <2>1, <4>1, <4>2 DEF AnyThread
      <4>6. RefersTo(kept, y)
        BY <3>2, <4>1, <4>4 DEF RefersTo
      <4> QED
        BY <3>1, <3>4, <4>5, <4>6
    <3> QED
      BY <3>5, <3>6
  <2> QED
    BY <2>2, <2>3
<1>6. \A t \in Threads : saving.threads[t] = Nothing => Attached[t] = Nothing
  BY DEF Attached
<1>7. n \in Contents
  <2>1. Attached \in [Threads -> AnyThread \cup {Nothing}]
    <3>1. \A t \in Threads : Attached[t] \in AnyThread \cup {Nothing}
      BY <1>5, <1>6
    <3>2. Attached = [t \in Threads |-> Attached[t]]
      BY DEF Attached
    <3> QED
      BY <3>1, <3>2
  <2> QED
    BY <1>1, <2>1 DEF Contents, Desktop, n
<1>8. \A t \in Threads : n.threads[t] # Nothing => RefersTo(n, n.threads[t]) /\ Owns(files, n.threads[t])
  <2>1. \A thread : RefersTo(kept, thread) => RefersTo(n, thread)
    BY <1>4 DEF RefersTo
  <2> QED
    BY <1>4, <1>5, <1>6, <2>1
<1>9. n.active # Nothing => n.threads[n.active] # Nothing
  <2>1. n.active # Nothing => n.active \in Threads /\ saving.threads[n.active] # Nothing
    BY <1>1, <1>4 DEF Consistent, Contents
  <2>2. \A x \in AnyThread : x # Nothing
    BY NothingIsNothing
  <2> QED
    BY <1>4, <1>5, <2>1, <2>2
<1>10. \A i \in n.tasks : \E w \in n.workspaces : w.id = i /\ IsLocal(w)
  BY <1>4 DEF Consistent, ById
<1>11. \A w \in n.workspaces : ~IsLocal(w) => n.targets[w.place[1]] # Nothing
  BY <1>4 DEF Good, Resolving
<1> QED
  BY <1>4, <1>7, <1>8, <1>9, <1>10, <1>11 DEF Good, Resolving, n

-----------------------------------------------------------------------------
(* Steps                                                                   *)

(* Files that are moved keep their home and their anchor.                  *)
OnlyMoved(f, g) ==
  /\ f \in [SessionPaths -> SessionFiles] /\ g \in [SessionPaths -> SessionFiles]
  /\ \A p \in SessionPaths : g[p].home = f[p].home /\ g[p].anchor = f[p].anchor
                             /\ (g[p].at = "none" <=> f[p].at = "none")

(* Nothing that is said of the files is about where they are kept.         *)
LEMMA MovedFiles ==
  ASSUME NEW f, NEW g, OnlyMoved(f, g)
  PROVE  /\ \A s : Good(f, s) => Good(g, s)
         /\ \A a : Bound(f, a) => Bound(g, a)
         /\ \A r, m : Restorable(r, f, m) => Restorable(r, g, m)
         /\ \A v, m : Checked(v, f, m) => Checked(v, g, m)
         /\ \A d, m, b : Stored(f, d, m, b) => Stored(g, d, m, b)
         /\ \A x : Moving(x, f) => Moving(x, g)
<1>1. ASSUME NEW s, Good(f, s) PROVE Good(g, s)
  <2>1. ASSUME NEW t \in Threads, s.threads[t] # Nothing PROVE Owns(g, s.threads[t])
    <3>1. s.threads[t] \in AnyThread /\ Owns(f, s.threads[t])
      BY <1>1, <2>1 DEF Good, Contents
    <3>2. s.threads[t].session # Nothing => s.threads[t].session \in SessionPaths
      BY <3>1 DEF AnyThread
    <3> QED
      BY <3>1, <3>2 DEF Owns, OnlyMoved
  <2> QED
    BY <1>1, <2>1 DEF Good
<1>2. ASSUME NEW a, Bound(f, a) PROVE Bound(g, a)
  BY <1>2 DEF Bound, OnlyMoved
<1>3. ASSUME NEW r, NEW m, Restorable(r, f, m) PROVE Restorable(r, g, m)
  BY <1>3 DEF Restorable, OnlyMoved
<1>4. ASSUME NEW v, NEW m, Checked(v, f, m) PROVE Checked(v, g, m)
  <2>1. ASSUME NEW t \in Threads, v # Nothing, v.threads[t] # Nothing
        PROVE  StillOwns(m.content, g, v.threads[t])
    <3>1. v.threads[t] \in AnyThread /\ StillOwns(m.content, f, v.threads[t])
      BY <1>4, <2>1 DEF Checked, Contents
    <3>2. v.threads[t].session # Nothing => v.threads[t].session \in SessionPaths
      BY <3>1 DEF AnyThread
    <3> QED
      BY <3>1, <3>2 DEF StillOwns, OnlyMoved
  <2> QED
    BY <1>4, <2>1 DEF Checked
<1>5. ASSUME NEW d, NEW m, NEW b, Stored(f, d, m, b) PROVE Stored(g, d, m, b)
  BY <1>1, <1>5 DEF Stored
<1>6. ASSUME NEW x, Moving(x, f) PROVE Moving(x, g)
  BY <1>6 DEF Moving, OnlyMoved
<1> QED
  BY <1>1, <1>2, <1>3, <1>4, <1>5, <1>6

(* The workspaces of a content keep their identity or have a fresh one.    *)
Known(s) ==
  \A w \in s.workspaces : w.id \in newIdentity \/ \E v \in kept.workspaces : v.id = w.id

(* A good content is written, or not, or half: what is served stays good,  *)
(* and so does what a request has checked.                                 *)
LEMMA WriteKeeps ==
  ASSUME CatInv, ~torn, memory.loaded, NEW s, Good(files, s), Known(s), saveStateLocked(s),
         OnlyMoved(files, files'), anchors' = anchors, restoring' = restoring,
         saving' \in {saving, Nothing}, Moving(deleting', files)
  PROVE  CatInv'
<1>1. /\ memory' \in [loaded : BOOLEAN, content : Contents]
      /\ memory'.loaded /\ memory'.content \in {kept, s}
      /\ Good(files, memory'.content)
  <2>1. s \in Contents
    BY DEF Good
  <2>2. memory \in [loaded : BOOLEAN, content : Contents] /\ Good(files, memory.content)
    BY DEF CatInv, Stored, kept
  <2>3. memory' = memory \/ memory' = [loaded |-> TRUE, content |-> s]
    BY DEF saveStateLocked, Saved, WriteFails, ChmodFails
  <2>4. CASE memory' = memory
    BY <2>2, <2>4 DEF kept
  <2>5. CASE memory' = [loaded |-> TRUE, content |-> s]
    <3>1. memory'.loaded = TRUE /\ memory'.content = s
      BY <2>5
    <3>2. memory' \in [loaded : BOOLEAN, content : Contents]
      BY <2>1, <2>5
    <3>3. Good(files, memory'.content)
      BY <3>1
    <3> QED
      BY <3>1, <3>2, <3>3
  <2> QED
    BY <2>3, <2>4, <2>5
<1>2. ASSUME NEW w \in memory'.content.workspaces
      PROVE  w.id \in newIdentity \/ \E v \in kept.workspaces : v.id = w.id
  BY <1>1 DEF Known
<1>3. Restorable(restoring, files, memory')
  <2> SUFFICES ASSUME restoring # Nothing, NEW w \in memory'.content.workspaces
               PROVE  w.id # files[restoring.path].anchor
    BY <1>1 DEF CatInv, Restorable
  <2>1. /\ restoring.path \in SessionPaths
        /\ \A v \in kept.workspaces : v.id # files[restoring.path].anchor
    BY DEF CatInv, Restorable, kept
  <2>2. files[restoring.path].anchor \notin newIdentity
    BY <2>1 DEF newIdentity, Used
  <2> QED
    BY <1>2, <2>1, <2>2
<1>4. Checked(saving', files, memory')
  <2> SUFFICES ASSUME saving' = saving, saving # Nothing, NEW t \in Threads,
                      saving.threads[t] # Nothing
               PROVE  StillOwns(memory'.content, files, saving.threads[t])
    BY <1>1 DEF CatInv, Checked
  <2> DEFINE thread == saving.threads[t]
  <2>1. StillOwns(kept, files, thread)
    BY DEF CatInv, Checked, kept
  <2>2. thread.workspace \notin newIdentity
    BY DEF newIdentity, Used, Named
  <2>3. ASSUME \A w \in kept.workspaces : w.id # thread.workspace
        PROVE  \A w \in memory'.content.workspaces : w.id # thread.workspace
    BY <1>2, <2>2, <2>3
  <2> HIDE DEF thread
  <2> QED
    BY <2>1, <2>3 DEF StillOwns, thread
<1>5. Stored(files, disk', memory', torn')
  <2>1. CASE WriteFails
    BY <2>1 DEF CatInv, Stored, WriteFails
  <2>2. CASE Saved(s)
    BY <1>1, <2>2 DEF Stored, Saved, Wrote, Good
  <2>3. CASE ChmodFails(s)
    BY <1>1, <2>3 DEF Stored, ChmodFails, Wrote, Good
  <2> QED
    BY <2>1, <2>2, <2>3 DEF saveStateLocked
<1>6. Bound(files, anchors)
  BY DEF CatInv
<1>7. /\ Good(files', memory'.content) /\ Bound(files', anchors)
      /\ Restorable(restoring, files', memory') /\ Checked(saving', files', memory')
      /\ Stored(files', disk', memory', torn') /\ Moving(deleting', files')
  BY ONLY <1>1, <1>3, <1>4, <1>5, <1>6, OnlyMoved(files, files'), Moving(deleting', files),
          MovedFiles
<1> QED
  BY <1>7 DEF CatInv, kept

(* The methods of the catalog.                                             *)
LEMMA CatalogKeeps ==
  ASSUME CatInv, ~torn, memory.loaded, NEW s, Good(files, s), Known(s), saveStateLocked(s),
         UNCHANGED serviceVars
  PROVE  CatInv'
<1>1. OnlyMoved(files, files')
  BY DEF serviceVars, OnlyMoved, CatInv, Bound
<1>2. /\ anchors' = anchors /\ restoring' = restoring /\ saving' \in {saving, Nothing}
      /\ Moving(deleting', files)
  BY DEF serviceVars, CatInv
<1> QED
  BY <1>1, <1>2, WriteKeeps

(* A workspace that changes its trust or its binding is the same one.      *)
LEMMA ReplaceKeeps ==
  ASSUME CatInv, ~torn, memory.loaded, NEW w \in kept.workspaces,
         NEW v \in WorkspaceRecord, v.id = w.id, v.place = w.place,
         saveStateLocked([kept EXCEPT !.workspaces = (@ \ {w}) \cup {v}]), UNCHANGED serviceVars
  PROVE  CatInv'
<1> DEFINE s == [kept EXCEPT !.workspaces = (@ \ {w}) \cup {v}]
<1>1. Good(files, kept)
  BY DEF CatInv
<1>2. Good(files, s)
  BY <1>1, ReplacedIsGood
<1>3. s.workspaces = (kept.workspaces \ {w}) \cup {v}
  BY <1>1 DEF Good, Contents
<1>4. saveStateLocked(s)
  OBVIOUS
<1> HIDE DEF s
<1>5. Known(s)
  BY <1>3 DEF Known
<1> QED
  BY <1>2, <1>4, <1>5, CatalogKeeps

(* A new workspace has an identity nothing refers to.                      *)
LEMMA AddKeeps ==
  ASSUME CatInv, ~torn, memory.loaded, newIdentity # {},
         NEW v \in WorkspaceRecord, v.id = CHOOSE i \in newIdentity : TRUE,
         IsLocal(v) \/ kept.targets[v.place[1]] # Nothing,
         saveStateLocked([kept EXCEPT !.workspaces = @ \cup {v}]), UNCHANGED serviceVars
  PROVE  CatInv'
<1> DEFINE s == [kept EXCEPT !.workspaces = @ \cup {v}]
<1>1. Good(files, kept)
  BY DEF CatInv
<1>2. Good(files, s)
  BY <1>1, AddedIsGood
<1>3. s.workspaces = kept.workspaces \cup {v}
  BY <1>1 DEF Good, Contents
<1>4. saveStateLocked(s)
  OBVIOUS
<1> HIDE DEF s
<1>5. v.id \in newIdentity
  OBVIOUS
<1>6. Known(s)
  BY <1>3, <1>5 DEF Known
<1> QED
  BY <1>2, <1>4, <1>6, CatalogKeeps

(* Add keeps the invariant.                                                *)
LEMMA AddPreserves ==
  ASSUME CatInv, ~torn, NEW d \in Dirs, NEW trust \in {"approve", "deny"}, Add(d, trust)
  PROVE  CatInv'
<1>1. memory.loaded /\ UNCHANGED serviceVars /\ kept.workspaces \subseteq WorkspaceRecord
  BY DEF Add, CatInv, Good, Contents
<1>2. ASSUME NEW w \in AtPlace(kept, Local(d)),
             saveStateLocked([kept EXCEPT !.workspaces = (@ \ {w}) \cup {[w EXCEPT !.trust = trust]}])
      PROVE  CatInv'
  <2> DEFINE v == [w EXCEPT !.trust = trust]
  <2>1. w \in kept.workspaces /\ w \in WorkspaceRecord
    BY <1>1 DEF AtPlace
  <2>2. v \in WorkspaceRecord /\ v.id = w.id /\ v.place = w.place
    BY <2>1 DEF WorkspaceRecord
  <2>3. saveStateLocked([kept EXCEPT !.workspaces = (@ \ {w}) \cup {v}])
    BY <1>2
  <2> HIDE DEF v
  <2> QED
    BY <1>1, <2>1, <2>2, <2>3, ReplaceKeeps
<1>3. ASSUME newIdentity # {}, NEW v,
             v = [id |-> CHOOSE i \in newIdentity : TRUE, place |-> Local(d),
                  trust |-> trust, binding |-> Nothing, platform |-> Nothing],
             saveStateLocked([kept EXCEPT !.workspaces = @ \cup {v}])
      PROVE  CatInv'
  <2>1. (CHOOSE i \in newIdentity : TRUE) \in Ids
    BY <1>3 DEF newIdentity
  <2>2. v \in WorkspaceRecord /\ v.place = Local(d) /\ v.id = CHOOSE i \in newIdentity : TRUE
    BY <1>3, <2>1 DEF WorkspaceRecord
  <2>3. IsLocal(v)
    BY <2>2, LocationsDiffer DEF IsLocal
  <2> QED
    BY <1>1, <1>3, <2>2, <2>3, AddKeeps
<1> QED
  BY <1>2, <1>3 DEF Add

(* AddSSHWorkspaceAfter keeps the invariant.                               *)
LEMMA AddSSHPreserves ==
  ASSUME CatInv, ~torn, NEW a \in Aliases, NEW r \in Roots, NEW platform \in Platforms,
         NEW trust \in {"approve", "deny"}, AddSSHWorkspaceAfter(a, r, platform, trust)
  PROVE  CatInv'
<1>1. /\ memory.loaded /\ UNCHANGED serviceVars /\ kept.workspaces \subseteq WorkspaceRecord
      /\ kept.targets[a] \in Bindings /\ kept.targets[a] # Nothing
  BY DEF AddSSHWorkspaceAfter, CatInv, Good, Contents
<1>2. ASSUME NEW w \in AtPlace(kept, Remote(a, r)),
             saveStateLocked([kept EXCEPT !.workspaces = (@ \ {w}) \cup
               {[w EXCEPT !.trust = trust, !.binding = kept.targets[a]]}])
      PROVE  CatInv'
  <2> DEFINE v == [w EXCEPT !.trust = trust, !.binding = kept.targets[a]]
  <2>1. w \in kept.workspaces /\ w \in WorkspaceRecord
    BY <1>1 DEF AtPlace
  <2>2. v \in WorkspaceRecord /\ v.id = w.id /\ v.place = w.place
    <3> DEFINE m == [w EXCEPT !.trust = trust]
    <3>1. m \in WorkspaceRecord /\ m.id = w.id /\ m.place = w.place
      BY <2>1 DEF WorkspaceRecord
    <3>2. v = [m EXCEPT !.binding = kept.targets[a]]
      OBVIOUS
    <3>3. \A b \in Bindings : /\ [m EXCEPT !.binding = b] \in WorkspaceRecord
                              /\ [m EXCEPT !.binding = b].id = m.id
                              /\ [m EXCEPT !.binding = b].place = m.place
      <4> HIDE DEF m
      <4> QED
        BY <3>1 DEF WorkspaceRecord
    <3> HIDE DEF m, v
    <3> QED
      BY <1>1, <3>1, <3>2, <3>3
  <2>3. saveStateLocked([kept EXCEPT !.workspaces = (@ \ {w}) \cup {v}])
    BY <1>2
  <2> HIDE DEF v
  <2> QED
    BY <1>1, <2>1, <2>2, <2>3, ReplaceKeeps
<1>3. ASSUME newIdentity # {}, NEW v,
             v = [id |-> CHOOSE i \in newIdentity : TRUE, place |-> Remote(a, r),
                  trust |-> trust, binding |-> kept.targets[a], platform |-> platform],
             saveStateLocked([kept EXCEPT !.workspaces = @ \cup {v}])
      PROVE  CatInv'
  <2>1. (CHOOSE i \in newIdentity : TRUE) \in Ids
    BY <1>3 DEF newIdentity
  <2>2. v \in WorkspaceRecord /\ v.place = Remote(a, r) /\ v.id = CHOOSE i \in newIdentity : TRUE
    BY <1>1, <1>3, <2>1 DEF WorkspaceRecord
  <2>3. kept.targets[v.place[1]] # Nothing
    BY <1>1, <2>2, LocationsDiffer
  <2> QED
    BY <1>1, <1>3, <2>2, <2>3, AddKeeps
<1> QED
  BY <1>2, <1>3 DEF AddSSHWorkspaceAfter

(* The other methods of the catalog keep the invariant.                    *)
LEMMA MethodsPreserve ==
  ASSUME CatInv, ~torn,
         \/ \E w \in kept.workspaces : Rename(w) \/ RemoveAfter(w)
         \/ \E a \in Aliases, b \in Bindings : RegisterTarget(a, b)
         \/ \E a \in Aliases : RemoveTargetAfter(a)
  PROVE  CatInv'
<1>1. Good(files, kept) /\ kept \in Contents
  BY DEF CatInv, Good
<1>2. ASSUME NEW w \in kept.workspaces, Rename(w) PROVE CatInv'
  <2>1. Known(kept)
    BY DEF Known
  <2> QED
    BY <1>1, <1>2, <2>1, CatalogKeeps DEF Rename
<1>3. ASSUME NEW w \in kept.workspaces, RemoveAfter(w) PROVE CatInv'
  <2>1. /\ Good(files, RemovedFrom(kept, w))
        /\ RemovedFrom(kept, w).workspaces = kept.workspaces \ {w}
    BY <1>1, RemovedIsGood
  <2>2. Known(RemovedFrom(kept, w))
    BY <2>1 DEF Known
  <2> QED
    BY <1>3, <2>1, <2>2, CatalogKeeps DEF RemoveAfter
<1>4. ASSUME NEW a \in Aliases, NEW b \in Bindings, RegisterTarget(a, b) PROVE CatInv'
  <2> DEFINE s == [kept EXCEPT !.targets[a] = b]
  <2>1. Good(files, s)
    BY <1>1, RegisteredIsGood
  <2>2. s.workspaces = kept.workspaces
    BY <1>1 DEF Contents
  <2>3. saveStateLocked(s) /\ memory.loaded /\ UNCHANGED serviceVars
    BY <1>4 DEF RegisterTarget
  <2> HIDE DEF s
  <2>4. Known(s)
    BY <2>2 DEF Known
  <2> QED
    BY <2>1, <2>3, <2>4, CatalogKeeps
<1>5. ASSUME NEW a \in Aliases, RemoveTargetAfter(a) PROVE CatInv'
  <2> DEFINE s == [kept EXCEPT !.targets[a] = Nothing]
  <2>1. \A w \in kept.workspaces : IsLocal(w) \/ w.place[1] # a
    BY <1>5 DEF RemoveTargetAfter
  <2>2. Good(files, s)
    BY <1>1, <2>1, UnregisteredIsGood
  <2>3. s.workspaces = kept.workspaces
    BY <1>1 DEF Contents
  <2>4. saveStateLocked(s) /\ memory.loaded /\ UNCHANGED serviceVars
    BY <1>5 DEF RemoveTargetAfter
  <2> HIDE DEF s
  <2>5. Known(s)
    BY <2>3 DEF Known
  <2> QED
    BY <2>2, <2>4, <2>5, CatalogKeeps
<1> QED
  BY <1>2, <1>3, <1>4, <1>5

(* A step that writes nothing and moves files only.                        *)
LEMMA MoveKeeps ==
  ASSUME CatInv, UNCHANGED <<disk, memory, torn, anchors, restoring>>, OnlyMoved(files, files'),
         saving' \in {saving, Nothing}, Moving(deleting', files)
  PROVE  CatInv'
<1>1. /\ Good(files, kept) /\ Bound(files, anchors) /\ Restorable(restoring, files, memory)
      /\ Checked(saving', files, memory) /\ Stored(files, disk, memory, torn)
      /\ Moving(deleting', files)
  BY DEF CatInv, Checked
<1>2. /\ Good(files', kept) /\ Bound(files', anchors) /\ Restorable(restoring, files', memory)
      /\ Checked(saving', files', memory) /\ Stored(files', disk, memory, torn)
      /\ Moving(deleting', files')
  BY ONLY <1>1, OnlyMoved(files, files'), MovedFiles
<1> QED
  BY <1>2 DEF CatInv, kept

(* DeleteSession, ForgetSession and DeleteWorkspaceSessions move files     *)
(* that are there.                                                         *)
LEMMA DeletionsPreserve ==
  ASSUME CatInv, ~torn,
         \/ \E p \in SessionPaths : DeleteSession(p)
         \/ ForgetSession
         \/ \E i, p : DeleteWorkspaceSessions(i, p)
  PROVE  CatInv'
<1>1. Bound(files, anchors) /\ files \in [SessionPaths -> SessionFiles] /\ Good(files, kept)
  BY DEF CatInv, Bound
<1>2. ASSUME NEW p \in SessionPaths, NEW x \in {"present", "recoverable", "gone"},
             files[p].at # "none"
      PROVE  OnlyMoved(files, [files EXCEPT ![p].at = x])
  <2> DEFINE g == [files EXCEPT ![p].at = x]
             y == [files[p] EXCEPT !.at = x]
  <2>1. /\ y \in SessionFiles /\ y.home = files[p].home /\ y.anchor = files[p].anchor
        /\ y.at # "none"
    BY <1>1 DEF SessionFiles
  <2>2. \A q \in SessionPaths : g[q] = IF q = p THEN y ELSE files[q]
    BY <1>1
  <2>3. g \in [SessionPaths -> SessionFiles]
    BY <1>1, <2>1
  <2> HIDE DEF g, y
  <2>4. OnlyMoved(files, g)
    BY <1>1, <1>2, <2>1, <2>2, <2>3 DEF OnlyMoved
  <2> QED
    BY <2>4 DEF g
<1>3. ASSUME NEW p \in SessionPaths, DeleteSession(p) PROVE CatInv'
  <2>1. files[p].at # "none" /\ files' = [files EXCEPT ![p].at = "recoverable"]
    BY <1>3 DEF DeleteSession, Readable
  <2>2. OnlyMoved(files, files') /\ Moving(deleting', files)
    BY <1>2, <1>3, <2>1 DEF DeleteSession, Moving
  <2> QED
    BY <1>3, <2>2, MoveKeeps DEF DeleteSession
<1>4. ASSUME ForgetSession PROVE CatInv'
  <2>1. deleting \in SessionPaths /\ files[deleting].at # "none" /\ memory.loaded
    BY <1>4 DEF ForgetSession, CatInv, Moving
  <2>2. OnlyMoved(files, [files EXCEPT ![deleting].at = "present"]) /\ OnlyMoved(files, files)
    BY <1>1, <1>2, <2>1 DEF OnlyMoved
  <2>3. OnlyMoved(files, files')
    BY <1>4, <2>2 DEF ForgetSession
  <2> DEFINE s == ForgottenIn(kept, deleting)
  <2>4. Good(files, s) /\ s.workspaces = kept.workspaces
    BY <1>1, WithoutIsGood DEF ForgottenIn
  <2>5. saveStateLocked(s)
    BY <1>4 DEF ForgetSession, saveStateLocked
  <2>6. /\ Moving(deleting', files) /\ anchors' = anchors /\ restoring' = restoring
        /\ saving' \in {saving, Nothing}
    BY <1>4 DEF ForgetSession, Moving
  <2> HIDE DEF s
  <2>7. Known(s)
    BY <2>4 DEF Known
  <2> QED
    BY <2>1, <2>3, <2>4, <2>5, <2>6, <2>7, WriteKeeps
<1>5. ASSUME NEW i, NEW p, DeleteWorkspaceSessions(i, p) PROVE CatInv'
  <2>1. PICK gone \in SUBSET {x \in SessionPaths : files[x].at = "present"} :
          files' = [x \in SessionPaths |->
               IF x \in gone THEN [files[x] EXCEPT !.at = "gone"] ELSE files[x]]
    BY <1>5 DEF DeleteWorkspaceSessions
  <2>2. ASSUME NEW x \in SessionPaths
        PROVE  /\ files'[x] \in SessionFiles
               /\ files'[x].home = files[x].home /\ files'[x].anchor = files[x].anchor
               /\ files'[x].at = "none" <=> files[x].at = "none"
    <3>1. files[x] \in SessionFiles
      BY <1>1
    <3> DEFINE y == [files[x] EXCEPT !.at = "gone"]
    <3>2. y \in SessionFiles /\ y.home = files[x].home /\ y.anchor = files[x].anchor /\ y.at = "gone"
      BY <3>1 DEF SessionFiles
    <3>3. CASE x \in gone
      <4>1. files'[x] = y /\ files[x].at = "present"
        BY <2>1, <3>3
      <4> HIDE DEF y
      <4> QED
        BY <3>2, <4>1
    <3>4. CASE x \notin gone
      BY <2>1, <3>1, <3>4
    <3> QED
      BY <3>3, <3>4
  <2>3. OnlyMoved(files, files')
    BY <1>1, <2>1, <2>2 DEF OnlyMoved
  <2>4. Moving(deleting', files)
    BY <1>5 DEF DeleteWorkspaceSessions, CatInv
  <2> QED
    BY <1>5, <2>3, <2>4, MoveKeeps DEF DeleteWorkspaceSessions
<1> QED
  BY <1>3, <1>4, <1>5

(* SaveDesktop keeps the invariant, whether it refuses the request or not. *)
LEMMA SaveDesktopPreserves ==
  ASSUME CatInv, ~torn, SaveDesktop
  PROVE  CatInv'
<1>1. /\ saving # Nothing /\ memory.loaded /\ saving' = Nothing
      /\ UNCHANGED <<files, anchors, deleting, restoring>>
      /\ \/ UNCHANGED <<disk, memory, torn>>
         \/ Consistent(saving) /\ saveStateLocked(Desktop)
  BY DEF SaveDesktop, Desktop, Attached
<1>2. OnlyMoved(files, files') /\ Moving(deleting', files)
  BY <1>1 DEF OnlyMoved, CatInv, Bound
<1>3. CASE UNCHANGED <<disk, memory, torn>>
  BY <1>1, <1>2, <1>3, MoveKeeps
<1>4. CASE Consistent(saving) /\ saveStateLocked(Desktop)
  <2>1. Good(files, Desktop) /\ Desktop.workspaces = kept.workspaces
    BY <1>1, <1>4, DesktopIsGood DEF CatInv
  <2>2. Known(Desktop)
    BY <2>1 DEF Known
  <2> QED
    BY <1>1, <1>2, <1>4, <2>1, <2>2, WriteKeeps
<1> QED
  BY <1>1, <1>3, <1>4

(* A thread of the request that has been let through owns its session.     *)
LEMMA ResolvedOwns ==
  ASSUME CatInv, NEW x \in AnyThread, NEW n \in Resolved(x)
  PROVE  n \in AnyThread /\ StillOwns(kept, files, n)
<1> DEFINE w == IF x.workspace # Nothing THEN ById(kept, x.workspace)
                ELSE IF x.place = NoPath THEN {} ELSE AtPlace(kept, x.place)
           i == IF w = {} THEN Nothing ELSE (CHOOSE v \in w : TRUE).id
<1>1. /\ x.workspace # Nothing => w # {}
      /\ \A v \in w : x.place = IF IsLocal(v) THEN v.place ELSE NoPath
      /\ sessionMatches(x, w)
      /\ n = NewThread(i, x.place, x.session)
  BY DEF Resolved
<1>2. /\ x.workspace \in Ids \cup {Nothing} /\ x.session \in SessionPaths \cup {Nothing}
      /\ x.place = NoPath \/ \E d \in Dirs : x.place = Local(d)
  BY DEF AnyThread
<1>3. w \subseteq kept.workspaces /\ w \subseteq WorkspaceRecord
  BY DEF ById, AtPlace, CatInv, Good, Contents
<1>4. /\ x.workspace # Nothing => \A v \in w : v.id = x.workspace
      /\ x.workspace = Nothing => \A v \in w : v.place = x.place /\ x.place # NoPath
  BY DEF ById, AtPlace
<1>5. i \in Ids \cup {Nothing} /\ (w # {} => \E v \in w : i = v.id)
  <2>1. CASE w = {}
    BY <2>1
  <2>2. CASE w # {}
    <3>1. (CHOOSE v \in w : TRUE) \in w
      BY <2>2
    <3>2. i = (CHOOSE v \in w : TRUE).id
      BY <2>2
    <3> HIDE DEF w, i
    <3>3. PICK v \in w : i = v.id
      BY <3>1, <3>2
    <3>4. v.id \in Ids
      BY <1>3, <3>3, Located
    <3> QED
      BY <3>3, <3>4
  <2> QED
    BY <2>1, <2>2
<1> HIDE DEF w, i
<1>6. n.workspace = i /\ n.place = x.place /\ n.session = x.session /\ n \in AnyThread
  BY <1>1, <1>2, <1>5 DEF NewThread, AnyThread
<1>7. ASSUME x.session # Nothing
      PROVE  StillOwns(kept, files, n)
  <2> DEFINE file == files[x.session]
  <2>1. /\ file.at = "present" /\ file \in SessionFiles /\ file.home # NoPath
    BY <1>1, <1>2, <1>7 DEF sessionMatches, Readable, CatInv, Bound
  <2>2. CASE w # {} /\ \A v \in w : ~IsLocal(v)
    <3>1. PICK v \in w : file.anchor = v.id
      BY <1>1, <1>7, <2>2 DEF sessionMatches
    <3>2. x.place = NoPath /\ x.workspace # Nothing
      BY <1>1, <1>4, <2>2, <3>1
    <3>3. i = x.workspace /\ v.id = x.workspace
      BY <1>4, <1>5, <3>1, <3>2
    <3> QED
      BY <1>6, <1>7, <2>1, <3>1, <3>2, <3>3 DEF StillOwns
  <2>3. CASE ~(w # {} /\ \A v \in w : ~IsLocal(v))
    <3>1. file.anchor = Nothing /\ file.home = x.place
      BY <1>1, <1>7, <2>3 DEF sessionMatches
    <3> QED
      BY <1>6, <2>1, <3>1 DEF StillOwns
  <2> QED
    BY <2>2, <2>3
<1>8. CASE x.session = Nothing
  BY <1>6, <1>8 DEF StillOwns
<1> QED
  BY <1>6, <1>7, <1>8

(* SaveDesktopState keeps the invariant: what it has checked is checked.   *)
LEMMA SaveDesktopStatePreserves ==
  ASSUME CatInv, SaveDesktopState
  PROVE  CatInv'
<1>1. PICK threads \in [Threads -> (UNION {Resolved(x) : x \in AnyThread}) \cup {Nothing}],
           tasks \in SUBSET {w.id : w \in kept.workspaces}, active \in Threads \cup {Nothing} :
        saving' = [Empty EXCEPT !.threads = threads, !.tasks = tasks, !.active = active]
  BY DEF SaveDesktopState
<1>2. memory.loaded /\ UNCHANGED <<disk, memory, torn, files, anchors, deleting, restoring>>
  BY DEF SaveDesktopState
<1>3. ASSUME NEW t \in Threads, threads[t] # Nothing
      PROVE  threads[t] \in AnyThread /\ StillOwns(kept, files, threads[t])
  <2> DEFINE let == UNION {Resolved(x) : x \in AnyThread}
  <2>1. threads[t] \in let
    <3>1. threads \in [Threads -> let \cup {Nothing}]
      OBVIOUS
    <3> HIDE DEF let
    <3> QED
      BY <1>3, <3>1
  <2>2. PICK x \in AnyThread : threads[t] \in Resolved(x)
    BY <2>1
  <2> QED
    BY <2>2, ResolvedOwns
<1>4. saving' = [targets |-> [a \in Aliases |-> Nothing], workspaces |-> {},
                 threads |-> threads, tasks |-> tasks, active |-> active]
  BY <1>1 DEF Empty
<1>5. saving' \in Contents
  <2>1. threads \in [Threads -> AnyThread \cup {Nothing}]
    BY <1>3
  <2>2. tasks \subseteq Ids
    <3>1. \A w \in kept.workspaces : w.id \in Ids
      BY Located DEF CatInv, Good, Contents
    <3> QED
      BY <3>1
  <2> QED
    BY <1>4, <2>1, <2>2 DEF Contents
<1>6. saving'.threads = threads
  BY <1>4
<1>7. Checked(saving', files, memory)
  BY <1>2, <1>3, <1>5, <1>6 DEF Checked, kept
<1> QED
  BY <1>2, <1>7 DEF CatInv, kept

(* RestoreOrphanSession keeps the invariant: what it takes is an orphan of *)
(* the root of its workspace.                                              *)
LEMMA RestorePreserves ==
  ASSUME CatInv, NEW p \in SessionPaths, NEW w \in kept.workspaces, RestoreOrphanSession(p, w)
  PROVE  CatInv'
<1>1. /\ memory.loaded /\ MayRestore(p, w)
      /\ restoring' = [path |-> p, id |-> w.id, place |-> w.place]
      /\ UNCHANGED <<disk, memory, torn, files, anchors, saving, deleting>>
  BY DEF RestoreOrphanSession
<1>2. w \in WorkspaceRecord
  BY DEF CatInv, Good, Contents
<1>3. w.id \in Ids /\ w.place \in Remotes
  BY <1>1, <1>2, Located DEF MayRestore
<1>4. /\ files[p].at # "none" /\ files[p].anchor # Nothing
      /\ files[p].home = w.place
      /\ \A v \in kept.workspaces : v.id # files[p].anchor
  BY <1>1 DEF MayRestore, Readable, Orphan, ById, CatInv, Bound
<1>5. /\ restoring' \in [path : SessionPaths, id : Ids, place : Remotes]
      /\ restoring'.path = p /\ restoring'.place = w.place
  BY <1>1, <1>3
<1>6. Restorable(restoring', files, memory)
  BY <1>1, <1>4, <1>5 DEF Restorable, kept
<1> QED
  BY <1>1, <1>6 DEF CatInv, kept

(* An anchor that has its marker keeps it; another is created or marked.   *)
LEMMA AnchorKeeps ==
  ASSUME Bound(files, anchors), NEW i \in Ids, NEW p \in Remotes, EnsureSSHAnchor(i, p)
  PROVE  /\ Bound(files, anchors')
         /\ Anchored(i, p) => anchors'[i] = p
<1>1. /\ anchors \in [Ids -> {NoAnchor, Unmarked} \cup Remotes]
      /\ \A q \in SessionPaths : files[q].anchor \in Ids \cup {Nothing}
  BY DEF Bound, SessionFiles
<1>2. anchors' \in [Ids -> {NoAnchor, Unmarked} \cup Remotes]
  BY <1>1 DEF EnsureSSHAnchor
<1>3. ASSUME NEW j \in Ids, anchors[j] \in Remotes PROVE anchors'[j] = anchors[j]
  <2>1. anchors[j] # NoAnchor /\ anchors[j] # Unmarked
    BY <1>3, LocationsDiffer DEF NoAnchor, NoPath
  <2> QED
    BY <1>1, <2>1 DEF EnsureSSHAnchor
<1>4. ASSUME NEW q \in SessionPaths, files[q].anchor # Nothing
      PROVE  anchors'[files[q].anchor] = files[q].home /\ files[q].home \in Remotes
  BY <1>1, <1>3, <1>4 DEF Bound
<1> QED
  BY <1>2, <1>4 DEF Bound, Anchored

(* A session file that appears is nobody's yet.                            *)
LEMMA NewFile ==
  ASSUME CatInv, memory' = memory, disk' = disk, torn' = torn, saving' = saving,
         restoring' = restoring, deleting' = deleting,
         NEW p \in SessionPaths, files[p].at = "none", NEW x \in SessionFiles,
         x.at = "present", x.home # NoPath, files' = [files EXCEPT ![p] = x],
         x.anchor # Nothing => anchors'[x.anchor] = x.home /\ x.home \in Remotes,
         Bound(files, anchors')
  PROVE  CatInv'
<1>1. /\ files \in [SessionPaths -> SessionFiles]
      /\ files' \in [SessionPaths -> SessionFiles]
      /\ \A q \in SessionPaths : files'[q] = IF q = p THEN x ELSE files[q]
  BY DEF Bound
<1>2. ASSUME NEW thread \in AnyThread, Owns(files, thread) PROVE Owns(files', thread)
  BY <1>1, <1>2 DEF Owns, AnyThread
<1>3. ASSUME NEW s, Good(files, s) PROVE Good(files', s)
  BY <1>2, <1>3 DEF Good, Contents
<1>4. Bound(files', anchors')
  BY <1>1 DEF Bound
<1>5. Restorable(restoring, files', memory)
  <2> SUFFICES ASSUME restoring # Nothing PROVE Restorable(restoring, files', memory)
    BY DEF Restorable
  <2>1. Restorable(restoring, files, memory)
    BY DEF CatInv
  <2>2. restoring.path \in SessionPaths /\ restoring.path # p
    BY <2>1 DEF Restorable
  <2>3. files'[restoring.path] = files[restoring.path]
    BY <1>1, <2>2
  <2> QED
    BY <2>1, <2>3 DEF Restorable
<1>6. Checked(saving, files', memory)
  <2> SUFFICES ASSUME saving # Nothing, NEW t \in Threads, saving.threads[t] # Nothing
               PROVE  StillOwns(kept, files', saving.threads[t])
    BY DEF CatInv, Checked, kept
  <2>1. StillOwns(kept, files, saving.threads[t]) /\ saving.threads[t] \in AnyThread
    BY DEF CatInv, Checked, Contents, kept
  <2> QED
    BY <1>1, <2>1 DEF StillOwns, AnyThread
<1>7. Stored(files', disk, memory, torn)
  BY <1>3 DEF CatInv, Stored
<1>8. Moving(deleting, files')
  BY <1>1 DEF CatInv, Moving
<1>9. Good(files', kept)
  BY <1>3 DEF CatInv
<1> QED
  BY <1>4, <1>5, <1>6, <1>7, <1>8, <1>9 DEF CatInv, kept

(* Only anchors change.                                                    *)
LEMMA OnlyAnchors ==
  ASSUME CatInv, UNCHANGED <<disk, memory, torn, files, saving, deleting>>,
         restoring' \in {restoring, Nothing}, Bound(files, anchors')
  PROVE  CatInv'
BY DEF CatInv, Restorable, kept

(* A new session keeps the invariant.                                      *)
LEMMA NewSessionPreserves ==
  ASSUME CatInv, NEW p \in SessionPaths, NEW w \in kept.workspaces, NewSession(p, w)
  PROVE  CatInv'
<1>1. /\ files[p].at = "none" /\ Bound(files, anchors)
      /\ UNCHANGED <<disk, memory, torn, saving, deleting, restoring>>
  BY DEF NewSession, CatInv
<1>2. w \in WorkspaceRecord
  BY DEF CatInv, Good, Contents
<1>3. w.place \in Locations /\ w.place # NoPath /\ w.id \in Ids /\ w.id # Nothing
  BY <1>2, Located, NothingIsNothing
<1>4. CASE IsLocal(w)
  <2> DEFINE x == [at |-> "present", home |-> w.place, anchor |-> Nothing]
  <2>1. x \in SessionFiles /\ x.at = "present" /\ x.home # NoPath /\ x.anchor = Nothing
    BY <1>3 DEF SessionFiles
  <2>2. files' = [files EXCEPT ![p] = x] /\ anchors' = anchors
    BY <1>4 DEF NewSession
  <2> HIDE DEF x
  <2> QED
    BY <1>1, <2>1, <2>2, NewFile
<1>5. CASE ~IsLocal(w)
  <2>1. w.place \in Remotes /\ EnsureSSHAnchor(w.id, w.place)
    BY <1>2, <1>5, Located DEF NewSession
  <2>2. Bound(files, anchors') /\ (Anchored(w.id, w.place) => anchors'[w.id] = w.place)
    BY <1>1, <1>3, <2>1, AnchorKeeps
  <2>3. CASE Anchored(w.id, w.place)
    <3> DEFINE x == [at |-> "present", home |-> w.place, anchor |-> w.id]
    <3>1. /\ x \in SessionFiles /\ x.at = "present" /\ x.home # NoPath
          /\ x.anchor = w.id /\ x.home = w.place
      BY <1>3 DEF SessionFiles
    <3>2. files' = [files EXCEPT ![p] = x]
      BY <1>5, <2>3 DEF NewSession
    <3> HIDE DEF x
    <3> QED
      BY <1>1, <2>1, <2>2, <2>3, <3>1, <3>2, NewFile
  <2>4. CASE ~Anchored(w.id, w.place)
    <3>1. files' = files
      BY <1>5, <2>4 DEF NewSession
    <3> QED
      BY <1>1, <2>2, <3>1, OnlyAnchors
  <2> QED
    BY <2>3, <2>4
<1> QED
  BY <1>4, <1>5

(* RebindSSHAnchor keeps the invariant: no thread has an orphan's session, *)
(* so none loses it to the workspace it is restored to.                    *)
LEMMA RebindPreserves ==
  ASSUME CatInv, ~torn, RebindSSHAnchor
  PROVE  CatInv'
<1> DEFINE p == restoring.path
<1>1. /\ memory.loaded /\ p \in SessionPaths /\ restoring.id \in Ids /\ restoring.place \in Remotes
      /\ files[p].at # "none" /\ files[p].anchor # Nothing /\ files[p].home = restoring.place
      /\ \A w \in kept.workspaces : w.id # files[p].anchor
  BY DEF RebindSSHAnchor, CatInv, Restorable, kept
<1>2. UNCHANGED <<disk, memory, torn, saving, deleting>> /\ restoring' = Nothing
  BY DEF RebindSSHAnchor
<1>3. Bound(files, anchors) /\ files \in [SessionPaths -> SessionFiles]
  BY DEF CatInv, Bound
<1>4. CASE UNCHANGED <<files, anchors>>
  BY <1>2, <1>3, <1>4, OnlyAnchors
<1>5. CASE EnsureSSHAnchor(restoring.id, restoring.place) /\ files' = files
  <2>1. Bound(files, anchors')
    BY <1>1, <1>3, <1>5, AnchorKeeps
  <2> QED
    BY <1>2, <1>5, <2>1, OnlyAnchors
<1>6. CASE /\ EnsureSSHAnchor(restoring.id, restoring.place)
           /\ Anchored(restoring.id, restoring.place)
           /\ files' = [files EXCEPT ![p].anchor = restoring.id]
  <2> DEFINE file == [files[p] EXCEPT !.anchor = restoring.id]
  <2>1. Bound(files, anchors') /\ anchors'[restoring.id] = restoring.place
    BY <1>1, <1>3, <1>6, AnchorKeeps
  <2>2. /\ file \in SessionFiles /\ file.at = files[p].at /\ file.home = restoring.place
        /\ file.anchor = restoring.id
    BY <1>1, <1>3 DEF SessionFiles
  <2>3. /\ files' \in [SessionPaths -> SessionFiles]
        /\ \A q \in SessionPaths : files'[q] = IF q = p THEN file ELSE files[q]
    BY <1>1, <1>3, <1>6, <2>2
  <2> HIDE DEF file, p
  <2>4. Bound(files', anchors')
    BY <1>1, <2>1, <2>2, <2>3, LocationsDiffer DEF Bound
  <2>5. ASSUME NEW thread \in AnyThread, RefersTo(kept, thread), Owns(files, thread)
        PROVE  Owns(files', thread)
    <3>1. thread.session # p
      <4> SUFFICES ASSUME thread.session = p PROVE FALSE
        OBVIOUS
      <4>1. p # Nothing
        BY <1>1, NothingIsNothing
      <4>2. files[p].anchor = thread.workspace
        BY <1>1, <2>5, <4>1 DEF Owns
      <4> QED
        BY <1>1, <2>5, <4>2 DEF RefersTo
    <3>2. thread.session # Nothing => files'[thread.session] = files[thread.session]
      BY <2>3, <2>5, <3>1 DEF AnyThread
    <3> QED
      BY <2>5, <3>2 DEF Owns
  <2>6. Good(files', kept)
    <3>1. Good(files, kept)
      BY DEF CatInv
    <3>2. ASSUME NEW t \in Threads, kept.threads[t] # Nothing PROVE Owns(files', kept.threads[t])
      <4>1. /\ kept.threads[t] \in AnyThread /\ Owns(files, kept.threads[t])
            /\ RefersTo(kept, kept.threads[t])
        BY <3>1, <3>2 DEF Good, Contents, Resolving
      <4> QED
        BY <2>5, <4>1
    <3> QED
      BY <3>1, <3>2 DEF Good
  <2>7. ASSUME saving # Nothing, NEW t \in Threads, saving.threads[t] # Nothing
        PROVE  StillOwns(kept, files', saving.threads[t])
    <3> DEFINE thread == saving.threads[t]
    <3>1. thread \in AnyThread /\ StillOwns(kept, files, thread)
      BY <2>7 DEF CatInv, Checked, Contents, kept
    <3> SUFFICES StillOwns(kept, files', thread)
      OBVIOUS
    <3> HIDE DEF thread
    <3>2. CASE thread.session # p
      <4>1. thread.session # Nothing => files'[thread.session] = files[thread.session]
        BY <2>3, <3>1, <3>2 DEF AnyThread
      <4> QED
        BY <3>1, <4>1 DEF StillOwns
    <3>3. CASE thread.session = p
      <4>1. p # Nothing
        BY <1>1, NothingIsNothing
      <4>2. thread.place = NoPath /\ thread.workspace # Nothing
        BY <1>1, <3>1, <3>3, <4>1 DEF StillOwns
      <4>3. \A w \in kept.workspaces : w.id # thread.workspace
        BY <1>1, <3>1, <3>3, <4>1, <4>2 DEF StillOwns
      <4>4. files'[p].at # "none"
        BY <1>1, <2>2, <2>3
      <4>5. files'[thread.session].at # "none"
        BY <3>3, <4>4
      <4> QED
        BY <4>2, <4>3, <4>5 DEF StillOwns
    <3> QED
      BY <3>2, <3>3
  <2>8. Checked(saving, files', memory)
    BY <2>7 DEF CatInv, Checked, kept
  <2>9. Stored(files', disk, memory, torn)
    BY <1>1, <2>6 DEF CatInv, Stored, kept
  <2>10. Moving(deleting, files')
    BY <2>2, <2>3 DEF CatInv, Moving
  <2>11. Restorable(Nothing, files', memory)
    BY DEF Restorable
  <2> QED
    BY <1>2, <2>4, <2>6, <2>8, <2>9, <2>10, <2>11 DEF CatInv, kept
<1> QED
  BY <1>4, <1>5, <1>6 DEF RebindSSHAnchor

(* Loading serves what is on disk or refuses it, or migrates it.           *)
LEMMA LoadPreserves ==
  ASSUME CatInv, ~torn, loadLocked
  PROVE  CatInv'
<1>1. /\ ~memory.loaded /\ UNCHANGED <<files, anchors, saving, deleting, restoring>>
      /\ saving = Nothing /\ restoring = Nothing
      /\ kept = Empty /\ Good(files, kept)
      /\ memory \in [loaded : BOOLEAN, content : Contents]
      /\ disk.version \in {"none", "legacy", "current"}
  BY DEF loadLocked, CatInv, Checked, Restorable, Stored, kept
<1>2. ASSUME NEW s, Good(files, s), Stored(files, disk', memory', torn'),
             memory'.content \in {s, kept}
      PROVE  CatInv'
  <2>1. Checked(saving', files', memory') /\ Restorable(restoring', files', memory')
    BY <1>1 DEF Checked, Restorable
  <2>2. Good(files', kept')
    <3>1. files' = files /\ kept' = memory'.content
      BY <1>1 DEF kept
    <3> QED
      BY <1>1, <1>2, <3>1
  <2> QED
    BY <1>1, <1>2, <2>1, <2>2 DEF CatInv
<1>3. CASE disk.version = "none" /\ memory' = [loaded |-> TRUE, content |-> Empty]
           /\ UNCHANGED <<disk, torn>>
  <2>1. Good(files, Empty) /\ Empty \in Contents
    BY EmptyIsGood DEF Good
  <2>2. /\ memory'.loaded /\ memory'.content = Empty
        /\ memory' \in [loaded : BOOLEAN, content : Contents]
    BY <1>3, <2>1
  <2>3. Stored(files, disk', memory', torn')
    BY <1>3, <2>1, <2>2 DEF CatInv, Stored
  <2> QED
    BY <1>2, <2>1, <2>2, <2>3
<1>4. CASE disk.version = "current" /\ UNCHANGED <<disk, torn>>
           /\ memory' \in {[loaded |-> TRUE, content |-> disk.content], memory}
  <2>1. Good(files, disk.content) /\ disk.content \in Contents
    BY <1>4 DEF CatInv, Stored, Good
  <2>2. CASE memory' = [loaded |-> TRUE, content |-> disk.content]
    <3>1. /\ memory'.loaded /\ memory'.content = disk.content
          /\ memory' \in [loaded : BOOLEAN, content : Contents]
      BY <2>1, <2>2
    <3>2. Stored(files, disk', memory', torn')
      BY <1>4, <2>1, <3>1 DEF CatInv, Stored
    <3> QED
      BY <1>2, <2>1, <3>1, <3>2
  <2>3. CASE memory' = memory
    <3>1. Stored(files, disk', memory', torn')
      BY <1>4, <2>3 DEF CatInv, Stored
    <3>2. memory'.content = kept
      BY <2>3 DEF kept
    <3> QED
      BY <1>2, <2>1, <3>1, <3>2
  <2> QED
    BY <1>4, <2>2, <2>3
<1>5. CASE disk.version = "legacy" /\ \E s \in Migrations(disk.content) : saveStateLocked(s)
  <2>1. PICK s \in Migrations(disk.content) : saveStateLocked(s)
    BY <1>5
  <2>2. Good(files, s) /\ s \in Contents
    BY <1>5, <2>1, MigratedIsGood DEF CatInv, Stored, Good
  <2>3. CASE Saved(s)
    <3>1. /\ memory'.loaded /\ memory'.content = s
          /\ memory' \in [loaded : BOOLEAN, content : Contents]
      BY <2>2, <2>3 DEF Saved
    <3>2. Stored(files, disk', memory', torn')
      BY <2>2, <2>3, <3>1 DEF Stored, Saved, Wrote
    <3> QED
      BY <1>2, <2>2, <3>1, <3>2
  <2>4. CASE WriteFails
    <3>1. Stored(files, disk', memory', torn') /\ memory'.content = kept
      BY <2>4 DEF CatInv, Stored, WriteFails, kept
    <3> QED
      BY <1>2, <2>2, <3>1
  <2>5. CASE ChmodFails(s)
    <3>1. memory' = memory /\ memory'.content = kept
      BY <2>5 DEF ChmodFails, kept
    <3>2. Stored(files, disk', memory', torn')
      BY <1>1, <2>2, <2>5, <3>1 DEF CatInv, Stored, ChmodFails, Wrote, kept
    <3> QED
      BY <1>2, <2>2, <3>1, <3>2
  <2> QED
    BY <2>1, <2>3, <2>4, <2>5 DEF saveStateLocked
<1> QED
  BY <1>3, <1>4, <1>5 DEF loadLocked

(* Quitting forgets what was under way; the disk stays good.               *)
LEMMA QuitPreserves ==
  ASSUME CatInv, Quit
  PROVE  CatInv'
<1>1. /\ memory' = [loaded |-> FALSE, content |-> Empty] /\ torn' = FALSE
      /\ saving' = Nothing /\ deleting' = Nothing /\ restoring' = Nothing
      /\ UNCHANGED <<disk, files, anchors>>
  BY DEF Quit, Unloaded
<1>2. Good(files, Empty) /\ Empty \in Contents
  BY EmptyIsGood DEF Good
<1>3. /\ ~memory'.loaded /\ memory'.content = Empty
      /\ memory' \in [loaded : BOOLEAN, content : Contents]
  BY <1>1, <1>2
<1>4. CASE disk.version # "legacy"
  <2>1. Stored(files, disk', memory', torn')
    BY <1>1, <1>3 DEF CatInv, Stored
  <2> QED
    BY <1>1, <1>2, <1>3, <2>1 DEF CatInv, kept, Restorable, Checked, Moving
<1>5. CASE disk.version = "legacy"
  <2>1. Stored(files, disk', memory', torn')
    BY <1>1, <1>3, <1>5 DEF CatInv, Stored
  <2> QED
    BY <1>1, <1>2, <1>3, <2>1 DEF CatInv, kept, Restorable, Checked, Moving
<1> QED
  BY <1>4, <1>5

(* The invariant holds when the application starts for the first time, or  *)
(* over a file of an old version.                                          *)
LEMMA CatalogStarts ==
  ASSUME CatalogInit
  PROVE  CatInv
<1>1. /\ memory = [loaded |-> FALSE, content |-> Empty] /\ torn = FALSE
      /\ files = [p \in SessionPaths |-> [at |-> "none", home |-> NoPath, anchor |-> Nothing]]
      /\ anchors = [i \in Ids |-> NoAnchor]
      /\ saving = Nothing /\ deleting = Nothing /\ restoring = Nothing
  BY DEF CatalogInit, Unloaded
<1>2. Good(files, Empty) /\ Empty \in Contents
  BY EmptyIsGood DEF Good
<1>3. /\ ~memory.loaded /\ memory.content = Empty
      /\ memory \in [loaded : BOOLEAN, content : Contents]
  BY <1>1, <1>2
<1>4. Bound(files, anchors)
  BY <1>1 DEF Bound, SessionFiles
<1>5. Stored(files, disk, memory, torn)
  <2>1. CASE disk = [version |-> "none", content |-> Empty]
    BY <1>1, <1>2, <1>3, <2>1 DEF Stored
  <2>2. ASSUME NEW ds \in SUBSET Dirs, NEW ts \in SUBSET Threads, NEW d \in Dirs, NEW s,
               s = [Empty EXCEPT !.workspaces = {LegacyRecord(x) : x \in ds},
               !.threads = [t \in Threads |->
                 IF t \in ts THEN NewThread(Nothing, Local(d), Nothing) ELSE Nothing]],
               disk = [version |-> "legacy", content |-> s]
        PROVE  Stored(files, disk, memory, torn)
    <3>1. s \in OldContents
      <4> DEFINE th == [t \in Threads |->
                          IF t \in ts THEN NewThread(Nothing, Local(d), Nothing) ELSE Nothing]
                 ws == {LegacyRecord(x) : x \in ds}
      <4>1. th \in [Threads -> OldThreads \cup {Nothing}] /\ ws \subseteq {LegacyRecord(x) : x \in Dirs}
        BY DEF OldThreads
      <4>2. s = [targets |-> [a \in Aliases |-> Nothing], workspaces |-> ws, threads |-> th,
                 tasks |-> {}, active |-> Nothing]
        BY <2>2 DEF Empty
      <4> HIDE DEF th, ws
      <4> QED
        BY <4>1, <4>2 DEF OldContents
    <3> QED
      BY <1>1, <1>3, <2>2, <3>1 DEF Stored
  <2> QED
    BY <2>1, <2>2 DEF CatalogInit
<1> QED
  BY <1>1, <1>2, <1>3, <1>4, <1>5 DEF CatInv, kept, Restorable, Checked, Moving

(* Every step keeps the invariant.                                         *)
LEMMA CatalogSteps ==
  ASSUME CatInv, CatalogNext
  PROVE  CatInv'
<1>1. CASE Quit
  BY <1>1, QuitPreserves
<1>2. CASE ~torn /\ (loadLocked \/ SaveDesktopState \/ SaveDesktop \/ ForgetSession \/ RebindSSHAnchor)
  BY <1>2, LoadPreserves, SaveDesktopStatePreserves, SaveDesktopPreserves, DeletionsPreserve,
     RebindPreserves
<1>3. CASE ~torn /\ \E d \in Dirs, trust \in {"approve", "deny"} : Add(d, trust)
  BY <1>3, AddPreserves
<1>4. CASE ~torn /\ \/ \E w \in kept.workspaces : Rename(w) \/ RemoveAfter(w)
                    \/ \E a \in Aliases, b \in Bindings : RegisterTarget(a, b)
                    \/ \E a \in Aliases : RemoveTargetAfter(a)
  BY <1>4, MethodsPreserve
<1>5. CASE ~torn /\ \E a \in Aliases, r \in Roots, x \in Platforms, trust \in {"approve", "deny"} :
                      AddSSHWorkspaceAfter(a, r, x, trust)
  BY <1>5, AddSSHPreserves
<1>6. CASE \E p \in SessionPaths, w \in kept.workspaces : NewSession(p, w) \/ RestoreOrphanSession(p, w)
  BY <1>6, NewSessionPreserves, RestorePreserves
<1>7. CASE ~torn /\ \E p \in SessionPaths : DeleteSession(p)
  BY <1>7, DeletionsPreserve
<1>8. CASE ~torn /\ \E i \in Ids, p \in {Local(d) : d \in Dirs}
                               \cup {Remote(a, r) : a \in Aliases, r \in Roots} :
             DeleteWorkspaceSessions(i, p)
  BY <1>8, DeletionsPreserve
<1> QED
  BY <1>1, <1>2, <1>3, <1>4, <1>5, <1>6, <1>7, <1>8 DEF CatalogNext

(* The invariant holds in every reachable state.                           *)
LEMMA CatInvHolds == CatalogSpec => []CatInv
<1>1. CatalogInit => CatInv
  BY CatalogStarts
<1>2. CatInv /\ [CatalogNext]_catalogVars => CatInv'
  <2>1. CatInv /\ CatalogNext => CatInv'
    BY CatalogSteps
  <2>2. CatInv /\ UNCHANGED catalogVars => CatInv'
    BY DEF catalogVars, CatInv, kept
  <2> QED
    BY <2>1, <2>2
<1> QED
  BY <1>1, <1>2, PTL DEF CatalogSpec

(* The catalog serves a state that holds together, whatever calls return,  *)
(* fail or race: threads, scheduled tasks and remote workspaces refer to   *)
(* what it has, no thread is related to a foreign transcript, and, but     *)
(* after a torn write, a restart finds the same state again.               *)
THEOREM CatalogStaysSound == CatalogSpec => []CatalogIsSound
<1>1. CatInv => CatalogTypeOK
  BY DEF CatInv, Good, Contents, Bound, SessionFiles, Stored, Moving, CatalogTypeOK, kept
<1>2. CatInv => ReferencesResolve
  BY DEF CatInv, Good, Resolving, RefersTo, ReferencesResolve
<1>3. CatInv => TranscriptsBelong
  <2> SUFFICES ASSUME CatInv PROVE TranscriptsBelong
    OBVIOUS
  <2>1. \A t \in Threads : kept.threads[t] # Nothing => Owns(files, kept.threads[t])
    BY DEF CatInv, Good
  <2>2. \A p \in SessionPaths : files[p].anchor # Nothing => anchors[files[p].anchor] = files[p].home
    BY DEF CatInv, Bound
  <2> QED
    BY <2>1, <2>2 DEF Owns, TranscriptsBelong
<1>4. CatInv => ServedStateIsSaved
  BY DEF CatInv, Stored, ServedStateIsSaved, kept
<1>5. CatInv => CatalogIsSound
  BY <1>1, <1>2, <1>3, <1>4 DEF CatalogIsSound, CatalogConsistent
<1> QED
  BY <1>5, CatInvHolds, PTL

-----------------------------------------------------------------------------
(* The configuration documents                                             *)

Documents == {"models", "mcp", "project mcp", "packages", "project packages"}

(* No model is without its provider.                                       *)
HaveProviders(doc) ==
  \A p \in Providers, m \in Models : doc[<<p, Fields>>] = Absent => doc[<<p, m>>] = Absent

WellFormed(d, doc) == DOMAIN doc = KeysOf(d) /\ (d = "models" => HaveProviders(doc))

(* What an edit read and does not name is in what it writes.               *)
KeepsTheRest(d, e) ==
  \A k \in KeysOf(d) \ e.names :
    Has(e.read, k) =>
      e.writes[IF d = "models" /\ k[1] = e.from THEN <<e.to, k[2]>> ELSE k] = e.read[k]

DocumentInv ==
  /\ document \in Documents
  /\ WellFormed(document, content)
  /\ edit # NoEdit => /\ WellFormed(document, edit.read) /\ WellFormed(document, edit.writes)
                      /\ KeepsTheRest(document, edit)

(* The keys of the models document.                                        *)
LEMMA ModelDocumentKeys ==
  \A k : k \in KeysOf("models") <=> \E p \in Providers, f \in Models \cup {Fields} : k = <<p, f>>
BY DEF KeysOf, ProviderKeys, ModelKeys

(* What becomes of each key of doc when a provider is rebound.             *)
IsRebound(n, doc, from, to) ==
  /\ DOMAIN n = KeysOf("models")
  /\ n[<<to, Fields>>] = "set here"
  /\ \A m \in Models : n[<<to, m>>] = doc[<<from, m>>]
  /\ from # to => \A f \in Models \cup {Fields} : n[<<from, f>>] = Absent
  /\ \A p \in Providers : p # from /\ p # to =>
       \A f \in Models \cup {Fields} : n[<<p, f>>] = doc[<<p, f>>]
  /\ from # to => \A m \in Models : doc[<<to, m>>] = Absent

(* A rebound provider takes its models with it, and the name it gets was   *)
(* nobody's.                                                               *)
LEMMA ReboundKeys ==
  ASSUME NEW doc, WellFormed("models", doc), NEW from \in Providers, NEW to \in Providers,
         CanRebind(doc, from, to)
  PROVE  IsRebound(Rebound(doc, from, to), doc, from, to)
<1> DEFINE base == IF from = to THEN doc ELSE Renamed(doc, from, to)
           n == Rebound(doc, from, to)
<1>1. /\ DOMAIN doc = KeysOf("models") /\ HaveProviders(doc)
      /\ \A p \in Providers, f \in Models \cup {Fields} : <<p, f>> \in KeysOf("models")
  BY ModelDocumentKeys DEF WellFormed
<1>2. /\ DOMAIN base = KeysOf("models")
      /\ \A p \in Providers, f \in Models \cup {Fields} :
           base[<<p, f>>] = IF from = to THEN doc[<<p, f>>]
                            ELSE IF p = to THEN doc[<<from, f>>]
                            ELSE IF p = from THEN Absent ELSE doc[<<p, f>>]
  BY <1>1 DEF Renamed
<1>3. n = [base EXCEPT ![<<to, Fields>>] = "set here"]
  BY DEF Rebound
<1> HIDE DEF base, n
<1>4. /\ DOMAIN n = KeysOf("models")
      /\ \A k \in KeysOf("models") : n[k] = IF k = <<to, Fields>> THEN "set here" ELSE base[k]
  BY <1>2, <1>3
<1>5. \A p \in Providers, f \in Models \cup {Fields} :
        n[<<p, f>>] = IF p = to /\ f = Fields THEN "set here" ELSE base[<<p, f>>]
  BY <1>1, <1>4
<1>6. from # to => \A m \in Models : doc[<<to, m>>] = Absent
  BY <1>1 DEF CanRebind, Has, HaveProviders
<1> QED
  BY <1>2, <1>4, <1>5, <1>6, KeysAndValues DEF n, IsRebound

(* An edit that is computed keeps what it does not name.                   *)
LEMMA ComputeKeeps ==
  ASSUME DocumentInv, NEW names, NEW from, NEW to, NEW next, Compute(names, from, to, next),
         WellFormed(document, next),
         \A k \in KeysOf(document) \ names :
           Has(content, k) =>
             next[IF document = "models" /\ k[1] = from THEN <<to, k[2]>> ELSE k] = content[k]
  PROVE  DocumentInv'
<1>1. /\ edit' = [names |-> names, from |-> from, to |-> to, read |-> content, writes |-> next]
      /\ document' = document /\ content' = content
  BY DEF Compute
<1>2. /\ edit'.names = names /\ edit'.from = from /\ edit'.to = to /\ edit'.read = content
      /\ edit'.writes = next
  BY <1>1
<1>3. KeepsTheRest(document, edit')
  BY <1>2 DEF KeepsTheRest
<1>4. document' \in Documents /\ WellFormed(document, content)
  BY <1>1 DEF DocumentInv
<1> QED
  BY <1>1, <1>2, <1>3, <1>4 DEF DocumentInv

(* One model is added or replaced.                                         *)
LEMMA UpsertModelKeeps ==
  ASSUME DocumentInv, NEW from \in Providers, NEW to \in Providers, NEW old \in Models \cup {Absent},
         NEW m \in Models, UpsertModel(from, to, old, m)
  PROVE  DocumentInv'
<1> DEFINE doc == Rebound(content, from, to)
           names == {<<from, Fields>>, <<to, Fields>>, <<from, old>>}
           next == [k \in DOMAIN doc |-> CASE k = <<to, m>> -> "set here"
                                     [] k = <<to, old>> /\ old # m -> Absent
                                     [] OTHER -> doc[k]]
<1>1. /\ document = "models" /\ WellFormed("models", content) /\ CanRebind(content, from, to)
      /\ m # old => ~Has(doc, <<to, m>>)
      /\ Compute(names, from, to, next)
  BY DEF UpsertModel, DocumentInv
<1>0. WellFormed("models", content) /\ CanRebind(content, from, to)
  BY <1>1
<1>2. IsRebound(doc, content, from, to)
  <2> HIDE DEF next, names
  <2> QED
    BY <1>0, ReboundKeys
<1> HIDE DEF doc
<1>3. /\ DOMAIN next = KeysOf("models")
      /\ \A k \in KeysOf("models") : next[k] = CASE k = <<to, m>> -> "set here"
                                     [] k = <<to, old>> /\ old # m -> Absent
                                     [] OTHER -> doc[k]
  BY <1>2 DEF IsRebound
<1> HIDE DEF next
<1>4. \A p \in Providers, f \in Models \cup {Fields} : <<p, f>> \in KeysOf("models")
  BY ModelDocumentKeys
<1>5. \A p \in Providers, f \in Models \cup {Fields} :
        next[<<p, f>>] = IF p = to /\ f = m THEN "set here"
                         ELSE IF p = to /\ f = old /\ old # m THEN Absent ELSE doc[<<p, f>>]
  BY <1>3, <1>4
<1>6. old # Fields /\ m # Fields
  BY KeysAndValues
<1>7. HaveProviders(next)
  <2> SUFFICES ASSUME NEW p \in Providers, NEW x \in Models, next[<<p, Fields>>] = Absent
               PROVE  next[<<p, x>>] = Absent
    BY DEF HaveProviders
  <2>1. CASE p = to
    BY <1>2, <1>5, <1>6, <2>1, KeysAndValues DEF IsRebound
  <2>2. CASE p = from /\ p # to
    BY <1>2, <1>5, <2>2 DEF IsRebound
  <2>3. CASE p \notin {from, to}
    <3>1. \A f \in Models \cup {Fields} : next[<<p, f>>] = doc[<<p, f>>]
      BY <1>5, <2>3
    <3>2. \A f \in Models \cup {Fields} : doc[<<p, f>>] = content[<<p, f>>]
      BY <1>2, <2>3 DEF IsRebound
    <3>3. \A f \in Models \cup {Fields} : next[<<p, f>>] = content[<<p, f>>]
      BY <3>1, <3>2
    <3>4. next[<<p, Fields>>] = content[<<p, Fields>>] /\ next[<<p, x>>] = content[<<p, x>>]
      BY <3>3
    <3> QED
      BY <1>0, <3>4 DEF WellFormed, HaveProviders
  <2> QED
    BY <2>1, <2>2, <2>3
<1>8. ASSUME NEW k \in KeysOf("models") \ names, Has(content, k)
      PROVE  next[IF k[1] = from THEN <<to, k[2]>> ELSE k] = content[k]
  <2>1. PICK p \in Providers, f \in Models \cup {Fields} : k = <<p, f>>
    BY <1>8, ModelDocumentKeys
  <2>2. k[1] = p /\ k[2] = f /\ content[<<p, f>>] # Absent
    BY <1>8, <2>1 DEF Has
  <2>3. CASE p = from
    <3>1. f \in Models /\ f # old
      BY <1>8, <2>1, <2>3
    <3>2. doc[<<to, f>>] = content[<<from, f>>] /\ doc[<<to, f>>] # Absent
      BY <1>2, <2>2, <2>3, <3>1 DEF IsRebound
    <3>3. f # m
      BY <1>1, <3>1, <3>2 DEF Has
    <3> QED
      BY <1>5, <2>1, <2>2, <2>3, <3>1, <3>2, <3>3
  <2>4. CASE p # from
    <3>1. p # to
      BY <1>2, <1>8, <2>1, <2>2, <2>4 DEF IsRebound
    <3>2. next[<<p, f>>] = doc[<<p, f>>]
      BY <1>5, <3>1
    <3>3. doc[<<p, f>>] = content[<<p, f>>]
      BY <1>2, <2>4, <3>1 DEF IsRebound
    <3> QED
      BY <2>1, <2>2, <2>4, <3>2, <3>3
  <2> QED
    BY <2>3, <2>4
<1>9. WellFormed(document, next)
  BY <1>1, <1>3, <1>7 DEF WellFormed
<1> HIDE DEF names
<1> QED
  BY <1>1, <1>8, <1>9, ComputeKeeps

(* A set of discovered models is added.                                    *)
LEMMA AddModelsKeeps ==
  ASSUME DocumentInv, NEW from \in Providers, NEW to \in Providers, NEW ms \in SUBSET Models,
         AddModels(from, to, ms)
  PROVE  DocumentInv'
<1> DEFINE doc == Rebound(content, from, to)
           names == {<<from, Fields>>, <<to, Fields>>}
           next == [k \in DOMAIN doc |-> IF k[1] = to /\ k[2] \in ms THEN "set here" ELSE doc[k]]
<1>1. /\ document = "models" /\ WellFormed("models", content) /\ CanRebind(content, from, to)
      /\ \A m \in ms : ~Has(doc, <<to, m>>)
      /\ Compute(names, from, to, next)
  BY DEF AddModels, DocumentInv
<1>0. WellFormed("models", content) /\ CanRebind(content, from, to)
  BY <1>1
<1>2. IsRebound(doc, content, from, to)
  <2> HIDE DEF next, names
  <2> QED
    BY <1>0, ReboundKeys
<1> HIDE DEF doc
<1>3. /\ DOMAIN next = KeysOf("models")
      /\ \A k \in KeysOf("models") :
           next[k] = IF k[1] = to /\ k[2] \in ms THEN "set here" ELSE doc[k]
  BY <1>2 DEF IsRebound
<1> HIDE DEF next
<1>4. \A p \in Providers, f \in Models \cup {Fields} : <<p, f>> \in KeysOf("models")
  BY ModelDocumentKeys
<1>5. \A p \in Providers, f \in Models \cup {Fields} :
        next[<<p, f>>] = IF p = to /\ f \in ms THEN "set here" ELSE doc[<<p, f>>]
  BY <1>3, <1>4
<1>6. Fields \notin ms
  BY KeysAndValues
<1>7. HaveProviders(next)
  <2> SUFFICES ASSUME NEW p \in Providers, NEW x \in Models, next[<<p, Fields>>] = Absent
               PROVE  next[<<p, x>>] = Absent
    BY DEF HaveProviders
  <2>1. CASE p = to
    BY <1>2, <1>5, <1>6, <2>1, KeysAndValues DEF IsRebound
  <2>2. CASE p = from /\ p # to
    BY <1>2, <1>5, <2>2 DEF IsRebound
  <2>3. CASE p \notin {from, to}
    <3>1. \A f \in Models \cup {Fields} : next[<<p, f>>] = doc[<<p, f>>]
      BY <1>5, <2>3
    <3>2. \A f \in Models \cup {Fields} : doc[<<p, f>>] = content[<<p, f>>]
      BY <1>2, <2>3 DEF IsRebound
    <3>3. \A f \in Models \cup {Fields} : next[<<p, f>>] = content[<<p, f>>]
      BY <3>1, <3>2
    <3>4. next[<<p, Fields>>] = content[<<p, Fields>>] /\ next[<<p, x>>] = content[<<p, x>>]
      BY <3>3
    <3> QED
      BY <1>0, <3>4 DEF WellFormed, HaveProviders
  <2> QED
    BY <2>1, <2>2, <2>3
<1>8. ASSUME NEW k \in KeysOf("models") \ names, Has(content, k)
      PROVE  next[IF k[1] = from THEN <<to, k[2]>> ELSE k] = content[k]
  <2>1. PICK p \in Providers, f \in Models \cup {Fields} : k = <<p, f>>
    BY <1>8, ModelDocumentKeys
  <2>2. k[1] = p /\ k[2] = f /\ content[<<p, f>>] # Absent
    BY <1>8, <2>1 DEF Has
  <2>3. CASE p = from
    <3>1. f \in Models
      BY <1>8, <2>1, <2>3
    <3>2. doc[<<to, f>>] = content[<<from, f>>] /\ doc[<<to, f>>] # Absent
      BY <1>2, <2>2, <2>3, <3>1 DEF IsRebound
    <3>3. f \notin ms
      BY <1>1, <3>1, <3>2 DEF Has
    <3> QED
      BY <1>5, <2>1, <2>2, <2>3, <3>1, <3>2, <3>3
  <2>4. CASE p # from
    <3>1. p # to
      BY <1>2, <1>8, <2>1, <2>2, <2>4 DEF IsRebound
    <3> QED
      BY <1>2, <1>5, <2>1, <2>2, <2>4, <3>1 DEF IsRebound
  <2> QED
    BY <2>3, <2>4
<1>9. WellFormed(document, next)
  BY <1>1, <1>3, <1>7 DEF WellFormed
<1> HIDE DEF names
<1> QED
  BY <1>1, <1>8, <1>9, ComputeKeeps

(* A model or a provider is deleted.                                       *)
LEMMA DeleteModelsKeeps ==
  ASSUME DocumentInv, NEW p \in Providers,
         DeleteProvider(p) \/ \E m \in Models : DeleteModel(p, m)
  PROVE  DocumentInv'
<1>1. document = "models"
  BY DEF DeleteProvider, DeleteModel
<1>2. /\ DOMAIN content = KeysOf("models") /\ HaveProviders(content)
      /\ \A q \in Providers, f \in Models \cup {Fields} : <<q, f>> \in KeysOf("models")
  BY <1>1, ModelDocumentKeys DEF DocumentInv, WellFormed
<1>3. ASSUME NEW names, NEW next, Compute(names, p, p, next),
             DOMAIN next = KeysOf("models"), HaveProviders(next),
             \A k \in KeysOf("models") \ names : next[k] = content[k]
      PROVE  DocumentInv'
  <2>1. ASSUME NEW k \in KeysOf("models") \ names
        PROVE  next[IF k[1] = p THEN <<p, k[2]>> ELSE k] = content[k]
    <3>1. k = <<k[1], k[2]>>
      BY <2>1, ModelDocumentKeys
    <3> QED
      BY <1>3, <3>1
  <2>2. WellFormed(document, next)
    BY <1>1, <1>3 DEF WellFormed
  <2> QED
    BY <1>1, <1>3, <2>1, <2>2, ComputeKeeps
<1>4. ASSUME DeleteProvider(p) PROVE DocumentInv'
  <2> DEFINE names == ProviderKeys(p)
             next == [k \in DOMAIN content |-> IF k[1] = p THEN Absent ELSE content[k]]
  <2>1. Compute(names, p, p, next)
    BY <1>4 DEF DeleteProvider
  <2>2. \A q \in Providers, f \in Models \cup {Fields} :
          next[<<q, f>>] = IF q = p THEN Absent ELSE content[<<q, f>>]
    BY <1>2
  <2>3. \A k \in KeysOf("models") \ names : next[k] = content[k]
    <3> SUFFICES ASSUME NEW k \in KeysOf("models") \ names PROVE next[k] = content[k]
      OBVIOUS
    <3>1. PICK q \in Providers, f \in Models \cup {Fields} : k = <<q, f>>
      BY ModelDocumentKeys
    <3>2. q # p
      BY <3>1 DEF ProviderKeys, ModelKeys
    <3> QED
      BY <2>2, <3>1, <3>2
  <2>4. DOMAIN next = KeysOf("models")
    BY <1>2
  <2> HIDE DEF next, names
  <2>5. HaveProviders(next)
    BY <1>2, <2>2 DEF HaveProviders
  <2> QED
    BY <1>3, <2>1, <2>3, <2>4, <2>5
<1>5. ASSUME NEW m \in Models, DeleteModel(p, m) PROVE DocumentInv'
  <2> DEFINE names == {<<p, m>>}
             next == [content EXCEPT ![<<p, m>>] = Absent]
  <2>1. Compute(names, p, p, next)
    BY <1>5 DEF DeleteModel
  <2>2. /\ DOMAIN next = KeysOf("models")
        /\ \A k \in KeysOf("models") : next[k] = IF k = <<p, m>> THEN Absent ELSE content[k]
    BY <1>2
  <2>3. \A q \in Providers, f \in Models \cup {Fields} :
          next[<<q, f>>] = IF q = p /\ f = m THEN Absent ELSE content[<<q, f>>]
    BY <1>2, <2>2
  <2>4. \A k \in KeysOf("models") \ names : next[k] = content[k]
    BY <2>2
  <2> HIDE DEF next, names
  <2>5. HaveProviders(next)
    BY <1>2, <2>3, KeysAndValues DEF HaveProviders
  <2> QED
    BY <1>3, <2>1, <2>2, <2>4, <2>5
<1> QED
  BY <1>4, <1>5

(* Servers and packages: one key is set or removed, or renamed to one that *)
(* was free.                                                               *)
LEMMA ServersOrPackagesKeep ==
  ASSUME DocumentInv, EditServersOrPackages
  PROVE  DocumentInv'
<1>1. document # "models" /\ DOMAIN content = KeysOf(document)
  BY DEF EditServersOrPackages, DeleteMcpServer, UpsertMcpServer, SetPackageEnabled, MayEdit,
         DocumentInv, WellFormed
<1>2. ASSUME NEW names, NEW next, Compute(names, Absent, Absent, next),
             DOMAIN next = KeysOf(document),
             \A k \in KeysOf(document) \ names : Has(content, k) => next[k] = content[k]
      PROVE  DocumentInv'
  <2>1. WellFormed(document, next)
    BY <1>1, <1>2 DEF WellFormed
  <2> QED
    BY <1>1, <1>2, <2>1, ComputeKeeps
<1>3. ASSUME NEW k, NEW v, Compute({k}, Absent, Absent, [content EXCEPT ![k] = v]) PROVE DocumentInv'
  <2> DEFINE next == [content EXCEPT ![k] = v]
  <2>1. /\ DOMAIN next = KeysOf(document)
        /\ \A c \in KeysOf(document) \ {k} : next[c] = content[c]
    BY <1>1
  <2>2. Compute({k}, Absent, Absent, next)
    BY <1>3
  <2> HIDE DEF next
  <2> QED
    BY <1>2, <2>1, <2>2
<1>4. ASSUME NEW n \in Servers, NEW old \in Servers \cup {Absent}, UpsertMcpServer(old, n)
      PROVE  DocumentInv'
  <2> DEFINE next == [k \in DOMAIN content |-> CASE k = n -> "set here"
                                         [] k = old /\ old # n -> Absent
                                         [] OTHER -> content[k]]
  <2>1. Compute({old}, Absent, Absent, next) /\ (n # old => ~Has(content, n))
    BY <1>4 DEF UpsertMcpServer
  <2>2. DOMAIN next = KeysOf(document)
    BY <1>1
  <2>3. \A k \in KeysOf(document) \ {old} : Has(content, k) => next[k] = content[k]
    BY <1>1, <2>1
  <2> HIDE DEF next
  <2> QED
    BY <1>2, <2>1, <2>2, <2>3
<1>5. ASSUME NEW n \in Servers, DeleteMcpServer(n) PROVE DocumentInv'
  BY <1>3, <1>5 DEF DeleteMcpServer
<1>6. ASSUME NEW s \in Packages, NEW enabled \in BOOLEAN, SetPackageEnabled(s, enabled)
      PROVE  DocumentInv'
  <2>1. Compute({s}, Absent, Absent,
             [content EXCEPT ![s] = IF enabled THEN "plain" ELSE "disabled"])
    BY <1>6 DEF SetPackageEnabled
  <2> QED
    BY <1>3, <2>1
<1> QED
  BY <1>4, <1>5, <1>6 DEF EditServersOrPackages

(* Pi and editors leave no model without its provider.                     *)
LEMMA ForeignWriteKeeps ==
  ASSUME DocumentInv, NEW k \in DOMAIN content, ForeignWrite(k)
  PROVE  DocumentInv'
<1>1. UNCHANGED <<document, edit>> /\ DOMAIN content = KeysOf(document)
  BY DEF ForeignWrite, DocumentInv, WellFormed
<1>2. PICK v \in ForeignValues(k) \cup {Absent} :
        content' = [c \in DOMAIN content |->
                     CASE c = k -> v
                       [] document = "models" /\ k[2] = Fields /\ c \in ModelKeys(k[1])
                          /\ v # "written by hand" -> Absent
                       [] OTHER -> content[c]]
  BY DEF ForeignWrite
<1>3. DOMAIN content' = KeysOf(document)
  BY <1>1, <1>2
<1>4. ASSUME document = "models" PROVE HaveProviders(content')
  <2>1. PICK p \in Providers, f \in Models \cup {Fields} : k = <<p, f>>
    BY <1>1, <1>4, ModelDocumentKeys
  <2>2. k[1] = p /\ k[2] = f
    BY <2>1
  <2>3. \A q \in Providers, g \in Models \cup {Fields} : <<q, g>> \in DOMAIN content
    BY <1>1, <1>4, ModelDocumentKeys
  <2>4. ASSUME NEW q \in Providers, NEW g \in Models \cup {Fields}
        PROVE  content'[<<q, g>>] = IF q = p /\ g = f THEN v
                 ELSE IF f = Fields /\ q = p /\ g \in Models /\ v # "written by hand" THEN Absent
                 ELSE content[<<q, g>>]
    <3>1. <<q, g>> = k <=> q = p /\ g = f
      BY <2>1
    <3>2. <<q, g>> \in ModelKeys(k[1]) <=> q = p /\ g \in Models
      BY <2>2 DEF ModelKeys
    <3>3. ASSUME NEW c \in DOMAIN content
          PROVE  content'[c] = IF c = k THEN v
                   ELSE IF k[2] = Fields /\ c \in ModelKeys(k[1]) /\ v # "written by hand"
                          THEN Absent ELSE content[c]
      <4>1. k[2] = Fields => k \notin ModelKeys(k[1])
        <5>1. \A m \in Models : k = <<p, m>> => f = m
          BY <2>1
        <5> QED
          BY <2>2, <5>1, KeysAndValues DEF ModelKeys
      <4>2. content'[c] = CASE c = k -> v
                       [] document = "models" /\ k[2] = Fields /\ c \in ModelKeys(k[1])
                          /\ v # "written by hand" -> Absent
                       [] OTHER -> content[c]
        BY <1>2
      <4> QED
        BY <1>4, <4>1, <4>2
    <3> QED
      BY <2>2, <2>3, <3>1, <3>2, <3>3
  <2>5. HaveProviders(content)
    BY <1>4 DEF DocumentInv, WellFormed
  <2>6. f # Fields /\ content[<<p, Fields>>] = Absent => v = Absent
    BY <1>4, <2>2 DEF ForeignValues
  <2> SUFFICES ASSUME NEW q \in Providers, NEW m \in Models, content'[<<q, Fields>>] = Absent
               PROVE  content'[<<q, m>>] = Absent
    BY DEF HaveProviders
  <2>7. CASE f = Fields
    <3>1. CASE q = p
      <4>1. v = Absent /\ v # "written by hand"
        BY <2>4, <2>7, <3>1, KeysAndValues
      <4> QED
        BY <2>4, <2>7, <3>1, <4>1
    <3>2. CASE q # p
      <4>1. content'[<<q, Fields>>] = content[<<q, Fields>>] /\ content'[<<q, m>>] = content[<<q, m>>]
        BY <2>4, <3>2
      <4> QED
        BY <2>5, <4>1 DEF HaveProviders
    <3> QED
      BY <3>1, <3>2
  <2>8. CASE f # Fields
    <3>1. content[<<q, Fields>>] = Absent
      BY <2>4, <2>8
    <3>2. content[<<q, m>>] = Absent
      BY <2>5, <3>1 DEF HaveProviders
    <3> QED
      BY <2>4, <2>6, <2>8, <3>1, <3>2
  <2> QED
    BY <2>7, <2>8
<1>5. WellFormed(document, content')
  BY <1>3, <1>4 DEF WellFormed
<1> QED
  BY <1>1, <1>5 DEF DocumentInv

(* Every step keeps the invariant.                                         *)
LEMMA ConfigSteps ==
  ASSUME DocumentInv, ConfigNext
  PROVE  DocumentInv'
<1>1. CASE EditModels
  BY <1>1, UpsertModelKeeps, AddModelsKeeps, DeleteModelsKeeps DEF EditModels
<1>2. CASE EditServersOrPackages
  BY <1>2, ServersOrPackagesKeep
<1>3. CASE WriteModels \/ WriteServers \/ WritePackages
  BY <1>3 DEF WriteModels, WriteServers, WritePackages, Written, DocumentInv
<1>4. CASE \/ DocumentWriteFails \/ RefuseModel \/ RefuseServer \/ RefusePackage \/ ListModels
           \/ SetApproval
  BY <1>4 DEF DocumentWriteFails, RefuseModel, RefuseServer, RefusePackage, RefusedEdit,
              ListModels, SetApproval, DocumentInv
<1>5. CASE \E k \in DOMAIN content : ForeignWrite(k)
  BY <1>5, ForeignWriteKeeps
<1>6. CASE \E s \in Packages : PackageCommand(s)
  <2>1. PICK s \in Packages : PackageCommand(s)
    BY <1>6
  <2>2. /\ document # "models" /\ UNCHANGED <<document, edit>>
        /\ DOMAIN content = KeysOf(document)
    BY <2>1 DEF PackageCommand, MayEdit, DocumentInv, WellFormed
  <2>3. DOMAIN content' = DOMAIN content
    BY <2>1 DEF PackageCommand
  <2>4. WellFormed(document, content')
    BY <2>2, <2>3 DEF WellFormed
  <2> QED
    BY <2>2, <2>4 DEF DocumentInv
<1> QED
  BY <1>1, <1>2, <1>3, <1>4, <1>5, <1>6 DEF ConfigNext

(* The invariant holds in every reachable state.                           *)
LEMMA DocumentInvHolds == ConfigSpec => []DocumentInv
<1>1. ConfigInit => DocumentInv
  <2> SUFFICES ASSUME ConfigInit PROVE DocumentInv
    OBVIOUS
  <2>1. DOMAIN content = KeysOf(document) /\ \A k \in KeysOf(document) : content[k] = Absent
    BY DEF ConfigInit
  <2>2. document = "models" => HaveProviders(content)
    BY <2>1, ModelDocumentKeys DEF HaveProviders
  <2> QED
    BY <2>1, <2>2 DEF ConfigInit, DocumentInv, Documents, WellFormed
<1>2. DocumentInv /\ [ConfigNext]_documentVars => DocumentInv'
  <2>1. DocumentInv /\ ConfigNext => DocumentInv'
    BY ConfigSteps
  <2>2. DocumentInv /\ UNCHANGED documentVars => DocumentInv'
    BY DEF documentVars, DocumentInv
  <2> QED
    BY <2>1, <2>2
<1> QED
  BY <1>1, <1>2, PTL DEF ConfigSpec

(* An edit replaces or removes nothing but what its request names: every   *)
(* other value it read is in what it writes, under the provider's new name *)
(* if it was renamed.                                                      *)
THEOREM EditsKeepEverythingElse == ConfigSpec => EditsKeepTheRest
<1>1. DocumentInv => (edit # NoEdit /\ content = edit.read /\ content' = edit.writes =>
                 \A k \in DOMAIN content \ edit.names :
                   Has(content, k) => content'[Destination(k)] = content[k])
  <2> SUFFICES ASSUME DocumentInv, edit # NoEdit, content = edit.read, content' = edit.writes,
                      NEW k \in DOMAIN content \ edit.names, Has(content, k)
               PROVE  content'[Destination(k)] = content[k]
    OBVIOUS
  <2>1. KeepsTheRest(document, edit) /\ k \in KeysOf(document) \ edit.names
    BY DEF DocumentInv, WellFormed
  <2>2. edit.writes[Destination(k)] = edit.read[k]
    BY <2>1 DEF KeepsTheRest, Destination
  <2> QED
    BY <2>2
<1> QED
  BY <1>1, DocumentInvHolds, PTL DEF EditsKeepTheRest

-----------------------------------------------------------------------------
(* The directories of agents                                               *)

(* Between its two calls an installation of the todo extension that had    *)
(* one can put it back, or it is there.                                    *)
HalfwayInv ==
  /\ DOMAIN prompts = Names
  /\ DOMAIN extensions = Bundled \cup {Todo}
  /\ halfway \in {AtRest} \cup [request : {"prompt"}, name : Names, text : Texts]
              \cup [request : {"todo"}, replaced : BOOLEAN, had : BOOLEAN]
  /\ halfway.request = "todo" => (halfway.had => halfway.replaced \/ Loaded)

(* The three kinds of step are told by their request.                      *)
LEMMA Requests ==
  ASSUME HalfwayInv
  PROVE  /\ halfway.request \in {"none", "prompt", "todo"}
         /\ halfway.request = "none" <=> halfway = AtRest
         /\ halfway.request = "prompt" => halfway \in [request : {"prompt"}, name : Names, text : Texts]
         /\ halfway.request = "todo" => halfway \in [request : {"todo"}, replaced : BOOLEAN, had : BOOLEAN]
BY DEF HalfwayInv, AtRest

(* A request changes the directory of one service.                         *)
LEMMA FilesSteps ==
  ASSUME HalfwayInv, FilesNext
  PROVE  HalfwayInv'
<1>1. AtRest.request = "none"
  BY DEF AtRest
<1>2. CASE \/ \E n \in Names : CreateManagedSkill(n)
           \/ \E p \in Places : DeleteManagedSkill(p)
           \/ \E x \in Bundled : InstallBundled(x)
           \/ \E x \in Bundled \cup {Todo} : RemoveBundled(x)
           \/ \E n \in Names : DeletePromptTemplate(n)
           \/ Killed \/ DesktopUpdate
  <2>1. halfway' = AtRest /\ DOMAIN prompts' = DOMAIN prompts /\ DOMAIN extensions' = DOMAIN extensions
    BY <1>2 DEF CreateManagedSkill, DeleteManagedSkill, InstallBundled, RemoveBundled,
                DeletePromptTemplate, Killed, DesktopUpdate, Return, Works
  <2> QED
    BY <1>1, <2>1 DEF HalfwayInv
<1>3. CASE \/ \E p \in Places : UserAddsSkill(p)
           \/ PiDeckInstalls
  <2>1. /\ halfway' = halfway /\ prompts' = prompts /\ extensions' = extensions
        /\ Loaded => Loaded'
    BY <1>3 DEF UserAddsSkill, PiDeckInstalls, Loaded
  <2> QED
    BY <2>1 DEF HalfwayInv
<1>4. ASSUME NEW n \in Names, NEW old \in Names \cup {NoFile}, NEW text \in Texts,
             UpsertPromptTemplate(old, n, text)
      PROVE  HalfwayInv'
  <2>1. /\ DOMAIN prompts' = DOMAIN prompts /\ extensions' = extensions
        /\ halfway' = [request |-> "prompt", name |-> n, text |-> text]
    BY <1>4 DEF UpsertPromptTemplate
  <2> QED
    BY <2>1 DEF HalfwayInv
<1>5. CASE WriteTemplate \/ WriteTodo \/ WriteTodoFails
  <2>1. halfway' = AtRest /\ DOMAIN prompts' = DOMAIN prompts /\ DOMAIN extensions' = DOMAIN extensions
    BY <1>5 DEF WriteTemplate, WriteTodo, WriteTodoFails, Return
  <2> QED
    BY <1>1, <2>1 DEF HalfwayInv
<1>6. CASE InstallPiDeskTodo
  <2>1. CASE halfway' = AtRest
    BY <1>1, <1>6, <2>1 DEF HalfwayInv, InstallPiDeskTodo
  <2>2. CASE /\ legacyTodo' = IF legacyTodo = "installed" THEN "backup" ELSE legacyTodo
             /\ halfway' = [request |-> "todo", replaced |-> legacyTodo = "installed", had |-> Loaded]
    <3>1. /\ halfway'.replaced = (legacyTodo = "installed") /\ halfway'.had = Loaded
          /\ halfway' \in [request : {"todo"}, replaced : BOOLEAN, had : BOOLEAN]
      BY <2>2 DEF Loaded
    <3>2. prompts' = prompts /\ extensions' = extensions
      BY <1>6 DEF InstallPiDeskTodo
    <3>3. Loaded /\ legacyTodo # "installed" => Loaded'
      BY <2>2, <3>2 DEF Loaded
    <3> QED
      BY <3>1, <3>2, <3>3 DEF HalfwayInv
  <2> QED
    BY <1>6, <2>1, <2>2 DEF InstallPiDeskTodo, Return
<1> QED
  BY <1>2, <1>3, <1>4, <1>5, <1>6 DEF FilesNext

(* The invariant holds in every reachable state.                           *)
LEMMA HalfwayInvHolds == FilesSpec => []HalfwayInv
<1>1. FilesInit => HalfwayInv
  <2> SUFFICES ASSUME FilesInit PROVE HalfwayInv
    OBVIOUS
  <2>1. DOMAIN prompts = Names /\ DOMAIN extensions = Bundled \cup {Todo} /\ halfway = AtRest
    BY DEF FilesInit
  <2>2. halfway.request # "todo"
    BY <2>1 DEF AtRest
  <2> QED
    BY <2>1, <2>2 DEF HalfwayInv
<1>2. HalfwayInv /\ [FilesNext]_filesVars => HalfwayInv'
  <2>1. HalfwayInv /\ FilesNext => HalfwayInv'
    BY FilesSteps
  <2>2. HalfwayInv /\ UNCHANGED filesVars => HalfwayInv'
    BY DEF filesVars, HalfwayInv, Loaded
  <2> QED
    BY <2>1, <2>2
<1> QED
  BY <1>1, <1>2, PTL DEF FilesSpec

(* An installation of the todo extension that does not succeed leaves one  *)
(* loaded if one was before.                                               *)
LEMMA TodoStaysLoaded ==
  ASSUME HalfwayInv, [FilesNext]_filesVars, halfway.request = "todo", halfway' = AtRest,
         outcome' \in {"ok", "error"}, halfway.had
  PROVE  Loaded'
<1>1. halfway # AtRest /\ halfway' # halfway /\ halfway \in [request : {"todo"}, replaced : BOOLEAN, had : BOOLEAN]
  BY Requests DEF AtRest
<1>2. WriteTodo \/ WriteTodoFails \/ Killed
  BY <1>1 DEF FilesNext, filesVars, CreateManagedSkill, DeleteManagedSkill, UserAddsSkill,
     UpsertPromptTemplate, WriteTemplate, DeletePromptTemplate, InstallPiDeskTodo, InstallBundled,
     RemoveBundled, PiDeckInstalls, DesktopUpdate, Works
<1>3. CASE WriteTodo
  <2>1. extensions'[Todo] = "current"
    BY <1>3 DEF WriteTodo, HalfwayInv
  <2> QED
    BY <2>1, NoFileIsNone DEF Loaded
<1>4. CASE WriteTodoFails
  <2>1. /\ extensions' = extensions
        /\ legacyTodo' = IF halfway.replaced THEN "installed" ELSE legacyTodo
    BY <1>4 DEF WriteTodoFails, Return
  <2>2. halfway.replaced \/ Loaded
    BY DEF HalfwayInv
  <2> QED
    BY <2>1, <2>2 DEF Loaded
<1>5. CASE Killed
  BY <1>5 DEF Killed, Return
<1> QED
  BY <1>2, <1>3, <1>4, <1>5

(* The text of a template is found until it is deleted or written anew.    *)
LEMMA TextsAreFound ==
  ASSUME HalfwayInv, [FilesNext]_filesVars, NEW n \in Names, Exists(n)
  PROVE  \/ \E m \in Names : prompts'[m] = prompts[n]
         \/ DeletePromptTemplate(n)
         \/ halfway.request = "prompt" /\ halfway.name = n /\ outcome' = "ok"
<1>1. DOMAIN prompts = Names
  BY DEF HalfwayInv
<1>2. CASE prompts' = prompts
  BY <1>2
<1>3. ASSUME NEW old \in Names \cup {NoFile}, NEW m \in Names, NEW text \in Texts,
             UpsertPromptTemplate(old, m, text)
      PROVE  \E x \in Names : prompts'[x] = prompts[n]
  <2>1. CASE old \in {NoFile, m}
    BY <1>3, <2>1 DEF UpsertPromptTemplate
  <2>2. CASE old \notin {NoFile, m}
    <3>1. /\ ~Exists(m) /\ old \in Names
          /\ prompts' = [prompts EXCEPT ![m] = prompts[old], ![old] = NoFile]
      BY <1>3, <2>2 DEF UpsertPromptTemplate
    <3>2. \A x \in Names : prompts'[x] = IF x = old THEN NoFile
                                         ELSE IF x = m THEN prompts[old] ELSE prompts[x]
      BY <1>1, <3>1
    <3>3. CASE n = old
      BY <2>2, <3>2, <3>3
    <3>4. CASE n # old
      <4>1. n # m
        BY <3>1
      <4> QED
        BY <3>2, <3>4, <4>1
    <3> QED
      BY <3>3, <3>4
  <2> QED
    BY <2>1, <2>2
<1>4. CASE WriteTemplate
  <2>1. CASE prompts' = prompts
    BY <2>1
  <2>2. CASE prompts' = [prompts EXCEPT ![halfway.name] = halfway.text] /\ Return("ok")
    <3>1. CASE halfway.name = n
      BY <1>4, <2>2, <3>1 DEF WriteTemplate, Return
    <3>2. CASE halfway.name # n
      BY <1>1, <2>2, <3>2
    <3> QED
      BY <3>1, <3>2
  <2> QED
    BY <1>4, <2>1, <2>2 DEF WriteTemplate
<1>5. ASSUME NEW m \in Names, DeletePromptTemplate(m)
      PROVE  DeletePromptTemplate(n) \/ \E x \in Names : prompts'[x] = prompts[n]
  <2>1. CASE m = n
    BY <1>5, <2>1
  <2>2. CASE m # n
    <3>1. prompts'[n] = prompts[n]
      BY <1>1, <1>5, <2>2 DEF DeletePromptTemplate
    <3> QED
      BY <3>1
  <2> QED
    BY <2>1, <2>2
<1>6. \/ prompts' = prompts \/ WriteTemplate
      \/ \E m \in Names, old \in Names \cup {NoFile}, text \in Texts : UpsertPromptTemplate(old, m, text)
      \/ \E m \in Names : DeletePromptTemplate(m)
  BY DEF FilesNext, filesVars, CreateManagedSkill, DeleteManagedSkill, UserAddsSkill,
     InstallPiDeskTodo, WriteTodo, WriteTodoFails, InstallBundled,
     RemoveBundled, PiDeckInstalls, DesktopUpdate, Killed
<1> QED
  BY <1>2, <1>3, <1>4, <1>5, <1>6

(* A request that ends halfway loses nothing: an installation that does    *)
(* not succeed leaves a todo extension loaded if one was before, and the   *)
(* text of a template is found under the old or the new name until it is   *)
(* deleted or written anew.                                                *)
THEOREM HalfwayLosesNothing == FilesSpec => NothingIsLostHalfway
<1>1. HalfwayInv /\ [FilesNext]_filesVars =>
        [/\ (halfway.request = "todo" /\ halfway' = AtRest /\ outcome' \in {"ok", "error"} /\ halfway.had)
              => Loaded'
         /\ \A n \in Names :
              Exists(n) => \/ \E m \in Names : prompts'[m] = prompts[n]
                           \/ DeletePromptTemplate(n)
                           \/ halfway.request = "prompt" /\ halfway.name = n /\ outcome' = "ok"]_filesVars
  BY TodoStaysLoaded, TextsAreFound
<1> QED
  BY <1>1, HalfwayInvHolds, PTL DEF FilesSpec, NothingIsLostHalfway

-----------------------------------------------------------------------------
(* The terminals of a thread                                               *)

(* A function on 1 .. n, whatever its values are.                          *)
IsTuple(s) == \E n \in Nat : s = [k \in 1 .. n |-> s[k]]

(* A run of the output of one terminal, as its replay buffer keeps it.     *)
IsRun(output) == \E i \in Nat, n \in Nat : output = Kept(Chunks(i, n))

Quiet(l) == l.at \notin {"snapshot", "opening", "opened"}
CallOK(l) == DOMAIN l = {"op", "at", "lease", "terminal", "answer"} /\ IsRun(l.answer.output)

PtyOK(i, x) ==
  /\ DOMAIN x = {"generation", "sequence", "output", "printed", "read", "reader", "shell",
                 "stopping", "closed"}
  /\ x.read \in Nat /\ x.output = Kept(Chunks(i, x.read))

RemoteOK(i, x) ==
  /\ DOMAIN x = {"lease", "generation", "sequence", "output", "received", "seen", "events",
                 "ended", "cancelled", "consumer"}
  /\ x.events \in Seq([type : {"output", "exit"}, number : Nat])
  /\ x.received \in Nat /\ x.seen \in Nat
  /\ (\E k \in DOMAIN x.events : x.events[k].type = "exit") => x.ended
  /\ x.output = Kept(Chunks(i, x.seen))

Services == [kind : {"local", "remote"}, closed : BOOLEAN, session : Nat,
             generation : Nat, bound : Nat, bindings : Nat]

CallsInv ==
  /\ IsTuple(loads)
  /\ \A t \in DOMAIN loads :
       /\ CallOK(loads[t])
       /\ LocalThread => Quiet(loads[t])
       /\ loads[t].at = "opened" =>
            /\ loads[t].terminal \in DOMAIN remotes
            /\ remotes[loads[t].terminal].lease = loads[t].lease
       /\ loads[t].at = "found" => loads[t].terminal \in DOMAIN ptys

PtysInv == IsTuple(ptys) /\ \A i \in DOMAIN ptys : PtyOK(i, ptys[i])

RemotesInv ==
  /\ IsTuple(remotes) /\ closers \subseteq DOMAIN remotes
  /\ \A i \in DOMAIN remotes : RemoteOK(i, remotes[i])

SidesInv ==
  /\ service \in Services
  /\ LocalThread => remotes = <<>> /\ service.session \in {None} \cup DOMAIN ptys
  /\ ~LocalThread => ptys = <<>> /\ service.session \in {None} \cup DOMAIN remotes

TerminalInv == CallsInv /\ PtysInv /\ RemotesInv /\ SidesInv /\ NoStrayTerminal

-----------------------------------------------------------------------------
(* Tuples and runs.                                                        *)

(* A tuple has a length, and one more element where one is appended.       *)
LEMMA Tuples ==
  ASSUME NEW s, IsTuple(s)
  PROVE  /\ Len(s) \in Nat /\ DOMAIN s = 1 .. Len(s)
         /\ \A e : /\ IsTuple(Append(s, e)) /\ DOMAIN Append(s, e) = 1 .. Len(s) + 1
                   /\ Append(s, e)[Len(s) + 1] = e
                   /\ \A k \in 1 .. Len(s) : Append(s, e)[k] = s[k]
<1>1. PICK n \in Nat : s = [k \in 1 .. n |-> s[k]]
  BY DEF IsTuple
<1>2. ASSUME NEW e
      PROVE  /\ Len(s) = n /\ Append(s, e) = [k \in 1 .. n + 1 |-> IF k = n + 1 THEN e ELSE s[k]]
  <2> DEFINE S == {s[k] : k \in 1 .. n} \cup {e}
             a == Append(s, e)
  <2>1. s \in Seq(S)
    BY <1>1
  <2>2. Len(s) = n
    BY <1>1, <2>1
  <2>3. e \in S
    OBVIOUS
  <2> HIDE DEF S
  <2>4. a \in Seq(S) /\ Len(a) = n + 1
    BY <2>1, <2>2, <2>3
  <2>5. \A k \in 1 .. n + 1 : a[k] = IF k = n + 1 THEN e ELSE s[k]
    BY <2>1, <2>2, <2>3
  <2> HIDE DEF a
  <2>6. a = [k \in 1 .. n + 1 |-> a[k]]
    BY <2>4
  <2>7. a = [k \in 1 .. n + 1 |-> IF k = n + 1 THEN e ELSE s[k]]
    BY <2>5, <2>6
  <2> QED
    BY <2>2, <2>7 DEF a
<1>3. ASSUME NEW e
      PROVE  /\ IsTuple(Append(s, e)) /\ DOMAIN Append(s, e) = 1 .. Len(s) + 1
             /\ Append(s, e)[Len(s) + 1] = e
             /\ \A k \in 1 .. Len(s) : Append(s, e)[k] = s[k]
  <2> DEFINE a == Append(s, e)
  <2>1. Len(s) = n /\ a = [k \in 1 .. n + 1 |-> IF k = n + 1 THEN e ELSE s[k]]
    BY <1>2
  <2> HIDE DEF a
  <2>2. \A k \in 1 .. n + 1 : a[k] = IF k = n + 1 THEN e ELSE s[k]
    BY <2>1
  <2>3. a = [k \in 1 .. n + 1 |-> a[k]]
    BY <2>1
  <2>4. n + 1 \in Nat /\ DOMAIN a = 1 .. n + 1
    BY <2>1
  <2>5. IsTuple(a)
    BY <2>3, <2>4 DEF IsTuple
  <2>6. a[n + 1] = e /\ \A k \in 1 .. n : a[k] = s[k]
    BY <2>2
  <2> QED
    BY <2>1, <2>4, <2>5, <2>6 DEF a
<1>4. Len(s) = n /\ DOMAIN s = 1 .. n
  BY <1>1, <1>2
<1> QED
  BY <1>3, <1>4

(* The length of a tuple is given by its domain.                           *)
LEMMA SameLength ==
  ASSUME NEW m \in Nat, NEW n \in Nat, 1 .. m = 1 .. n
  PROVE  m = n
<1>1. (m \in 1 .. m <=> m \in 1 .. n) /\ (n \in 1 .. n <=> n \in 1 .. m)
  OBVIOUS
<1>2. (m >= 1 => m <= n) /\ (n >= 1 => n <= m)
  BY <1>1
<1> QED
  BY <1>2

(* Where one element is replaced, the rest is as it was.                   *)
LEMMA TupleExcept ==
  ASSUME NEW s, IsTuple(s), NEW e, NEW k \in DOMAIN s
  PROVE  /\ IsTuple([s EXCEPT ![k] = e]) /\ DOMAIN [s EXCEPT ![k] = e] = DOMAIN s
         /\ [s EXCEPT ![k] = e][k] = e
         /\ \A j \in DOMAIN s : j # k => [s EXCEPT ![k] = e][j] = s[j]
  BY DEF IsTuple

(* What the replay buffer holds of the first n chunks.                     *)
LEMMA KeptChunks ==
  ASSUME NEW i, NEW n \in Nat
  PROVE  LET o == Kept(Chunks(i, n))
             m == IF n > Replay THEN Replay ELSE n
         IN  /\ o = [k \in 1 .. m |-> <<i, n - m + k>>]
             /\ o \in Seq({<<i, k>> : k \in 1 .. n}) /\ Len(o) = m
<1> DEFINE c == Chunks(i, n)
           m == IF n > Replay THEN Replay ELSE n
           S == {<<i, k>> : k \in 1 .. n}
<1>1. c \in Seq(S) /\ Len(c) = n /\ \A k \in 1 .. n : c[k] = <<i, k>>
  BY DEF Chunks
<1>2. m \in Nat /\ n - m \in Nat /\ m <= n
  BY TerminalBuffers
<1>3. Kept(c) = SubSeq(c, 1 + (n - m), n)
  BY <1>1, TerminalBuffers DEF Kept
<1> HIDE DEF c, m
<1>4. SubSeq(c, 1 + (n - m), n) = [k \in 1 .. m |-> c[(n - m) + k]]
  BY <1>1, <1>2
<1>5. \A k \in 1 .. m : c[(n - m) + k] = <<i, n - m + k>>
  BY <1>1, <1>2
<1>6. Kept(c) = [k \in 1 .. m |-> <<i, n - m + k>>]
  BY <1>3, <1>4, <1>5
<1>7. \A k \in 1 .. m : <<i, n - m + k>> \in S
  BY <1>2
<1>8. Kept(c) \in Seq(S) /\ Len(Kept(c)) = m
  BY <1>2, <1>6, <1>7
<1> QED
  BY <1>6, <1>8 DEF c, m

(* The next chunk takes the place of the oldest one in a full buffer.      *)
LEMMA KeptAppend ==
  ASSUME NEW i, NEW n \in Nat
  PROVE  appendReplay(Kept(Chunks(i, n)), <<i, n + 1>>) = Kept(Chunks(i, n + 1))
<1> DEFINE o == Kept(Chunks(i, n))
           e == <<i, n + 1>>
           b == Append(o, e)
           m == IF n > Replay THEN Replay ELSE n
           l == IF n + 1 > Replay THEN Replay ELSE n + 1
           S == {<<i, k>> : k \in 1 .. n + 1}
<1>1. /\ m \in Nat /\ l \in Nat /\ m <= n /\ l <= m + 1 /\ n - m \in Nat
      /\ (IF m + 1 > Replay THEN m + 1 - Replay ELSE 0) = m + 1 - l
  BY TerminalBuffers
<1>2. o = [k \in 1 .. m |-> <<i, n - m + k>>] /\ o \in Seq({<<i, k>> : k \in 1 .. n}) /\ Len(o) = m
  BY KeptChunks
<1>3. Kept(Chunks(i, n + 1)) = [k \in 1 .. l |-> <<i, (n + 1) - l + k>>]
  BY KeptChunks, n + 1 \in Nat
<1> HIDE DEF m, l, o
<1>4. e \in S /\ o \in Seq(S)
  <2>1. \A k \in 1 .. m : o[k] \in S
    BY <1>1, <1>2
  <2>2. o \in Seq(S)
    BY <1>1, <1>2, <2>1
  <2> QED
    BY <2>2
<1>5. \A k \in 1 .. m : o[k] = <<i, n - m + k>>
  BY <1>2
<1> HIDE DEF S, e
<1>13. Len(o) = m
  BY <1>2
<1>6. b \in Seq(S) /\ Len(b) = m + 1
  <2>1. b \in Seq(S) /\ Len(b) = Len(o) + 1
    BY <1>4
  <2> QED
    BY <1>13, <2>1
<1>12. b[m + 1] = e /\ \A k \in 1 .. m : b[k] = o[k]
  BY <1>1, <1>2, <1>4
<1> HIDE DEF b
<1>7. \A k \in 1 .. m + 1 : b[k] = <<i, n - m + k>>
  <2>1. b[m + 1] = <<i, n - m + (m + 1)>>
    BY <1>1, <1>12 DEF e
  <2>2. \A k \in 1 .. m : b[k] = <<i, n - m + k>>
    BY <1>5, <1>12
  <2>3. \A k \in 1 .. m + 1 : k \in 1 .. m \/ k = m + 1
    BY <1>1
  <2> QED
    BY <2>1, <2>2, <2>3
<1>8. Kept(b) = SubSeq(b, 1 + (m + 1 - l), m + 1)
  <2>1. 1 + (IF Len(b) > Replay THEN Len(b) - Replay ELSE 0) = 1 + (m + 1 - l)
    BY <1>1, <1>6, TerminalBuffers
  <2>2. Kept(b) = SubSeq(b, 1 + (IF Len(b) > Replay THEN Len(b) - Replay ELSE 0), Len(b))
    BY DEF Kept
  <2> QED
    BY <1>6, <2>1, <2>2
<1>9. Kept(b) = [k \in 1 .. l |-> b[(m + 1 - l) + k]]
  BY <1>1, <1>6, <1>8
<1>10. \A k \in 1 .. l : b[(m + 1 - l) + k] = <<i, (n + 1) - l + k>>
  BY <1>1, <1>7
<1>11. Kept(b) = Kept(Chunks(i, n + 1))
  BY <1>3, <1>9, <1>10
<1> QED
  BY <1>11 DEF appendReplay, b, o, e

(* In a run, each chunk is followed by the next one of its terminal.       *)
LEMMA RunsAreConsecutive ==
  ASSUME NEW o, IsRun(o)
  PROVE  Consecutive(o)
<1>1. PICK i \in Nat, n \in Nat : o = Kept(Chunks(i, n))
  BY DEF IsRun
<1> DEFINE m == IF n > Replay THEN Replay ELSE n
<1>2. o = [k \in 1 .. m |-> <<i, n - m + k>>] /\ Len(o) = m
  BY <1>1, KeptChunks
<1>3. m \in Nat /\ n - m \in Nat
  BY TerminalBuffers
<1> HIDE DEF m
<1>4. ASSUME NEW k \in 1 .. m - 1 PROVE o[k + 1] = <<o[k][1], o[k][2] + 1>>
  <2>1. k \in 1 .. m /\ k + 1 \in 1 .. m /\ n - m + (k + 1) = (n - m + k) + 1
    BY <1>3
  <2>2. o[k] = <<i, n - m + k>>
    BY <1>2, <2>1
  <2>3. o[k + 1] = <<i, n - m + (k + 1)>>
    BY <1>2, <2>1
  <2> QED
    BY <2>1, <2>2, <2>3
<1> QED
  BY <1>2, <1>4 DEF Consecutive

(* What a terminal that printed nothing shows.                             *)
LEMMA NothingIsRun == IsRun(<<>>) /\ \A i : Kept(Chunks(i, 0)) = <<>>
<1>1. \A i : Kept(Chunks(i, 0)) = <<>>
  <2> TAKE i
  <2>1. Kept(Chunks(i, 0)) \in Seq({<<i, k>> : k \in 1 .. 0}) /\ Len(Kept(Chunks(i, 0))) = 0
    BY KeptChunks, TerminalBuffers
  <2> QED
    BY <2>1
<1> QED
  BY <1>1 DEF IsRun

-----------------------------------------------------------------------------
(* The calls of the pane.                                                  *)

(* Calls are begun and answered, and those that hold a terminal are left   *)
(* alone.                                                                  *)
LoadsStep(s) ==
  /\ IsTuple(s) /\ DOMAIN loads \subseteq DOMAIN s
  /\ \A t \in DOMAIN s :
       \/ t \in DOMAIN loads /\ s[t] = loads[t]
       \/ /\ t \in DOMAIN loads => loads[t].at # "opened"
          /\ CallOK(s[t]) /\ s[t].at # "opened" /\ (LocalThread => Quiet(s[t]))
          /\ s[t].at = "found" => s[t].terminal \in DOMAIN ptys

(* No call moves.                                                          *)
LEMMA LoadsStay == ASSUME CallsInv PROVE LoadsStep(loads)
BY DEF CallsInv, LoadsStep

(* One call moves.                                                         *)
LEMMA OneLoad ==
  ASSUME CallsInv, NEW s, NEW t \in DOMAIN loads, loads[t].at # "opened",
         IsTuple(s), DOMAIN s = DOMAIN loads, \A u \in DOMAIN loads : u # t => s[u] = loads[u],
         CallOK(s[t]), s[t].at # "opened", LocalThread => Quiet(s[t]),
         s[t].at = "found" => s[t].terminal \in DOMAIN ptys
  PROVE  LoadsStep(s)
BY DEF CallsInv, LoadsStep

(* A call is begun.                                                        *)
LEMMA AppendLoad ==
  ASSUME CallsInv, NEW s, LoadsStep(s), DOMAIN s = DOMAIN loads, NEW e, CallOK(e), e.at \in {"called", "done"}
  PROVE  LoadsStep(Append(s, e))
<1>1. IsTuple(s) /\ IsTuple(loads)
  BY DEF CallsInv, LoadsStep
<1>2. DOMAIN loads = 1 .. Len(s) /\ Len(s) \in Nat
  BY <1>1, Tuples
<1> DEFINE a == Append(s, e)
<1>3. IsTuple(a) /\ DOMAIN a = 1 .. Len(s) + 1 /\ a[Len(s) + 1] = e
      /\ \A k \in 1 .. Len(s) : a[k] = s[k]
  BY <1>1, Tuples
<1> HIDE DEF a
<1>4. DOMAIN loads \subseteq DOMAIN a
  BY <1>2, <1>3
<1>5. ASSUME NEW t \in DOMAIN a
      PROVE  \/ t \in DOMAIN loads /\ a[t] = loads[t]
             \/ /\ t \in DOMAIN loads => loads[t].at # "opened"
                /\ CallOK(a[t]) /\ a[t].at # "opened" /\ (LocalThread => Quiet(a[t]))
                /\ a[t].at = "found" => a[t].terminal \in DOMAIN ptys
  <2>1. CASE t = Len(s) + 1
    <3>1. a[t] = e /\ t \notin DOMAIN loads
      BY <1>2, <1>3, <2>1
    <3> QED
      BY <3>1 DEF Quiet
  <2>2. CASE t # Len(s) + 1
    <3>1. t \in DOMAIN s /\ a[t] = s[t]
      BY <1>2, <1>3, <2>2
    <3> QED
      BY <3>1 DEF LoadsStep
  <2> QED
    BY <2>1, <2>2
<1>6. LoadsStep(a)
  BY <1>3, <1>4, <1>5 DEF LoadsStep
<1> QED
  BY <1>6 DEF a

(* A new call.                                                             *)
Begun(op) == [op |-> op, at |-> "called", lease |-> None, terminal |-> None, answer |-> NoSnapshot]

(* A call that has begun holds no terminal.                                *)
LEMMA BegunIsOK == ASSUME NEW op PROVE CallOK(Begun(op)) /\ Begun(op).at = "called"
<1>1. Begun(op).answer.output = <<>>
  BY DEF Begun, NoSnapshot
<1>2. Begun(op).at = "called" /\ DOMAIN Begun(op) = {"op", "at", "lease", "terminal", "answer"}
  BY DEF Begun
<1> QED
  BY <1>1, <1>2, NothingIsRun DEF CallOK

(* Events are applied, and a gap begins a call.                            *)
LEMMA ApplyEventsStep ==
  ASSUME CallsInv, NEW p, NEW events, NEW s, LoadsStep(s), DOMAIN s = DOMAIN loads,
         ApplyEvents(p, events, s)
  PROVE  LoadsStep(loads')
<1>1. loads' = s \/ loads' = Append(s, NewLoad("snapshot")[Len(s) + 1])
  BY DEF ApplyEvents
<1>2. NewLoad("snapshot")[Len(s) + 1] = Begun("snapshot")
  <2>1. IsTuple(s) /\ IsTuple(loads)
    BY DEF CallsInv, LoadsStep
  <2>2. Len(s) = Len(loads)
    <3>1. DOMAIN s = 1 .. Len(s) /\ DOMAIN loads = 1 .. Len(loads) /\ Len(s) \in Nat /\ Len(loads) \in Nat
      BY <2>1, Tuples
    <3> QED
      BY <3>1, SameLength
  <2>3. Append(loads, Begun("snapshot"))[Len(loads) + 1] = Begun("snapshot")
    BY <2>1, Tuples
  <2> QED
    BY <2>2, <2>3 DEF NewLoad, Begun
<1>3. LoadsStep(Append(s, Begun("snapshot")))
  BY AppendLoad, BegunIsOK
<1> QED
  BY <1>1, <1>2, <1>3

(* Calls move and nothing else does.                                       *)
LEMMA LoadsMove ==
  ASSUME TerminalInv, LoadsStep(loads'), UNCHANGED <<service, ptys, remotes, closers>>
  PROVE  TerminalInv'
<1>1. CallsInv'
  BY DEF TerminalInv, CallsInv, LoadsStep, LocalThread, CallOK
<1>2. NoStrayTerminal'
  <2> SUFFICES ASSUME NEW i \in DOMAIN remotes,
                      ~remotes[i].ended, ~remotes[i].cancelled,
                      ~(service.session = i /\ service.bound = remotes[i].lease), i \notin closers
               PROVE  \E t \in DOMAIN loads' : loads'[t].at = "opened" /\ loads'[t].terminal = i
    BY DEF NoStrayTerminal
  <2>1. PICK t \in DOMAIN loads : loads[t].at = "opened" /\ loads[t].terminal = i
    BY DEF TerminalInv, NoStrayTerminal
  <2>2. t \in DOMAIN loads' /\ loads'[t] = loads[t]
    BY <2>1 DEF LoadsStep
  <2> QED
    BY <2>1, <2>2
<1> QED
  BY <1>1, <1>2 DEF TerminalInv, PtysInv, RemotesInv, SidesInv, LocalThread

(* In s, call t has got to a.                                              *)
GotTo(s, t, a) ==
  /\ IsTuple(s) /\ DOMAIN s = DOMAIN loads
  /\ \A u \in DOMAIN loads : u # t => s[u] = loads[u]
  /\ CallOK(s[t]) /\ s[t].at = a
WithAnswer(t, a, r) == [loads EXCEPT ![t].at = a, ![t].answer = r]
Turned(t, a) == [loads EXCEPT ![t].at = a]

(* A call takes another state, and perhaps an answer.                      *)
LEMMA CallTurns ==
  ASSUME CallsInv, NEW t \in DOMAIN loads, NEW a, NEW r
  PROVE  /\ IsRun(r.output) => GotTo(WithAnswer(t, a, r), t, a)
         /\ GotTo(Turned(t, a), t, a)
<1> DEFINE c == loads[t]
           d == [c EXCEPT !.at = a]
           e == [d EXCEPT !.answer = r]
<1>1. IsTuple(loads) /\ CallOK(c)
  BY DEF CallsInv
<1>2. DOMAIN d = DOMAIN c /\ d.at = a /\ d.answer = c.answer
  BY <1>1 DEF CallOK
<1>3. DOMAIN e = DOMAIN c /\ e.at = a /\ e.answer = r
  BY <1>1, <1>2 DEF CallOK
<1>4. [loads EXCEPT ![t].at = a] = [loads EXCEPT ![t] = d]
  OBVIOUS
<1>5. [loads EXCEPT ![t].at = a, ![t].answer = r] = [[loads EXCEPT ![t] = d] EXCEPT ![t] = e]
  OBVIOUS
<1>6. CallOK(d) /\ (IsRun(r.output) => CallOK(e))
  BY <1>1, <1>2, <1>3 DEF CallOK
<1> HIDE DEF c, d, e
<1>7. /\ IsTuple(Turned(t, a)) /\ DOMAIN Turned(t, a) = DOMAIN loads /\ Turned(t, a)[t] = d
      /\ \A u \in DOMAIN loads : u # t => Turned(t, a)[u] = loads[u]
  BY <1>1, <1>4, TupleExcept DEF Turned
<1>8. LET s == WithAnswer(t, a, r)
      IN  /\ IsTuple(s) /\ DOMAIN s = DOMAIN loads /\ s[t] = e
          /\ \A u \in DOMAIN loads : u # t => s[u] = loads[u]
  <2> DEFINE q == Turned(t, a)
  <2>1. WithAnswer(t, a, r) = [q EXCEPT ![t] = e]
    BY <1>4, <1>5 DEF Turned, WithAnswer
  <2> HIDE DEF q
  <2>2. IsTuple(q) /\ DOMAIN q = DOMAIN loads /\ \A u \in DOMAIN loads : u # t => q[u] = loads[u]
    BY <1>7 DEF q
  <2>3. /\ IsTuple([q EXCEPT ![t] = e]) /\ DOMAIN [q EXCEPT ![t] = e] = DOMAIN q
        /\ [q EXCEPT ![t] = e][t] = e
        /\ \A u \in DOMAIN q : u # t => [q EXCEPT ![t] = e][u] = q[u]
    BY <2>2, TupleExcept
  <2> QED
    BY <2>1, <2>2, <2>3
<1> QED
  BY <1>2, <1>3, <1>6, <1>7, <1>8 DEF GotTo

WithLease(t, a, v) == [loads EXCEPT ![t].at = a, ![t].lease = v]
WithTerminal(t, a, v) == [loads EXCEPT ![t].at = a, ![t].terminal = v]

(* A call takes a lease or a terminal.                                     *)
LEMMA CallTakes ==
  ASSUME CallsInv, NEW t \in DOMAIN loads, NEW a, NEW v
  PROVE  /\ GotTo(WithLease(t, a, v), t, a)
         /\ GotTo(WithTerminal(t, a, v), t, a)
         /\ WithTerminal(t, a, v)[t].terminal = v /\ WithTerminal(t, a, v)[t].lease = loads[t].lease
<1> DEFINE q == Turned(t, a)
           d == [loads[t] EXCEPT !.at = a]
           e == [d EXCEPT !.lease = v]
           f == [d EXCEPT !.terminal = v]
<1>1. IsTuple(q) /\ DOMAIN q = DOMAIN loads /\ \A u \in DOMAIN loads : u # t => q[u] = loads[u]
  BY CallTurns DEF GotTo
<1>2. CallOK(d) /\ d.at = a /\ d.lease = loads[t].lease
  BY DEF CallsInv, CallOK
<1>3. WithLease(t, a, v) = [q EXCEPT ![t] = e] /\ WithTerminal(t, a, v) = [q EXCEPT ![t] = f]
  BY DEF WithLease, WithTerminal, Turned
<1> HIDE DEF q, d
<1>4. /\ CallOK(e) /\ e.at = a
      /\ CallOK(f) /\ f.at = a /\ f.terminal = v /\ f.lease = loads[t].lease
  BY <1>2 DEF CallOK
<1> HIDE DEF e, f
<1>5. /\ IsTuple([q EXCEPT ![t] = e]) /\ DOMAIN [q EXCEPT ![t] = e] = DOMAIN q
      /\ [q EXCEPT ![t] = e][t] = e
      /\ \A u \in DOMAIN q : u # t => [q EXCEPT ![t] = e][u] = q[u]
  BY <1>1, TupleExcept
<1>6. /\ IsTuple([q EXCEPT ![t] = f]) /\ DOMAIN [q EXCEPT ![t] = f] = DOMAIN q
      /\ [q EXCEPT ![t] = f][t] = f
      /\ \A u \in DOMAIN q : u # t => [q EXCEPT ![t] = f][u] = q[u]
  BY <1>1, TupleExcept
<1>7. GotTo(WithLease(t, a, v), t, a)
  BY <1>1, <1>3, <1>4, <1>5 DEF GotTo
<1>8. GotTo(WithTerminal(t, a, v), t, a)
  BY <1>1, <1>3, <1>4, <1>6 DEF GotTo
<1>9. WithTerminal(t, a, v)[t] = f
  BY <1>3, <1>6
<1> QED
  BY <1>4, <1>7, <1>8, <1>9

(* A call that held no terminal, and waits for none.                       *)
LEMMA CallStep ==
  ASSUME CallsInv, NEW s, NEW t \in DOMAIN loads, loads[t].at # "opened", NEW a, GotTo(s, t, a),
         a # "opened", LocalThread => a \notin {"snapshot", "opening", "opened"},
         a = "found" => s[t].terminal \in DOMAIN ptys
  PROVE  LoadsStep(s)
BY OneLoad DEF GotTo, Quiet

(* The pane and the calls it makes.                                        *)
LEMMA PaneStep ==
  ASSUME TerminalInv,
         \/ ThePane \/ \E e \in wire : Deliver(e)
         \/ \E t \in DOMAIN loads : LoadReturns(t) \/ LoadFails(t)
  PROVE  TerminalInv'
<1>0. CallsInv /\ LoadsStep(loads)
  BY LoadsStay DEF TerminalInv
<1>1. ASSUME NEW e \in wire, Deliver(e) PROVE TerminalInv'
  <2>1. UNCHANGED loads \/ ApplyEvents(pane, {e}, loads)
    BY <1>1 DEF Deliver
  <2>2. LoadsStep(loads')
    BY <1>0, <2>1, ApplyEventsStep
  <2> QED
    BY <1>1, <2>2, LoadsMove DEF Deliver
<1>2. CASE ShowThread \/ startTerminal
  <2>1. \E op : loads' = Append(loads, Begun(op))
    BY <1>2 DEF ShowThread, startTerminal, NewLoad, Begun
  <2>2. LoadsStep(loads')
    BY <1>0, <2>1, AppendLoad, BegunIsOK
  <2> QED
    BY <1>2, <2>2, LoadsMove DEF ShowThread, startTerminal
<1>3. CASE LeaveThread
  <2> DEFINE b == Begun("other")
             e == [b EXCEPT !.at = "done"]
  <2>1. NewLoad("other")[Len(loads) + 1] = b
    <3>1. NewLoad("other") = Append(loads, b)
      BY DEF NewLoad, Begun
    <3> HIDE DEF b
    <3> QED
      BY <1>0, <3>1, Tuples DEF CallsInv
  <2>2. CallOK(b)
    BY BegunIsOK
  <2>3. loads' = Append(loads, e)
    BY <1>3, <2>1 DEF LeaveThread
  <2> HIDE DEF b
  <2>4. DOMAIN e = DOMAIN b /\ e.at = "done" /\ e.answer = b.answer
    BY <2>2 DEF CallOK
  <2>5. CallOK(e)
    BY <2>2, <2>4 DEF CallOK
  <2>6. LoadsStep(loads')
    BY <1>0, <2>3, <2>4, <2>5, AppendLoad
  <2> QED
    BY <1>3, <2>6, LoadsMove DEF LeaveThread
<1>4. ASSUME NEW t \in DOMAIN loads, LoadReturns(t) PROVE TerminalInv'
  <2> DEFINE d == WithAnswer(t, "done", NoSnapshot)
  <2>1. GotTo(d, t, "done")
    <3>1. IsRun(NoSnapshot.output)
      BY NothingIsRun DEF NoSnapshot
    <3> QED
      BY <1>0, <3>1, CallTurns
  <2>2. loads[t].at = "answered" /\ (loads' = d \/ \E p : ApplyEvents(p, pane.pending, d))
    BY <1>4 DEF LoadReturns, WithAnswer
  <2> HIDE DEF d
  <2>3. LoadsStep(d) /\ DOMAIN d = DOMAIN loads
    BY <1>0, <2>1, <2>2, CallStep DEF GotTo
  <2>4. LoadsStep(loads')
    BY <1>0, <2>2, <2>3, ApplyEventsStep
  <2> QED
    BY <1>4, <2>4, LoadsMove DEF LoadReturns
<1>5. ASSUME NEW t \in DOMAIN loads, LoadFails(t) PROVE TerminalInv'
  <2>1. loads[t].at = "failed" /\ loads' = Turned(t, "done")
    BY <1>5 DEF LoadFails, Turned
  <2>2. LoadsStep(loads')
    BY <1>0, <2>1, CallTurns, CallStep
  <2> QED
    BY <1>5, <2>2, LoadsMove DEF LoadFails
<1> QED
  BY <1>1, <1>2, <1>3, <1>4, <1>5 DEF ThePane

-----------------------------------------------------------------------------
(* A local thread.                                                         *)

(* The service of a local thread moves, and what it serves stays typed.    *)
LEMMA LocalMoves ==
  ASSUME TerminalInv, LocalThread, LoadsStep(loads'), PtysInv', UNCHANGED <<remotes, closers>>,
         service' \in Services, service'.kind = service.kind,
         service'.session \in {None} \cup DOMAIN ptys', DOMAIN ptys \subseteq DOMAIN ptys'
  PROVE  TerminalInv'
<1>1. remotes = <<>> /\ remotes' = <<>> /\ LocalThread'
  BY DEF TerminalInv, SidesInv, LocalThread
<1>2. CallsInv'
  <2>1. IsTuple(loads')
    BY DEF LoadsStep
  <2>2. ASSUME NEW t \in DOMAIN loads'
        PROVE  /\ CallOK(loads'[t]) /\ Quiet(loads'[t])
               /\ loads'[t].at = "found" => loads'[t].terminal \in DOMAIN ptys'
    BY <2>2 DEF TerminalInv, CallsInv, LoadsStep
  <2> QED
    BY <2>1, <2>2 DEF CallsInv, Quiet
<1>3. RemotesInv'
  BY DEF TerminalInv, RemotesInv
<1>4. NoStrayTerminal'
  BY <1>1 DEF NoStrayTerminal
<1>5. SidesInv'
  BY <1>1 DEF SidesInv
<1> QED
  BY <1>2, <1>3, <1>4, <1>5 DEF TerminalInv

(* A snapshot of a terminal, or of none, is a run.                         *)
LEMMA SnapshotsRun ==
  ASSUME NEW i, NEW x, i \in Nat, x.output = Kept(Chunks(i, x.read)), x.read \in Nat
  PROVE  IsRun(SnapshotOf(x).output)
BY DEF IsRun, SnapshotOf

(* What becomes of a service.                                              *)
LEMMA ServiceMoves ==
  ASSUME NEW s \in Services, NEW n \in Nat
  PROVE  LET started == [s EXCEPT !.generation = @ + 1, !.session = n]
         IN  /\ started \in Services /\ started.kind = s.kind /\ started.session = n
             /\ started.bound = s.bound
<1> DEFINE g == [s EXCEPT !.generation = s.generation + 1]
           h == [g EXCEPT !.session = n]
<1>1. s.generation + 1 \in Nat
  BY DEF Services
<1>2. g \in Services /\ g.kind = s.kind /\ g.bound = s.bound
  BY <1>1 DEF Services
<1>3. [s EXCEPT !.generation = @ + 1, !.session = n] = h
  OBVIOUS
<1> HIDE DEF g
<1>4. h \in Services /\ h.kind = g.kind /\ h.session = n /\ h.bound = g.bound
  BY <1>2 DEF Services
<1> QED
  BY <1>2, <1>3, <1>4

(* Manager.Snapshot and Manager.Start.                                     *)
LEMMA LocalCallStep ==
  ASSUME TerminalInv, NEW t \in DOMAIN loads, LocalSnapshot(t) \/ LocalReplay(t) \/ ManagerStart(t)
  PROVE  TerminalInv'
<1>0. CallsInv /\ LoadsStep(loads) /\ SidesInv /\ PtysInv
  BY LoadsStay DEF TerminalInv
<1>7. LocalThread /\ loads[t].at \in {"called", "found"}
  <2>1. loads[t].at = "found" => ptys # <<>>
    BY <1>0 DEF CallsInv
  <2> QED
    BY <1>0, <2>1 DEF SidesInv, LocalSnapshot, LocalReplay, ManagerStart
<1>6. service \in Services /\ service.session \in {None} \cup DOMAIN ptys /\ IsTuple(ptys)
  BY <1>0, <1>7 DEF SidesInv, PtysInv
<1>1. ASSUME NEW r, IsRun(r.output), loads' = WithAnswer(t, "answered", r) PROVE LoadsStep(loads')
  BY <1>0, <1>1, <1>7, CallTurns, CallStep
<1>2. ASSUME loads' = Turned(t, "failed") PROVE LoadsStep(loads')
  BY <1>0, <1>2, <1>7, CallTurns, CallStep
<1>8. ASSUME NEW i \in DOMAIN ptys PROVE IsRun(SnapshotOf(ptys[i]).output)
  <2>1. i \in Nat
    BY <1>6, <1>8, Tuples
  <2>2. PtyOK(i, ptys[i])
    BY <1>0, <1>8 DEF PtysInv
  <2> QED
    BY <2>1, <2>2, SnapshotsRun DEF PtyOK
<1>3. CASE LocalSnapshot(t)
  <2>1. \/ loads' = Turned(t, "failed")
        \/ loads' = WithAnswer(t, "answered", NoSnapshot)
        \/ /\ service.session # None
           /\ loads' = WithTerminal(t, "found", service.session)
    BY <1>3 DEF LocalSnapshot, Failed, Answered, Turned, WithAnswer, WithTerminal
  <2>2. ASSUME service.session # None, loads' = WithTerminal(t, "found", service.session)
        PROVE  LoadsStep(loads')
    <3>1. GotTo(loads', t, "found") /\ loads'[t].terminal = service.session
      BY <1>0, <2>2, CallTakes
    <3>2. service.session \in DOMAIN ptys
      BY <1>6, <2>2
    <3> QED
      BY <1>0, <1>7, <3>1, <3>2, CallStep
  <2>3. IsRun(NoSnapshot.output)
    BY NothingIsRun DEF NoSnapshot
  <2>4. LoadsStep(loads')
    BY <1>1, <1>2, <2>1, <2>2, <2>3
  <2> QED
    BY <1>3, <2>4, LoadsMove DEF LocalSnapshot
<1>9. CASE LocalReplay(t)
  <2>1. loads[t].terminal \in DOMAIN ptys
    BY <1>0, <1>9 DEF LocalReplay, CallsInv
  <2>2. loads' = WithAnswer(t, "answered", SnapshotOf(ptys[loads[t].terminal]))
    BY <1>9 DEF LocalReplay, Answered, WithAnswer
  <2>3. LoadsStep(loads')
    BY <1>1, <1>8, <2>1, <2>2
  <2> QED
    BY <1>9, <2>3, LoadsMove DEF LocalReplay
<1>4. CASE ManagerStart(t) /\ loads' = Failed(t) /\ UNCHANGED <<service, ptys>>
  <2>1. LoadsStep(loads')
    BY <1>2, <1>4 DEF Failed, Turned
  <2> QED
    BY <1>4, <2>1, LoadsMove DEF ManagerStart
<1>10. CASE /\ ManagerStart(t) /\ service.session # None
            /\ loads' = Answered(t, SnapshotOf(ptys[service.session]))
            /\ UNCHANGED <<service, ptys>>
  <2>1. service.session \in DOMAIN ptys
    BY <1>6, <1>10
  <2>2. LoadsStep(loads')
    BY <1>1, <1>8, <1>10, <2>1 DEF Answered, WithAnswer
  <2> QED
    BY <1>10, <2>2, LoadsMove DEF ManagerStart
<1>5. CASE /\ ManagerStart(t) /\ ~UNCHANGED <<service, ptys>>
  <2> DEFINE e == [generation |-> service.generation + 1, sequence |-> 0,
             output |-> <<>>, printed |-> 0, read |-> 0, reader |-> "reading",
             shell |-> "running", stopping |-> FALSE, closed |-> FALSE]
             n == Len(ptys) + 1
  <2>1. /\ ptys' = Append(ptys, e)
        /\ service' = [service EXCEPT !.generation = @ + 1, !.session = n]
        /\ loads' = WithAnswer(t, "answered", SnapshotOf(ptys'[n]))
        /\ UNCHANGED <<remotes, closers>>
    BY <1>5 DEF ManagerStart, Answered, WithAnswer
  <2>2. PtyOK(n, e) /\ e.read = 0 /\ e.output = <<>>
    <3>1. Kept(Chunks(n, 0)) = <<>>
      BY NothingIsRun
    <3> QED
      BY <3>1 DEF PtyOK
  <2> HIDE DEF e
  <2>3. /\ Len(ptys) \in Nat /\ DOMAIN ptys = 1 .. Len(ptys)
        /\ IsTuple(ptys') /\ DOMAIN ptys' = 1 .. Len(ptys) + 1 /\ ptys'[n] = e
        /\ \A k \in 1 .. Len(ptys) : ptys'[k] = ptys[k]
    BY <1>6, <2>1, Tuples
  <2>4. n \in Nat /\ n \in DOMAIN ptys'
    BY <2>3
  <2>5. service' \in Services /\ service'.kind = service.kind /\ service'.session = n
    <3>1. service' = [service EXCEPT !.generation = @ + 1, !.session = n]
      BY <2>1
    <3> HIDE DEF n
    <3> QED
      BY <1>6, <2>4, <3>1, ServiceMoves
  <2>6. PtysInv'
    <3>1. ASSUME NEW k \in DOMAIN ptys' PROVE PtyOK(k, ptys'[k])
      <4>1. CASE k = n
        BY <2>2, <2>3, <4>1
      <4>2. CASE k # n
        <5>1. k \in DOMAIN ptys /\ ptys'[k] = ptys[k]
          BY <2>3, <4>2
        <5> QED
          BY <5>1 DEF TerminalInv, PtysInv
      <4> QED
        BY <4>1, <4>2
    <3> QED
      BY <2>3, <3>1 DEF PtysInv
  <2>7. IsRun(SnapshotOf(ptys'[n]).output)
    BY <2>2, <2>3, NothingIsRun DEF SnapshotOf
  <2>8. LoadsStep(loads')
    BY <1>1, <2>1, <2>7
  <2> QED
    BY <1>7, <2>1, <2>3, <2>4, <2>5, <2>6, <2>8, LocalMoves
<1> QED
  BY <1>3, <1>4, <1>5, <1>9, <1>10 DEF ManagerStart

(* A local terminal becomes x.                                             *)
LEMMA PtyBecomes ==
  ASSUME PtysInv, NEW i \in DOMAIN ptys, NEW x, PtyOK(i, x), ptys' = [ptys EXCEPT ![i] = x]
  PROVE  PtysInv' /\ DOMAIN ptys' = DOMAIN ptys
<1>1. /\ IsTuple(ptys') /\ DOMAIN ptys' = DOMAIN ptys /\ ptys'[i] = x
      /\ \A j \in DOMAIN ptys : j # i => ptys'[j] = ptys[j]
  BY TupleExcept DEF PtysInv
<1> QED
  BY <1>1 DEF PtysInv

(* The shells of local terminals, and the goroutines that read and wait.   *)
LEMMA LocalStep ==
  ASSUME TerminalInv,
         \/ ManagerStop
         \/ \E i \in DOMAIN ptys :
              \/ PtyPrints(i) \/ PtyExits(i) \/ ManagerReads(i) \/ ManagerAppends(i)
              \/ ManagerReadEnds(i) \/ ManagerTellsError(i)
              \/ ManagerWaits(i) \/ ManagerForgets(i) \/ ManagerTellsExit(i)
  PROVE  TerminalInv'
<1>1. LocalThread
  BY DEF TerminalInv, SidesInv, ManagerStop
<1>2. /\ CallsInv /\ LoadsStep(loads) /\ PtysInv /\ service \in Services
      /\ service.session \in {None} \cup DOMAIN ptys
  BY <1>1, LoadsStay DEF TerminalInv, SidesInv
<1>3. ASSUME NEW i \in DOMAIN ptys, NEW x, PtyOK(i, x), ptys' = [ptys EXCEPT ![i] = x],
             UNCHANGED <<remotes, closers, loads>>,
             service' \in Services, service'.kind = service.kind,
             service'.session \in {None} \cup DOMAIN ptys
      PROVE  TerminalInv'
  <2>1. PtysInv' /\ DOMAIN ptys' = DOMAIN ptys
    BY <1>2, <1>3, PtyBecomes
  <2>2. LoadsStep(loads')
    BY <1>2, <1>3
  <2> QED
    BY <1>1, <1>3, <2>1, <2>2, LocalMoves
<1>4. ASSUME NEW i \in DOMAIN ptys,
             \/ PtyPrints(i) \/ PtyExits(i) \/ ManagerReads(i) \/ ManagerReadEnds(i)
             \/ ManagerForgets(i)
      PROVE  TerminalInv'
  <2> DEFINE c == ptys[i]
  <2>1. PtyOK(i, c)
    BY <1>2 DEF PtysInv
  <2> HIDE DEF c
  <2>2. \/ ptys' = [ptys EXCEPT ![i] = [c EXCEPT !.printed = @ + 1]]
        \/ \E v \in {"exited", "forgotten"} : ptys' = [ptys EXCEPT ![i] = [c EXCEPT !.shell = v]]
        \/ \E v \in {"output", "gone", "error"} :
             ptys' = [ptys EXCEPT ![i] = [c EXCEPT !.reader = v]]
    BY <1>4 DEF PtyPrints, PtyExits, ManagerReads, ManagerReadEnds, ManagerForgets, c
  <2>3. /\ PtyOK(i, [c EXCEPT !.printed = @ + 1])
        /\ \A v : PtyOK(i, [c EXCEPT !.shell = v]) /\ PtyOK(i, [c EXCEPT !.reader = v])
    BY <2>1 DEF PtyOK
  <2>4. /\ UNCHANGED <<remotes, closers, loads>>
        /\ \/ UNCHANGED service
           \/ service' = [service EXCEPT !.session = IF @ = i THEN None ELSE @]
    BY <1>4 DEF PtyPrints, PtyExits, ManagerReads, ManagerReadEnds, ManagerForgets
  <2>5. /\ service' \in Services /\ service'.kind = service.kind
        /\ service'.session \in {None} \cup DOMAIN ptys
    BY <1>2, <2>4 DEF Services, None
  <2>6. PICK x : ptys' = [ptys EXCEPT ![i] = x] /\ PtyOK(i, x)
    BY <2>2, <2>3
  <2> QED
    BY <1>3, <2>4, <2>5, <2>6
<1>5. ASSUME NEW i \in DOMAIN ptys, ManagerAppends(i) PROVE TerminalInv'
  <2> DEFINE c == ptys[i]
             n == c.read
             x == [c EXCEPT !.reader = "reading", !.read = @ + 1, !.sequence = @ + 1,
                            !.output = appendReplay(@, <<i, n + 1>>)]
  <2>1. PtyOK(i, c)
    BY <1>2 DEF PtysInv
  <2>2. ptys' = [ptys EXCEPT ![i] = x] /\ UNCHANGED <<remotes, closers, loads, service>>
    BY <1>5 DEF ManagerAppends
  <2>3. PtyOK(i, x)
    <3>1. n \in Nat /\ c.output = Kept(Chunks(i, n))
      BY <2>1 DEF PtyOK
    <3>2. appendReplay(c.output, <<i, n + 1>>) = Kept(Chunks(i, n + 1))
      BY <3>1, KeptAppend
    <3> DEFINE o == appendReplay(c.output, <<i, n + 1>>)
               m == [c EXCEPT !.reader = "reading"]
               r == [m EXCEPT !.read = n + 1]
               q == [r EXCEPT !.sequence = c.sequence + 1]
               y == [q EXCEPT !.output = o]
    <3>3. x = y
      OBVIOUS
    <3> HIDE DEF c, n, o
    <3>4. DOMAIN y = DOMAIN c /\ y.read = n + 1 /\ y.output = o
      BY <2>1 DEF PtyOK
    <3> HIDE DEF y
    <3>5. PtyOK(i, y)
      BY <2>1, <3>1, <3>2, <3>4 DEF PtyOK, o
    <3> QED
      BY <3>3, <3>5
  <2> QED
    BY <1>2, <1>3, <2>2, <2>3
<1>6. ASSUME NEW i \in DOMAIN ptys, ManagerTellsError(i) \/ ManagerTellsExit(i) PROVE TerminalInv'
  <2> DEFINE c == ptys[i]
             error == [c EXCEPT !.reader = "gone", !.sequence = @ + 1]
             exit == [c EXCEPT !.shell = "done", !.sequence = @ + 1]
             p == [c EXCEPT !.reader = "gone"]
             q == [c EXCEPT !.shell = "done"]
             warned == [p EXCEPT !.sequence = c.sequence + 1]
             told == [q EXCEPT !.sequence = c.sequence + 1]
  <2>1. PtyOK(i, c)
    BY <1>2 DEF PtysInv
  <2>2. /\ \E x \in {error, exit} : ptys' = [ptys EXCEPT ![i] = x]
        /\ UNCHANGED <<remotes, closers, loads, service>>
    BY <1>6 DEF ManagerTellsError, ManagerTellsExit
  <2>3. error = warned /\ exit = told
    OBVIOUS
  <2> HIDE DEF c, error, exit
  <2>4. PtyOK(i, p) /\ PtyOK(i, q)
    BY <2>1 DEF PtyOK
  <2> HIDE DEF p, q
  <2>5. PtyOK(i, warned) /\ PtyOK(i, told)
    BY <2>4 DEF PtyOK
  <2> QED
    BY <1>2, <1>3, <2>2, <2>3, <2>5
<1>7. ASSUME NEW i \in DOMAIN ptys, ManagerWaits(i) PROVE TerminalInv'
  <2> DEFINE c == ptys[i]
             x == [c EXCEPT !.shell = "waited"]
             y == [x EXCEPT !.closed = TRUE]
  <2>1. PtyOK(i, c)
    BY <1>2 DEF PtysInv
  <2>2. /\ ptys' = [ptys EXCEPT ![i].shell = "waited", ![i].closed = TRUE]
        /\ UNCHANGED <<remotes, closers, loads, service>>
    BY <1>7 DEF ManagerWaits
  <2>3. ptys' = [ptys EXCEPT ![i] = y]
    BY <2>2
  <2> HIDE DEF c
  <2>4. PtyOK(i, x)
    BY <2>1 DEF PtyOK
  <2> HIDE DEF x
  <2>5. PtyOK(i, y)
    BY <2>4 DEF PtyOK
  <2> HIDE DEF y
  <2> QED
    BY <1>2, <1>3, <2>2, <2>3, <2>5
<1>8. CASE ManagerStop
  <2> DEFINE i == service.session
             c == ptys[i]
             x == [c EXCEPT !.stopping = TRUE]
             y == [x EXCEPT !.closed = TRUE]
  <2>1. i \in DOMAIN ptys
    BY <1>2, <1>8 DEF ManagerStop
  <2>2. PtyOK(i, c)
    BY <1>2, <2>1 DEF PtysInv
  <2>3. /\ ptys' = [ptys EXCEPT ![i].stopping = TRUE, ![i].closed = TRUE]
        /\ service' = service \/ service' = [service EXCEPT !.closed = TRUE]
        /\ UNCHANGED <<remotes, closers, loads>>
    BY <1>8 DEF ManagerStop
  <2>4. ptys' = [ptys EXCEPT ![i] = y]
    BY <2>1, <2>3
  <2> HIDE DEF c
  <2>5. PtyOK(i, x)
    BY <2>2 DEF PtyOK
  <2> HIDE DEF x
  <2>6. PtyOK(i, y)
    BY <2>5 DEF PtyOK
  <2> HIDE DEF y
  <2>7. /\ service' \in Services /\ service'.kind = service.kind
        /\ service'.session \in {None} \cup DOMAIN ptys
    BY <1>2, <2>3 DEF Services, None
  <2> HIDE DEF i
  <2> QED
    BY <1>3, <2>1, <2>3, <2>4, <2>6, <2>7
<1> QED
  BY <1>4, <1>5, <1>6, <1>7, <1>8

-----------------------------------------------------------------------------
(* A remote thread: its calls.                                             *)

(* Start and Snapshot look at the binding, and may fail to open.           *)
LEMMA RemoteCallStep ==
  ASSUME TerminalInv, NEW t \in DOMAIN loads,
         \/ RemoteCall(t) \/ RemoteSnapshot(t)
         \/ RemoteOpens(t) /\ loads' = Failed(t) /\ UNCHANGED remotes
  PROVE  TerminalInv'
<1>1. CallsInv /\ RemotesInv /\ SidesInv
  BY DEF TerminalInv
<1>2. ~LocalThread /\ loads[t].at \in {"called", "snapshot", "opening"}
  BY <1>1 DEF RemoteCall, RemoteSnapshot, RemoteOpens, CallsInv, Quiet
<1>3. UNCHANGED <<service, ptys, remotes, closers>>
  BY DEF RemoteCall, RemoteSnapshot, RemoteOpens
<1>4. \/ loads' = Turned(t, "failed") \/ loads' = Turned(t, "snapshot")
      \/ loads' = WithLease(t, "opening", service.bound)
      \/ loads' = WithAnswer(t, "answered", NoSnapshot)
      \/ /\ service.session # None
         /\ loads' = WithAnswer(t, "answered", SnapshotOf(remotes[service.session]))
  BY DEF RemoteCall, RemoteSnapshot, Failed, Answered, Turned, WithLease, WithAnswer
<1>5. service.session # None => IsRun(SnapshotOf(remotes[service.session]).output)
  <2> SUFFICES ASSUME service.session # None
               PROVE  IsRun(SnapshotOf(remotes[service.session]).output)
    OBVIOUS
  <2>1. service.session \in DOMAIN remotes /\ service.session \in Nat
    BY <1>1, <1>2 DEF SidesInv, Services
  <2>2. RemoteOK(service.session, remotes[service.session])
    BY <1>1, <2>1 DEF RemotesInv
  <2> QED
    BY <2>1, <2>2 DEF RemoteOK, IsRun, SnapshotOf
<1>6. IsRun(NoSnapshot.output)
  BY NothingIsRun DEF NoSnapshot
<1>7. \E a \in {"failed", "snapshot", "opening", "answered"} : GotTo(loads', t, a)
  <2>1. CASE loads' = Turned(t, "failed") \/ loads' = Turned(t, "snapshot")
    BY <1>1, <2>1, CallTurns
  <2>2. CASE loads' = WithLease(t, "opening", service.bound)
    BY <1>1, <2>2, CallTakes
  <2>3. CASE loads' = WithAnswer(t, "answered", NoSnapshot)
    BY <1>1, <1>6, <2>3, CallTurns
  <2>4. CASE /\ service.session # None
             /\ loads' = WithAnswer(t, "answered", SnapshotOf(remotes[service.session]))
    BY <1>1, <1>5, <2>4, CallTurns
  <2> QED
    BY <1>4, <2>1, <2>2, <2>3, <2>4
<1>8. LoadsStep(loads')
  BY <1>1, <1>2, <1>7, CallStep
<1> QED
  BY <1>3, <1>8, LoadsMove

-----------------------------------------------------------------------------
(* A remote thread: its terminals.                                         *)

(* The parts of the invariant that a remote thread has to keep.            *)
LEMMA RemoteMoves ==
  ASSUME TerminalInv, ~LocalThread, CallsInv', RemotesInv', NoStrayTerminal', UNCHANGED ptys,
         service' \in Services, service'.kind = service.kind,
         service'.session \in {None} \cup DOMAIN remotes'
  PROVE  TerminalInv'
<1>1. ~LocalThread' /\ ptys = <<>> /\ PtysInv
  BY DEF TerminalInv, SidesInv, LocalThread
<1>2. SidesInv'
  BY <1>1 DEF SidesInv
<1>3. PtysInv'
  BY <1>1 DEF PtysInv
<1> QED
  BY <1>2, <1>3 DEF TerminalInv

(* One terminal becomes x, and keeps its lease; it has not come to life    *)
(* again.                                                                  *)
Becomes(i, x) ==
  /\ i \in DOMAIN remotes /\ remotes' = [remotes EXCEPT ![i] = x]
  /\ RemoteOK(i, x) /\ x.lease = remotes[i].lease
  /\ (remotes[i].ended => x.ended) /\ (remotes[i].cancelled => x.cancelled)

(* What that leaves.                                                       *)
LEMMA RemoteBecomes ==
  ASSUME RemotesInv, NEW i, NEW x, Becomes(i, x), closers' \subseteq DOMAIN remotes
  PROVE  /\ RemotesInv' /\ DOMAIN remotes' = DOMAIN remotes /\ remotes'[i] = x
         /\ \A j \in DOMAIN remotes :
              /\ j # i => remotes'[j] = remotes[j]
              /\ remotes'[j].lease = remotes[j].lease
              /\ (remotes[j].ended => remotes'[j].ended)
              /\ (remotes[j].cancelled => remotes'[j].cancelled)
<1>1. /\ IsTuple(remotes') /\ DOMAIN remotes' = DOMAIN remotes /\ remotes'[i] = x
      /\ \A j \in DOMAIN remotes : j # i => remotes'[j] = remotes[j]
  BY TupleExcept DEF RemotesInv, Becomes
<1>2. RemotesInv'
  BY <1>1 DEF RemotesInv, Becomes
<1> QED
  BY <1>1, <1>2 DEF Becomes

(* Calls that hold a terminal hold it still.                               *)
LEMMA CallsHold ==
  ASSUME CallsInv, LoadsStep(loads'), ~LocalThread, service'.kind = service.kind, UNCHANGED ptys,
         DOMAIN remotes \subseteq DOMAIN remotes',
         \A j \in DOMAIN remotes : remotes'[j].lease = remotes[j].lease
  PROVE  CallsInv'
<1>1. ~LocalThread' /\ IsTuple(loads')
  BY DEF LocalThread, LoadsStep
<1>2. ASSUME NEW u \in DOMAIN loads'
      PROVE  /\ CallOK(loads'[u])
             /\ loads'[u].at = "opened" => /\ loads'[u].terminal \in DOMAIN remotes'
                                           /\ remotes'[loads'[u].terminal].lease = loads'[u].lease
             /\ loads'[u].at = "found" => loads'[u].terminal \in DOMAIN ptys'
  BY <1>2 DEF CallsInv, LoadsStep
<1> QED
  BY <1>1, <1>2 DEF CallsInv

(* A terminal that somebody was to close is closed by the same, if the     *)
(* session, the binding and those who close stay.                          *)
LEMMA StraysWatched ==
  ASSUME NoStrayTerminal, LoadsStep(loads'), DOMAIN remotes' = DOMAIN remotes,
         service'.session = service.session, service'.bound = service.bound,
         closers \subseteq closers',
         \A j \in DOMAIN remotes : /\ remotes'[j].lease = remotes[j].lease
                                   /\ (remotes[j].ended => remotes'[j].ended)
                                   /\ (remotes[j].cancelled => remotes'[j].cancelled)
  PROVE  NoStrayTerminal'
<1> SUFFICES ASSUME NEW i \in DOMAIN remotes,
                    ~remotes'[i].ended, ~remotes'[i].cancelled, i \notin closers',
                    ~(service'.session = i /\ service'.bound = remotes'[i].lease)
             PROVE  \E t \in DOMAIN loads' : loads'[t].at = "opened" /\ loads'[t].terminal = i
  BY DEF NoStrayTerminal
<1>1. PICK t \in DOMAIN loads : loads[t].at = "opened" /\ loads[t].terminal = i
  BY DEF NoStrayTerminal
<1>2. t \in DOMAIN loads' /\ loads'[t] = loads[t]
  BY <1>1 DEF LoadsStep
<1> QED
  BY <1>1, <1>2

(* One terminal changes, for which the session and the binding stay.       *)
LEMMA OneRemote ==
  ASSUME TerminalInv, ~LocalThread, NEW i, NEW x, Becomes(i, x),
         UNCHANGED <<service, ptys, closers, loads>>
  PROVE  TerminalInv'
<1>1. CallsInv /\ RemotesInv /\ SidesInv /\ LoadsStep(loads') /\ closers' \subseteq DOMAIN remotes
  BY LoadsStay DEF TerminalInv, RemotesInv
<1>2. /\ RemotesInv' /\ DOMAIN remotes' = DOMAIN remotes /\ remotes'[i] = x
      /\ \A j \in DOMAIN remotes : /\ remotes'[j].lease = remotes[j].lease
                                   /\ (remotes[j].ended => remotes'[j].ended)
                                   /\ (remotes[j].cancelled => remotes'[j].cancelled)
  BY <1>1, RemoteBecomes
<1>3. CallsInv'
  BY <1>1, <1>2, CallsHold
<1>4. NoStrayTerminal'
  BY <1>1, <1>2, StraysWatched DEF TerminalInv
<1>5. service' \in Services /\ service'.session \in {None} \cup DOMAIN remotes'
  BY <1>1, <1>2 DEF SidesInv
<1> QED
  BY <1>2, <1>3, <1>4, <1>5, RemoteMoves

(* The thread is bound, unbound, or the manager shut down.                 *)
LEMMA BindingStep ==
  ASSUME TerminalInv, BindTerminal \/ UnbindTerminal \/ RemoteShutdown
  PROVE  TerminalInv'
<1>1. /\ CallsInv /\ RemotesInv /\ SidesInv /\ NoStrayTerminal /\ LoadsStep(loads)
      /\ ~LocalThread /\ UNCHANGED <<remotes, loads, ptys>>
  BY LoadsStay DEF TerminalInv, BindTerminal, UnbindTerminal, RemoteShutdown
<1>2. service \in Services /\ service.session \in {None} \cup DOMAIN remotes
  BY <1>1 DEF SidesInv
<1>3. /\ service' \in Services /\ service'.kind = service.kind
      /\ service'.session \in {None, service.session}
  <2>1. CASE BindTerminal
    <3> DEFINE n == service.bindings + 1
               b == [service EXCEPT !.bindings = n]
    <3>1. service' = [b EXCEPT !.bound = n]
      BY <2>1 DEF BindTerminal
    <3>2. n \in Nat
      BY <1>2 DEF Services
    <3> HIDE DEF n
    <3>3. b \in Services /\ b.kind = service.kind /\ b.session = service.session
      BY <1>2, <3>2 DEF Services
    <3> HIDE DEF b
    <3> QED
      BY <3>1, <3>2, <3>3 DEF Services
  <2>2. CASE UnbindTerminal
    <3> DEFINE b == [service EXCEPT !.bound = None]
    <3>1. service' = [b EXCEPT !.session = None]
      BY <2>2 DEF UnbindTerminal
    <3>2. b \in Services /\ b.kind = service.kind
      BY <1>2 DEF Services, None
    <3> HIDE DEF b
    <3> QED
      BY <3>1, <3>2 DEF Services, None
  <2>3. CASE RemoteShutdown
    <3> DEFINE b == [service EXCEPT !.closed = TRUE]
    <3>1. service' = [b EXCEPT !.bound = None]
      BY <2>3 DEF RemoteShutdown
    <3>2. b \in Services /\ b.kind = service.kind /\ b.session = service.session
      BY <1>2 DEF Services
    <3> HIDE DEF b
    <3> QED
      BY <3>1, <3>2 DEF Services, None
  <2> QED
    BY <2>1, <2>2, <2>3
<1>4. closers \subseteq closers' /\ closers' \subseteq closers \cup Taken
  BY DEF BindTerminal, UnbindTerminal, RemoteShutdown
<1>5. Taken \subseteq DOMAIN remotes
  BY <1>2 DEF Taken
<1>6. RemotesInv'
  BY <1>1, <1>4, <1>5 DEF RemotesInv
<1>7. CallsInv'
  BY <1>1, <1>3, CallsHold
<1>8. \A i \in DOMAIN remotes : service.session = i => i \in closers'
  <2>1. CASE BindTerminal
    <3>1. service.session = None /\ \A i \in DOMAIN remotes : i # None
      BY <1>1, <2>1, Tuples DEF BindTerminal, None, RemotesInv
    <3> QED
      BY <3>1
  <2>2. CASE UnbindTerminal \/ RemoteShutdown
    <3>1. Taken \subseteq closers'
      BY <2>2 DEF UnbindTerminal, RemoteShutdown
    <3>2. \A i \in DOMAIN remotes : i # None
      BY <1>1, Tuples DEF None, RemotesInv
    <3> QED
      BY <3>1, <3>2 DEF Taken
  <2> QED
    BY <2>1, <2>2
<1>9. NoStrayTerminal'
  BY <1>1, <1>4, <1>8 DEF NoStrayTerminal
<1> QED
  BY <1>1, <1>2, <1>3, <1>6, <1>7, <1>9, RemoteMoves

(* A terminal is told to end.                                              *)
LEMMA CancelKeeps ==
  ASSUME RemotesInv, NEW i \in DOMAIN remotes, remotes' = Cancelling(i)
  PROVE  \E x : Becomes(i, x) /\ x.cancelled
<1> DEFINE c == remotes[i]
           x == [c EXCEPT !.cancelled = TRUE]
<1>1. RemoteOK(i, c)
  BY DEF RemotesInv
<1>2. remotes' = [remotes EXCEPT ![i] = x]
  BY DEF Cancelling
<1> HIDE DEF c
<1>3. RemoteOK(i, x) /\ x.lease = c.lease /\ x.ended = c.ended /\ x.cancelled = TRUE
  BY <1>1 DEF RemoteOK
<1> QED
  BY <1>2, <1>3 DEF Becomes, c

(* Who took a terminal cancels it, and the user may.                       *)
LEMMA CancelStep ==
  ASSUME TerminalInv, RemoteStop \/ \E i \in closers : CloserCloses(i)
  PROVE  TerminalInv'
<1>1. /\ CallsInv /\ RemotesInv /\ SidesInv /\ NoStrayTerminal /\ LoadsStep(loads)
  BY LoadsStay DEF TerminalInv
<1>2. CASE RemoteStop
  <2>1. ~LocalThread /\ service.session \in DOMAIN remotes /\ remotes' = Cancelling(service.session)
    BY <1>1, <1>2 DEF RemoteStop, SidesInv
  <2>2. \E x : Becomes(service.session, x)
    BY <1>1, <2>1, CancelKeeps
  <2> QED
    BY <1>2, <2>1, <2>2, OneRemote DEF RemoteStop
<1>3. ASSUME NEW i \in closers, CloserCloses(i) PROVE TerminalInv'
  <2>1. i \in DOMAIN remotes /\ remotes' = Cancelling(i) /\ closers' = closers \ {i}
        /\ UNCHANGED <<service, ptys, loads>>
    BY <1>1, <1>3 DEF CloserCloses, RemotesInv
  <2>2. ~LocalThread
    BY <1>1, <2>1 DEF SidesInv
  <2>3. PICK x : Becomes(i, x) /\ x.cancelled
    BY <1>1, <2>1, CancelKeeps
  <2>4. closers' \subseteq DOMAIN remotes
    BY <1>1, <2>1 DEF RemotesInv
  <2>5. /\ RemotesInv' /\ DOMAIN remotes' = DOMAIN remotes /\ remotes'[i] = x
        /\ \A j \in DOMAIN remotes : /\ j # i => remotes'[j] = remotes[j]
                                     /\ remotes'[j].lease = remotes[j].lease
    BY <1>1, <2>3, <2>4, RemoteBecomes
  <2>6. CallsInv'
    BY <1>1, <2>1, <2>2, <2>5, CallsHold
  <2>7. NoStrayTerminal'
    <3> SUFFICES ASSUME NEW j \in DOMAIN remotes, ~remotes'[j].ended, ~remotes'[j].cancelled,
                        j \notin closers',
                        ~(service.session = j /\ service.bound = remotes'[j].lease)
                 PROVE  \E t \in DOMAIN loads : loads[t].at = "opened" /\ loads[t].terminal = j
      BY <2>1, <2>5 DEF NoStrayTerminal
    <3>1. j # i /\ j \notin closers
      BY <2>1, <2>3, <2>5
    <3>2. remotes'[j] = remotes[j]
      BY <2>5, <3>1
    <3> QED
      BY <1>1, <3>1, <3>2 DEF NoStrayTerminal
  <2>8. service' \in Services /\ service'.session \in {None} \cup DOMAIN remotes'
    BY <1>1, <2>1, <2>2, <2>5 DEF SidesInv
  <2> QED
    BY <2>1, <2>2, <2>5, <2>6, <2>7, <2>8, RemoteMoves
<1> QED
  BY <1>2, <1>3

(* A terminal is opened under the lease its Start has read.                *)
LEMMA OpenStep ==
  ASSUME TerminalInv, NEW t \in DOMAIN loads, RemoteOpens(t)
  PROVE  TerminalInv'
<1>1. /\ CallsInv /\ RemotesInv /\ SidesInv /\ NoStrayTerminal
  BY DEF TerminalInv
<1>2. CASE loads' = Failed(t) /\ UNCHANGED remotes
  BY <1>2, RemoteCallStep
<1>3. CASE ~(loads' = Failed(t) /\ UNCHANGED remotes)
  <2> DEFINE n == Len(remotes) + 1
             e == [lease |-> loads[t].lease, generation |-> 0,
             sequence |-> 0, output |-> <<>>, received |-> 0, seen |-> 0,
             events |-> <<>>, ended |-> FALSE, cancelled |-> FALSE, consumer |-> "none"]
  <2>1. /\ remotes' = Append(remotes, e) /\ loads' = WithTerminal(t, "opened", n)
        /\ loads[t].at = "opening" /\ UNCHANGED <<service, ptys, closers>>
    BY <1>3 DEF RemoteOpens, WithTerminal
  <2>2. ~LocalThread
    BY <1>1, <2>1 DEF CallsInv, Quiet
  <2>3. RemoteOK(n, e) /\ e.lease = loads[t].lease
    <3>1. Kept(Chunks(n, 0)) = <<>>
      BY NothingIsRun
    <3>2. <<>> \in Seq([type : {"output", "exit"}, number : Nat]) /\ DOMAIN <<>> = {}
      OBVIOUS
    <3> QED
      BY <3>1, <3>2 DEF RemoteOK
  <2> HIDE DEF e
  <2>4. /\ Len(remotes) \in Nat /\ DOMAIN remotes = 1 .. Len(remotes)
        /\ IsTuple(remotes') /\ DOMAIN remotes' = 1 .. Len(remotes) + 1 /\ remotes'[n] = e
        /\ \A k \in 1 .. Len(remotes) : remotes'[k] = remotes[k]
    BY <1>1, <2>1, Tuples DEF RemotesInv
  <2>5. /\ n \in DOMAIN remotes' /\ n \notin DOMAIN remotes
        /\ DOMAIN remotes \subseteq DOMAIN remotes'
        /\ \A k \in DOMAIN remotes' : k = n \/ k \in DOMAIN remotes
        /\ \A k \in DOMAIN remotes : remotes'[k] = remotes[k]
    BY <2>4
  <2> HIDE DEF n
  <2>6. RemotesInv'
    <3>1. closers' \subseteq DOMAIN remotes'
      BY <1>1, <2>1, <2>5 DEF RemotesInv
    <3>2. ASSUME NEW k \in DOMAIN remotes' PROVE RemoteOK(k, remotes'[k])
      BY <1>1, <2>3, <2>4, <2>5 DEF RemotesInv
    <3> QED
      BY <2>4, <3>1, <3>2 DEF RemotesInv
  <2>7. /\ GotTo(loads', t, "opened") /\ loads'[t].terminal = n /\ loads'[t].lease = loads[t].lease
    BY <1>1, <2>1, CallTakes
  <2>8. CallsInv'
    <3>1. ASSUME NEW u \in DOMAIN loads'
          PROVE  /\ CallOK(loads'[u])
                 /\ loads'[u].at = "opened" => /\ loads'[u].terminal \in DOMAIN remotes'
                                               /\ remotes'[loads'[u].terminal].lease = loads'[u].lease
                 /\ loads'[u].at = "found" => loads'[u].terminal \in DOMAIN ptys'
      <4>1. CASE u = t
        BY <2>3, <2>4, <2>5, <2>7, <4>1 DEF GotTo
      <4>2. CASE u # t
        <5>1. u \in DOMAIN loads /\ loads'[u] = loads[u]
          BY <2>7, <4>2 DEF GotTo
        <5>2. /\ CallOK(loads[u])
              /\ loads[u].at = "opened" => /\ loads[u].terminal \in DOMAIN remotes
                                           /\ remotes[loads[u].terminal].lease = loads[u].lease
              /\ loads[u].at = "found" => loads[u].terminal \in DOMAIN ptys
          BY <1>1, <5>1 DEF CallsInv
        <5> QED
          BY <2>1, <2>5, <5>1, <5>2
      <4> QED
        BY <4>1, <4>2
    <3>2. ~LocalThread' /\ IsTuple(loads')
      BY <2>1, <2>2, <2>7 DEF LocalThread, GotTo
    <3> QED
      BY <3>1, <3>2 DEF CallsInv
  <2>9. NoStrayTerminal'
    <3> SUFFICES ASSUME NEW j \in DOMAIN remotes', ~remotes'[j].ended, ~remotes'[j].cancelled,
                        j \notin closers,
                        ~(service.session = j /\ service.bound = remotes'[j].lease)
                 PROVE  \E u \in DOMAIN loads' : loads'[u].at = "opened" /\ loads'[u].terminal = j
      BY <2>1 DEF NoStrayTerminal
    <3>1. CASE j = n
      BY <2>7, <3>1 DEF GotTo
    <3>2. CASE j # n
      <4>1. j \in DOMAIN remotes /\ remotes'[j] = remotes[j]
        BY <2>5, <3>2
      <4>2. PICK u \in DOMAIN loads : loads[u].at = "opened" /\ loads[u].terminal = j
        BY <1>1, <4>1 DEF NoStrayTerminal
      <4>3. u # t /\ u \in DOMAIN loads' /\ loads'[u] = loads[u]
        BY <2>1, <2>7, <4>2 DEF GotTo
      <4> QED
        BY <4>2, <4>3
    <3> QED
      BY <3>1, <3>2
  <2>10. service' \in Services /\ service'.session \in {None} \cup DOMAIN remotes'
    BY <1>1, <2>1, <2>2, <2>5 DEF SidesInv
  <2> QED
    BY <2>1, <2>2, <2>6, <2>8, <2>9, <2>10, RemoteMoves
<1> QED
  BY <1>2, <1>3

(* Start hands the terminal to the thread, or closes it.                   *)
LEMMA StartedStep ==
  ASSUME TerminalInv, NEW t \in DOMAIN loads, RemoteStarted(t)
  PROVE  TerminalInv'
<1> DEFINE i == loads[t].terminal
           c == remotes[i]
           x == [c EXCEPT !.generation = service.generation + 1,
                   !.seen = c.received, !.sequence = c.received,
                   !.output = Kept(Chunks(i, c.received)), !.consumer = "reading"]
<1>1. /\ CallsInv /\ RemotesInv /\ SidesInv /\ NoStrayTerminal
      /\ UNCHANGED <<ptys, closers>> /\ loads[t].at = "opened"
  BY DEF TerminalInv, RemoteStarted
<1>2. i \in DOMAIN remotes /\ c.lease = loads[t].lease /\ ~LocalThread
  BY <1>1 DEF CallsInv, Quiet
<1>3. i \in Nat
  BY <1>1, <1>2, Tuples DEF RemotesInv
<1>4. service \in Services /\ RemoteOK(i, c) /\ c.received \in Nat
  BY <1>1, <1>2 DEF SidesInv, RemotesInv, RemoteOK
<1>5. \/ /\ StillBound(t) /\ remotes' = [remotes EXCEPT ![i] = x]
         /\ service' = [service EXCEPT !.generation = @ + 1, !.session = i]
         /\ loads' = WithAnswer(t, "answered", SnapshotOf(x))
      \/ /\ remotes' = Cancelling(i) /\ service' = [service EXCEPT !.generation = @ + 1]
         /\ loads' = Turned(t, "failed")
  BY DEF RemoteStarted, Answered, Failed, WithAnswer, Turned
<1>6. RemoteOK(i, x) /\ x.lease = c.lease /\ x.ended = c.ended /\ x.cancelled = c.cancelled
      /\ IsRun(SnapshotOf(x).output)
  <2> DEFINE a == [c EXCEPT !.generation = service.generation + 1]
             b == [a EXCEPT !.seen = c.received]
             d == [b EXCEPT !.sequence = c.received]
             o == Kept(Chunks(i, c.received))
             e == [d EXCEPT !.output = o]
             f == [e EXCEPT !.consumer = "reading"]
  <2>1. x = f
    OBVIOUS
  <2> HIDE DEF c, o
  <2>2. /\ DOMAIN f = DOMAIN c /\ f.events = c.events /\ f.received = c.received
        /\ f.ended = c.ended /\ f.cancelled = c.cancelled /\ f.lease = c.lease
        /\ f.seen = c.received /\ f.output = o
    BY <1>4 DEF RemoteOK
  <2> HIDE DEF f
  <2>3. RemoteOK(i, f)
    BY <1>4, <2>2 DEF RemoteOK, o
  <2>4. IsRun(SnapshotOf(f).output)
    BY <1>3, <1>4, <2>2 DEF IsRun, SnapshotOf, o
  <2> QED
    BY <2>1, <2>2, <2>3, <2>4
<1> HIDE DEF i, c, x
<1>7. \E y : /\ Becomes(i, y) /\ (y.cancelled \/ (StillBound(t) /\ service'.session = i))
             /\ \E a \in {"answered", "failed"} : GotTo(loads', t, a)
             /\ service' \in Services /\ service'.kind = service.kind
             /\ service'.bound = service.bound /\ service'.session \in {i, service.session}
             /\ service'.session = service.session \/ service.session = None
  <2>1. CASE /\ StillBound(t) /\ remotes' = [remotes EXCEPT ![i] = x]
             /\ service' = [service EXCEPT !.generation = @ + 1, !.session = i]
             /\ loads' = WithAnswer(t, "answered", SnapshotOf(x))
    <3>1. Becomes(i, x)
      BY <1>2, <1>6, <2>1 DEF Becomes, c
    <3>2. GotTo(loads', t, "answered")
      BY <1>1, <1>6, <2>1, CallTurns
    <3>3. /\ service' \in Services /\ service'.kind = service.kind /\ service'.session = i
          /\ service'.bound = service.bound
      BY <1>3, <1>4, <2>1, ServiceMoves
    <3>4. service.session = None
      BY <2>1 DEF StillBound
    <3> QED
      BY <2>1, <3>1, <3>2, <3>3, <3>4
  <2>2. CASE /\ remotes' = Cancelling(i) /\ service' = [service EXCEPT !.generation = @ + 1]
             /\ loads' = Turned(t, "failed")
    <3>1. PICK y : Becomes(i, y) /\ y.cancelled
      BY <1>1, <1>2, <2>2, CancelKeeps
    <3>2. GotTo(loads', t, "failed")
      BY <1>1, <2>2, CallTurns
    <3>3. service.generation + 1 \in Nat
      BY <1>4 DEF Services
    <3>4. /\ service' \in Services /\ service'.kind = service.kind
          /\ service'.session = service.session /\ service'.bound = service.bound
      BY <1>4, <2>2, <3>3 DEF Services
    <3> QED
      BY <3>1, <3>2, <3>4
  <2> QED
    BY <1>5, <2>1, <2>2
<1>8. PICK y, a : /\ Becomes(i, y) /\ (y.cancelled \/ (StillBound(t) /\ service'.session = i))
                  /\ a \in {"answered", "failed"} /\ GotTo(loads', t, a)
                  /\ service' \in Services /\ service'.kind = service.kind
                  /\ service'.bound = service.bound /\ service'.session \in {i, service.session}
                  /\ service'.session = service.session \/ service.session = None
  BY <1>7
<1>9. closers' \subseteq DOMAIN remotes
  BY <1>1 DEF RemotesInv
<1>10. /\ RemotesInv' /\ DOMAIN remotes' = DOMAIN remotes /\ remotes'[i] = y
       /\ \A j \in DOMAIN remotes : /\ j # i => remotes'[j] = remotes[j]
                                    /\ remotes'[j].lease = remotes[j].lease
  BY <1>1, <1>8, <1>9, RemoteBecomes
<1>11. CallsInv'
  <2>1. ASSUME NEW u \in DOMAIN loads'
        PROVE  /\ CallOK(loads'[u])
               /\ loads'[u].at = "opened" => /\ loads'[u].terminal \in DOMAIN remotes'
                                             /\ remotes'[loads'[u].terminal].lease = loads'[u].lease
               /\ loads'[u].at = "found" => loads'[u].terminal \in DOMAIN ptys'
    <3>1. CASE u = t
      BY <1>8, <3>1 DEF GotTo
    <3>2. CASE u # t
      <4>1. u \in DOMAIN loads /\ loads'[u] = loads[u]
        BY <1>8, <3>2 DEF GotTo
      <4>2. /\ CallOK(loads[u])
            /\ loads[u].at = "opened" => /\ loads[u].terminal \in DOMAIN remotes
                                         /\ remotes[loads[u].terminal].lease = loads[u].lease
            /\ loads[u].at = "found" => loads[u].terminal \in DOMAIN ptys
        BY <1>1, <4>1 DEF CallsInv
      <4> QED
        BY <1>1, <1>10, <4>1, <4>2
    <3> QED
      BY <3>1, <3>2
  <2>2. ~LocalThread' /\ IsTuple(loads')
    BY <1>2, <1>8 DEF LocalThread, GotTo
  <2> QED
    BY <2>1, <2>2 DEF CallsInv
<1>12. NoStrayTerminal'
  <2> SUFFICES ASSUME NEW j \in DOMAIN remotes, ~remotes'[j].ended, ~remotes'[j].cancelled,
                      j \notin closers,
                      ~(service'.session = j /\ service'.bound = remotes'[j].lease)
               PROVE  \E u \in DOMAIN loads' : loads'[u].at = "opened" /\ loads'[u].terminal = j
    BY <1>1, <1>10 DEF NoStrayTerminal
  <2>1. j # i
    <3> SUFFICES ASSUME j = i PROVE FALSE
      OBVIOUS
    <3>1. StillBound(t) /\ service'.session = i
      BY <1>8, <1>10
    <3>2. service'.bound = remotes'[i].lease
      BY <1>2, <1>8, <1>10, <3>1 DEF StillBound, c
    <3> QED
      BY <3>1, <3>2
  <2>2. remotes'[j] = remotes[j]
    BY <1>10, <2>1
  <2>3. service.session # j \/ service.bound # remotes[j].lease
    <3> SUFFICES ASSUME service.session = j, service.bound = remotes[j].lease PROVE FALSE
      OBVIOUS
    <3>1. j # None
      BY <1>1, Tuples DEF None, RemotesInv
    <3>2. service'.session = j /\ service'.bound = remotes'[j].lease
      BY <1>8, <2>2, <3>1
    <3> QED
      BY <3>2
  <2>4. PICK u \in DOMAIN loads : loads[u].at = "opened" /\ loads[u].terminal = j
    BY <1>1, <2>2, <2>3 DEF NoStrayTerminal
  <2>5. u # t
    BY <2>1, <2>4 DEF i
  <2>6. u \in DOMAIN loads' /\ loads'[u] = loads[u]
    BY <1>8, <2>5 DEF GotTo
  <2> QED
    BY <2>4, <2>6
<1>13. service'.session \in {None} \cup DOMAIN remotes'
  BY <1>1, <1>2, <1>8, <1>10 DEF SidesInv
<1> QED
  BY <1>1, <1>2, <1>8, <1>10, <1>11, <1>12, <1>13, RemoteMoves

Events == [type : {"output", "exit"}, number : Nat]
NoExit(es) == \A k \in DOMAIN es : es[k].type # "exit"

(* A full channel and one that takes another event.                        *)
LEMMA Channels ==
  ASSUME NEW es \in Seq(Events), NEW e \in Events
  PROVE  /\ Append(es, e) \in Seq(Events)
         /\ NoExit(es) /\ e.type # "exit" => NoExit(Append(es, e))
         /\ es # <<>> => /\ Head(es) \in Events /\ Tail(es) \in Seq(Events)
                         /\ NoExit(es) => NoExit(Tail(es)) /\ Head(es).type # "exit"
         /\ Len(es) = Channel => es # <<>>
<1>1. /\ Append(es, e) \in Seq(Events) /\ DOMAIN es = 1 .. Len(es) /\ Len(es) \in Nat
      /\ DOMAIN Append(es, e) = 1 .. Len(es) + 1 /\ Append(es, e)[Len(es) + 1] = e
      /\ \A k \in 1 .. Len(es) : Append(es, e)[k] = es[k]
  OBVIOUS
<1>2. NoExit(es) /\ e.type # "exit" => NoExit(Append(es, e))
  <2> DEFINE a == Append(es, e)
  <2> HIDE DEF a
  <2>1. \A k \in DOMAIN a : (k \in DOMAIN es /\ a[k] = es[k]) \/ a[k] = e
    BY <1>1 DEF a
  <2>2. NoExit(es) /\ e.type # "exit" => NoExit(a)
    BY <2>1 DEF NoExit
  <2> QED
    BY <2>2 DEF a
<1>3. ASSUME es # <<>>
      PROVE  /\ Head(es) \in Events /\ Tail(es) \in Seq(Events)
             /\ NoExit(es) => NoExit(Tail(es)) /\ Head(es).type # "exit"
  <2>1. /\ Head(es) = es[1] /\ 1 \in DOMAIN es /\ Tail(es) \in Seq(Events)
        /\ Len(Tail(es)) = Len(es) - 1
        /\ \A k \in 1 .. Len(es) - 1 : Tail(es)[k] = es[k + 1]
    BY <1>3
  <2>2. \A k \in DOMAIN Tail(es) : k + 1 \in DOMAIN es /\ Tail(es)[k] = es[k + 1]
    BY <1>1, <2>1
  <2>3. es[1] \in Events
    BY <2>1
  <2> QED
    BY <2>1, <2>2, <2>3 DEF NoExit
<1>4. Len(es) = Channel => es # <<>>
  BY TerminalBuffers
<1> QED
  BY <1>1, <1>2, <1>3, <1>4

(* The end is in the channel of a terminal that ended only.                *)
LEMMA RemoteIsOK ==
  ASSUME NEW i, NEW x
  PROVE  RemoteOK(i, x) <=>
           /\ DOMAIN x = {"lease", "generation", "sequence", "output", "received", "seen", "events",
                          "ended", "cancelled", "consumer"}
           /\ x.events \in Seq(Events) /\ x.received \in Nat /\ x.seen \in Nat
           /\ NoExit(x.events) \/ x.ended
           /\ x.output = Kept(Chunks(i, x.seen))
BY DEF RemoteOK, Events, NoExit

(* The session of the helper client prints, or ends.                       *)
LEMMA PrintStep ==
  ASSUME TerminalInv, NEW i \in DOMAIN remotes, RemotePrints(i) \/ RemoteEnds(i)
  PROVE  TerminalInv'
<1> DEFINE c == remotes[i]
<1>1. RemoteOK(i, c)
  BY DEF TerminalInv, RemotesInv
<1>2. ~LocalThread
  BY DEF TerminalInv, SidesInv
<1>3. UNCHANGED <<service, ptys, closers, loads>>
  BY DEF RemotePrints, RemoteEnds
<1>4. CASE RemotePrints(i)
  <2> DEFINE e == [type |-> "output", number |-> c.received + 1]
             n == c.received + 1
             es == IF Len(c.events) = Channel THEN c.events ELSE Append(c.events, e)
             q == [c EXCEPT !.received = n]
             x == [q EXCEPT !.events = es]
  <2>1. remotes' = [remotes EXCEPT ![i] = x]
    BY <1>4 DEF RemotePrints
  <2> HIDE DEF c
  <2>2. n \in Nat /\ e \in Events /\ e.type # "exit"
    BY <1>1 DEF RemoteOK, Events
  <2> HIDE DEF n, e
  <2>3. es \in Seq(Events) /\ (NoExit(c.events) => NoExit(es))
    BY <1>1, <2>2, Channels, RemoteIsOK
  <2> HIDE DEF es
  <2>4. /\ DOMAIN x = DOMAIN c /\ x.events = es /\ x.received = n /\ x.seen = c.seen
        /\ x.ended = c.ended /\ x.output = c.output /\ x.lease = c.lease /\ x.cancelled = c.cancelled
    BY <1>1 DEF RemoteOK
  <2> HIDE DEF x
  <2>5. RemoteOK(i, x)
    BY <1>1, <2>2, <2>3, <2>4, RemoteIsOK
  <2>6. Becomes(i, x)
    BY <2>1, <2>4, <2>5 DEF Becomes, c
  <2> QED
    BY <1>2, <1>3, <2>6, OneRemote
<1>5. CASE RemoteEnds(i)
  <2> DEFINE e == [type |-> "exit", number |-> 0]
             room == IF Len(c.events) = Channel THEN Tail(c.events) ELSE c.events
             es == Append(room, e)
             q == [c EXCEPT !.ended = TRUE]
             x == [q EXCEPT !.events = es]
  <2>1. remotes' = [remotes EXCEPT ![i] = x]
    BY <1>5 DEF RemoteEnds
  <2> HIDE DEF c
  <2>2. e \in Events
    BY DEF Events
  <2> HIDE DEF e
  <2>3. room \in Seq(Events)
    BY <1>1, <2>2, Channels, RemoteIsOK
  <2> HIDE DEF room
  <2>4. es \in Seq(Events)
    BY <2>2, <2>3, Channels
  <2> HIDE DEF es
  <2>5. /\ DOMAIN x = DOMAIN c /\ x.events = es /\ x.received = c.received /\ x.seen = c.seen
        /\ x.ended = TRUE /\ x.output = c.output /\ x.lease = c.lease /\ x.cancelled = c.cancelled
    BY <1>1 DEF RemoteOK
  <2> HIDE DEF x
  <2>6. RemoteOK(i, x)
    BY <1>1, <2>4, <2>5, RemoteIsOK
  <2>7. Becomes(i, x)
    BY <2>1, <2>5, <2>6 DEF Becomes, c
  <2> QED
    BY <1>2, <1>3, <2>7, OneRemote
<1> QED
  BY <1>4, <1>5

(* The manager consumes an event.                                          *)
LEMMA ConsumeStep ==
  ASSUME TerminalInv, NEW i \in DOMAIN remotes, RemoteConsumes(i)
  PROVE  TerminalInv'
<1> DEFINE c == remotes[i]
           e == Head(c.events)
           x == [c EXCEPT !.events = Tail(@)]
           out == Consumed(x, i, e.number)
           gone == [x EXCEPT !.consumer = "gone"]
           last == [x EXCEPT !.sequence = @ + 1]
           told == [last EXCEPT !.consumer = "told"]
<1>1. RemoteOK(i, c) /\ RemotesInv /\ CallsInv /\ SidesInv /\ NoStrayTerminal
  BY DEF TerminalInv, RemotesInv
<1>2. ~LocalThread
  BY DEF TerminalInv, SidesInv
<1>3. c.events # <<>> /\ UNCHANGED <<ptys, closers, loads>>
  BY DEF RemoteConsumes
<1>4. \/ \E y \in {gone, x, out} : remotes' = [remotes EXCEPT ![i] = y] /\ UNCHANGED service
      \/ /\ Registered(i) /\ e.type = "exit"
         /\ remotes' = [remotes EXCEPT ![i] = told]
         /\ service' = [service EXCEPT !.session = None]
  BY DEF RemoteConsumes
<1> HIDE DEF c
<1>5. /\ c.events \in Seq(Events) /\ e \in Events /\ Tail(c.events) \in Seq(Events)
      /\ NoExit(c.events) => NoExit(Tail(c.events)) /\ e.type # "exit"
  <2>1. c.events \in Seq(Events)
    BY <1>1, RemoteIsOK
  <2>2. [type |-> "exit", number |-> 0] \in Events
    BY DEF Events
  <2> QED
    BY <1>3, <2>1, <2>2, Channels
<1> HIDE DEF e
<1>6. /\ DOMAIN x = DOMAIN c /\ x.events = Tail(c.events) /\ x.received = c.received
      /\ x.seen = c.seen /\ x.ended = c.ended /\ x.output = c.output /\ x.lease = c.lease
      /\ x.cancelled = c.cancelled
  BY <1>1 DEF RemoteOK
<1> HIDE DEF x
<1>7. RemoteOK(i, x)
  BY <1>1, <1>5, <1>6, RemoteIsOK
<1>8. /\ RemoteOK(i, gone) /\ gone.lease = c.lease /\ gone.ended = c.ended
      /\ gone.cancelled = c.cancelled
  BY <1>6, <1>7 DEF RemoteOK
<1>9. RemoteOK(i, last) /\ last.lease = c.lease /\ last.ended = c.ended
      /\ last.cancelled = c.cancelled
  BY <1>6, <1>7 DEF RemoteOK
<1> HIDE DEF last, gone
<1>10. RemoteOK(i, told) /\ told.lease = c.lease /\ told.ended = c.ended
       /\ told.cancelled = c.cancelled
  BY <1>9 DEF RemoteOK
<1> HIDE DEF told
<1>11. RemoteOK(i, out) /\ out.lease = c.lease /\ out.ended = c.ended
       /\ out.cancelled = c.cancelled
  <2> DEFINE n == e.number
             r == x.received
             o == appendReplay(x.output, <<i, n>>)
             a1 == [x EXCEPT !.seen = n]
             b1 == [a1 EXCEPT !.sequence = x.sequence + 1]
             next == [b1 EXCEPT !.output = o]
             a2 == [x EXCEPT !.seen = r]
             b2 == [a2 EXCEPT !.sequence = x.sequence + 2]
             k == Kept(Chunks(i, r))
             all == [b2 EXCEPT !.output = k]
  <2>1. out = IF n = x.seen + 1 THEN next ELSE all
    BY DEF Consumed
  <2>2. n \in Nat /\ r \in Nat /\ x.seen \in Nat /\ x.output = Kept(Chunks(i, x.seen))
    BY <1>5, <1>7, RemoteIsOK DEF Events
  <2>3. n = x.seen + 1 => o = Kept(Chunks(i, n))
    BY <2>2, KeptAppend
  <2> HIDE DEF o, k, n, r
  <2>4. /\ DOMAIN next = DOMAIN x /\ next.events = x.events /\ next.received = x.received
        /\ next.seen = n /\ next.output = o /\ next.ended = x.ended /\ next.lease = x.lease
        /\ next.cancelled = x.cancelled
    BY <1>7 DEF RemoteOK
  <2>5. /\ DOMAIN all = DOMAIN x /\ all.events = x.events /\ all.received = x.received
        /\ all.seen = r /\ all.output = k /\ all.ended = x.ended /\ all.lease = x.lease
        /\ all.cancelled = x.cancelled
    BY <1>7 DEF RemoteOK
  <2> HIDE DEF next, all, out
  <2>6. n = x.seen + 1 => RemoteOK(i, next)
    BY <1>7, <2>2, <2>3, <2>4, RemoteIsOK
  <2>7. RemoteOK(i, all)
    BY <1>7, <2>2, <2>5, RemoteIsOK DEF k
  <2> QED
    BY <1>6, <2>1, <2>4, <2>5, <2>6, <2>7
<1> HIDE DEF out
<1>12. CASE \E y \in {gone, x, out} : remotes' = [remotes EXCEPT ![i] = y] /\ UNCHANGED service
  <2>1. PICK y \in {gone, x, out} : remotes' = [remotes EXCEPT ![i] = y] /\ UNCHANGED service
    BY <1>12
  <2>2. Becomes(i, y)
    BY <1>6, <1>7, <1>8, <1>11, <2>1 DEF Becomes, c
  <2> QED
    BY <1>2, <1>3, <2>1, <2>2, OneRemote
<1>13. CASE /\ Registered(i) /\ e.type = "exit"
            /\ remotes' = [remotes EXCEPT ![i] = told]
            /\ service' = [service EXCEPT !.session = None]
  <2>1. c.ended
    BY <1>1, <1>5, <1>13, RemoteIsOK
  <2>2. Becomes(i, told)
    BY <1>10, <1>13 DEF Becomes, c
  <2>3. closers' \subseteq DOMAIN remotes
    BY <1>1, <1>3 DEF RemotesInv
  <2>4. /\ RemotesInv' /\ DOMAIN remotes' = DOMAIN remotes /\ remotes'[i] = told
        /\ \A j \in DOMAIN remotes : /\ j # i => remotes'[j] = remotes[j]
                                     /\ remotes'[j].lease = remotes[j].lease
    BY <1>1, <2>2, <2>3, RemoteBecomes
  <2>5. /\ service' \in Services /\ service'.kind = service.kind /\ service'.session = None
    BY <1>1, <1>13 DEF SidesInv, Services, None
  <2>6. LoadsStep(loads')
    BY <1>1, <1>3, LoadsStay
  <2>7. CallsInv'
    BY <1>1, <1>2, <1>3, <2>4, <2>5, <2>6, CallsHold
  <2>8. NoStrayTerminal'
    <3> SUFFICES ASSUME NEW j \in DOMAIN remotes, ~remotes'[j].ended, ~remotes'[j].cancelled,
                        j \notin closers
                 PROVE  \E u \in DOMAIN loads : loads[u].at = "opened" /\ loads[u].terminal = j
      BY <1>3, <2>4 DEF NoStrayTerminal
    <3>1. j # i
      BY <1>10, <2>1, <2>4
    <3>2. remotes'[j] = remotes[j] /\ service.session # j
      BY <1>13, <2>4, <3>1 DEF Registered
    <3> QED
      BY <1>1, <3>2 DEF NoStrayTerminal
  <2> QED
    BY <1>2, <1>3, <2>4, <2>5, <2>7, <2>8, RemoteMoves
<1> QED
  BY <1>4, <1>12, <1>13

-----------------------------------------------------------------------------
(* The invariant, and what follows.                                        *)

(* Every step of the terminals of a thread keeps the invariant.            *)
LEMMA TerminalInvHolds == TerminalSpec => []TerminalInv
<1>1. TerminalInit => TerminalInv
  <2> SUFFICES ASSUME TerminalInit PROVE TerminalInv
    OBVIOUS
  <2>1. ptys = <<>> /\ remotes = <<>> /\ loads = <<>> /\ closers = {} /\ DOMAIN <<>> = {}
    BY DEF TerminalInit
  <2>2. IsTuple(<<>>)
    <3>1. <<>> = [k \in 1 .. 0 |-> <<>>[k]]
      OBVIOUS
    <3> QED
      BY <3>1 DEF IsTuple
  <2>3. service \in Services /\ service.session = None
    <3>1. service \in [kind : {"local", "remote"}, closed : {FALSE}, session : {None},
                       generation : {0}, bound : {None}, bindings : {0}]
      BY DEF TerminalInit
    <3>2. /\ service.kind \in {"local", "remote"} /\ service.closed \in {FALSE}
          /\ service.session \in {None} /\ service.generation \in {0} /\ service.bound \in {None}
          /\ service.bindings \in {0}
      BY <3>1
    <3>3. service = [kind |-> service.kind, closed |-> service.closed, session |-> service.session,
                     generation |-> service.generation, bound |-> service.bound,
                     bindings |-> service.bindings]
      BY <3>1
    <3>4. service.closed \in BOOLEAN
      <4>1. service.closed \in {FALSE}
        BY <3>2
      <4> QED
        BY <4>1, Zenon
    <3>5. service.session = None
      BY <3>2
    <3>6. /\ service.session \in Nat /\ service.generation \in Nat
          /\ service.bound \in Nat /\ service.bindings \in Nat
      <4>1. service.session = 0 /\ service.bound = 0
        BY <3>2 DEF None
      <4>2. service.generation = 0 /\ service.bindings = 0
        BY <3>2
      <4> QED
        BY <4>1, <4>2
    <3>7. service \in Services
      BY <3>2, <3>3, <3>4, <3>6 DEF Services
    <3> QED
      BY <3>5, <3>7
  <2> QED
    BY <2>1, <2>2, <2>3
       DEF TerminalInv, CallsInv, PtysInv, RemotesInv, SidesInv, NoStrayTerminal
<1>2. TerminalInv /\ [TerminalNext]_terminalVars => TerminalInv'
  <2>1. TerminalInv /\ TerminalNext => TerminalInv'
    BY PaneStep, LocalCallStep, LocalStep, RemoteCallStep, BindingStep, CancelStep, OpenStep,
       StartedStep, PrintStep, ConsumeStep DEF TerminalNext
  <2>2. TerminalInv /\ UNCHANGED terminalVars => TerminalInv'
    BY LoadsStay, LoadsMove DEF terminalVars, TerminalInv
  <2> QED
    BY <2>1, <2>2
<1> QED
  BY <1>1, <1>2, PTL DEF TerminalSpec

(* No remote terminal runs that nobody will close: it is the session of    *)
(* the thread under the lease it is bound to, or a Start, an Unbind or a   *)
(* Shutdown holds it, whatever binds, unbinds, starts and ends meanwhile.  *)
THEOREM TerminalsAreClosed == TerminalSpec => []NoStrayTerminal
<1>1. TerminalInv => NoStrayTerminal
  BY DEF TerminalInv
<1> QED
  BY <1>1, TerminalInvHolds, PTL

(* What the managers keep of a terminal, and hand to the pane, is a run of *)
(* what its shell wrote.                                                   *)
SnapshotsAreRuns ==
  /\ \A i \in DOMAIN ptys : Consecutive(ptys[i].output)
  /\ \A i \in DOMAIN remotes : Consecutive(remotes[i].output)
  /\ \A t \in DOMAIN loads : Consecutive(loads[t].answer.output)

(* No chunk is missing, twice or out of place in a replay or a snapshot,   *)
(* where a replay is full, where output was dropped for a slow consumer    *)
(* and where a session starts with what was printed before it.             *)
THEOREM ReplaysAreRuns == TerminalSpec => []SnapshotsAreRuns
<1>1. TerminalInv => SnapshotsAreRuns
  <2> SUFFICES ASSUME TerminalInv PROVE SnapshotsAreRuns
    OBVIOUS
  <2>1. /\ \A i \in DOMAIN ptys : i \in Nat /\ PtyOK(i, ptys[i])
        /\ \A i \in DOMAIN remotes : i \in Nat /\ RemoteOK(i, remotes[i])
        /\ \A t \in DOMAIN loads : CallOK(loads[t])
    <3>1. IsTuple(ptys) /\ IsTuple(remotes)
      BY DEF TerminalInv, PtysInv, RemotesInv
    <3>2. (\A i \in DOMAIN ptys : i \in Nat) /\ \A i \in DOMAIN remotes : i \in Nat
      BY <3>1, Tuples
    <3> QED
      BY <3>2 DEF TerminalInv, PtysInv, RemotesInv, CallsInv
  <2>2. /\ \A i \in DOMAIN ptys : IsRun(ptys[i].output)
        /\ \A i \in DOMAIN remotes : IsRun(remotes[i].output)
        /\ \A t \in DOMAIN loads : IsRun(loads[t].answer.output)
    BY <2>1, RemoteIsOK DEF PtyOK, CallOK, IsRun
  <2> QED
    BY <2>2, RunsAreConsecutive DEF SnapshotsAreRuns
<1> QED
  BY <1>1, TerminalInvHolds, PTL
=============================================================================
