---------------------------- MODULE HelperInstall ----------------------------
(***************************************************************************)
(* Installing the helper of one artifact in the cache of one remote host   *)
(* (src/internal/remotessh/installer.go over sftp.go): upload to a file of *)
(* its own, verification, publication by link or rename, validation.       *)
(* Installs of several targets with one host alias, and of several         *)
(* desktops, overlap; each has a connection of its own, which may be lost  *)
(* between any two requests, and any request may fail.                     *)
(*                                                                         *)
(* The five directories of the cache are one: each is made, protected and  *)
(* awaited in the same way.  The lock object of a host and artifact is     *)
(* named by the install that made it.                                      *)
(***************************************************************************)
EXTENDS Naturals, FiniteSets

CONSTANTS
  Installs,  \* calls of InstallHelper
  Desktops,  \* the Pi Desk processes, each with its locks of locks
  NoLock

ASSUME NoLockIsNoInstall == NoLock \notin Installs

VARIABLES
  step,      \* where each install is, and its result
  desk,      \* the process it runs in
  link,      \* its connection is up
  lost,      \* history: it was lost before the install had ended
  cache,     \* the directory
  final,     \* the file at finalPath
  temporary, \* the upload of each install
  locks,     \* helperInstallLockRegistry.locks of each process, for this key
  gate,      \* the token of each lock is in its channel
  refs       \* helperInstallLock.refs

installVars == <<step, desk, link, lost, cache, final, temporary, locks, gate, refs>>

Files == {"none", "good", "bad", "foreign"}   \* absent, exact, other content, unsafe

InstallInit ==
  /\ step = [i \in Installs |-> [at |-> "idle", result |-> "none", lock |-> NoLock]]
  /\ desk \in [Installs -> Desktops]
  /\ link = [i \in Installs |-> TRUE] /\ lost = [i \in Installs |-> FALSE]
  /\ cache \in {"none", "private", "unsafe"}
  /\ final \in IF cache = "none" THEN {"none"} ELSE Files
  /\ temporary = [i \in Installs |-> "none"]
  /\ locks = [d \in Desktops |-> NoLock]
  /\ gate = [i \in Installs |-> FALSE] /\ refs = [i \in Installs |-> 0]

-----------------------------------------------------------------------------
(* Building blocks.                                                        *)
On(i, l) == step[i].at = l
Asks(i, l) == On(i, l) /\ link[i]     \* a request of SFTP
To(i, l) == step' = [step EXCEPT ![i].at = l]
Concludes(i, l, r) == step' = [step EXCEPT ![i].at = l, ![i].result = r]
LockOf(i) == step[i].lock

-----------------------------------------------------------------------------
(* Install binds the generation and opens SFTP.                            *)
InstallHelper(i) ==
  /\ Asks(i, "idle") /\ To(i, "parents")
  /\ UNCHANGED <<desk, link, lost, cache, final, temporary, locks, gate, refs>>

(* ensureRemoteDirectory: what another install has made, and not protected *)
(* yet, is awaited.                                                        *)
InspectDirectory(i) ==
  /\ Asks(i, "parents")
  /\ \/ cache = "none" /\ To(i, "mkdir")
     \/ cache = "made" /\ To(i, "wait")
     \/ cache = "private" /\ To(i, "existing")
     \/ cache = "unsafe" /\ Concludes(i, "close", "failed")
  /\ UNCHANGED <<desk, link, lost, cache, final, temporary, locks, gate, refs>>

Mkdir(i) ==
  /\ Asks(i, "mkdir")
  /\ \/ cache = "none" /\ cache' = "made" /\ To(i, "chmod")
     \/ To(i, "wait") /\ UNCHANGED cache
  /\ UNCHANGED <<desk, link, lost, final, temporary, locks, gate, refs>>

Chmod(i) ==
  /\ Asks(i, "chmod") /\ cache' = "private" /\ To(i, "existing")
  /\ UNCHANGED <<desk, link, lost, final, temporary, locks, gate, refs>>

WaitForDirectory(i) ==
  /\ Asks(i, "wait") /\ cache = "private" /\ To(i, "existing")
  /\ UNCHANGED <<desk, link, lost, cache, final, temporary, locks, gate, refs>>

(* validateExistingHelper.                                                 *)
ValidateExisting(i) ==
  /\ Asks(i, "existing")
  /\ \/ final = "foreign" /\ Concludes(i, "close", "failed")
     \/ final = "good" /\ Concludes(i, "close", "reused")
     \/ final \in {"none", "bad"} /\ To(i, "upload")
  /\ UNCHANGED <<desk, link, lost, cache, final, temporary, locks, gate, refs>>

(* createTemporaryHelper: the file is made, written and closed, then read  *)
(* back; it may be cut off, and what arrived on the other side may differ. *)
CreateUpload(i) ==
  /\ Asks(i, "upload") /\ To(i, "verify")
  /\ \E content \in {"good", "bad"} : temporary' = [temporary EXCEPT ![i] = content]
  /\ UNCHANGED <<desk, link, lost, cache, final, locks, gate, refs>>

(* Mutant: the upload is not read back.                                    *)
TrustUpload(i) ==
  /\ Asks(i, "verify") /\ To(i, "lock")
  /\ UNCHANGED <<desk, link, lost, cache, final, temporary, locks, gate, refs>>

VerifyUpload(i) ==
  /\ Asks(i, "verify")
  /\ IF temporary[i] = "good" THEN To(i, "lock") ELSE Concludes(i, "discard", "failed")
  /\ UNCHANGED <<desk, link, lost, cache, final, temporary, locks, gate, refs>>

-----------------------------------------------------------------------------
(* acquireHelperInstallLock: a lock is forgotten when nobody refers to it. *)
FindLock(i) ==
  LET found == locks[desk[i]]
      lock == IF found = NoLock THEN i ELSE found
  IN /\ On(i, "lock")
     /\ locks' = [locks EXCEPT ![desk[i]] = lock]
     /\ gate' = IF found = NoLock THEN [gate EXCEPT ![i] = TRUE] ELSE gate
     /\ refs' = [refs EXCEPT ![lock] = @ + 1]
     /\ step' = [step EXCEPT ![i].at = "gate", ![i].lock = lock]
     /\ UNCHANGED <<desk, link, lost, cache, final, temporary>>

TakeLock(i) ==
  /\ On(i, "gate") /\ gate[LockOf(i)]
  /\ gate' = [gate EXCEPT ![LockOf(i)] = FALSE]
  /\ To(i, "inspect")
  /\ UNCHANGED <<desk, link, lost, cache, final, temporary, locks, refs>>

ReturnLock(i) ==
  /\ On(i, "unlock")
  /\ gate' = [gate EXCEPT ![LockOf(i)] = TRUE]
  /\ To(i, "leave")
  /\ UNCHANGED <<desk, link, lost, cache, final, temporary, locks, refs>>

(* Mutant: the lock is forgotten though others refer to it.                *)
LeaveAndForgetLock(i) ==
  /\ On(i, "leave")
  /\ refs' = [refs EXCEPT ![LockOf(i)] = @ - 1]
  /\ locks' = [locks EXCEPT ![desk[i]] = NoLock]
  /\ To(i, "discard")
  /\ UNCHANGED <<desk, link, lost, cache, final, temporary, gate>>

LeaveLock(i) ==
  /\ On(i, "leave")
  /\ refs' = [refs EXCEPT ![LockOf(i)] = @ - 1]
  /\ locks' = IF refs[LockOf(i)] = 1 /\ locks[desk[i]] = LockOf(i)
                 THEN [locks EXCEPT ![desk[i]] = NoLock] ELSE locks
  /\ To(i, "discard")
  /\ UNCHANGED <<desk, link, lost, cache, final, temporary, gate>>

-----------------------------------------------------------------------------
(* Publication, under the lock of this process: an existing file is        *)
(* replaced, otherwise the upload is linked, which fails when another      *)
(* process was faster.                                                     *)
InspectFinal(i) ==
  /\ Asks(i, "inspect")
  /\ \/ final = "foreign" /\ Concludes(i, "unlock", "failed")
     \/ final \in {"good", "bad"} /\ To(i, "replace")
     \/ final = "none" /\ To(i, "link")
  /\ UNCHANGED <<desk, link, lost, cache, final, temporary, locks, gate, refs>>

Replace(i) ==
  /\ Asks(i, "replace")
  /\ final' = temporary[i]
  /\ temporary' = [temporary EXCEPT ![i] = "none"]
  /\ To(i, "validate")
  /\ UNCHANGED <<desk, link, lost, cache, locks, gate, refs>>

Link(i) ==
  /\ Asks(i, "link")
  /\ \/ final = "none" /\ final' = temporary[i] /\ To(i, "validate")
     \/ final = "good" /\ Concludes(i, "unlock", "reused") /\ UNCHANGED final
     \/ final \in {"bad", "foreign"} /\ Concludes(i, "unlock", "failed") /\ UNCHANGED final
  /\ UNCHANGED <<desk, link, lost, cache, temporary, locks, gate, refs>>

ValidateInstalled(i) ==
  /\ Asks(i, "validate")
  /\ Concludes(i, "unlock", IF final = "good" THEN "installed" ELSE "failed")
  /\ UNCHANGED <<desk, link, lost, cache, final, temporary, locks, gate, refs>>

(* The deferred removal of the upload, when it can still be asked for; the *)
(* removal of a file just made is taken to succeed.                        *)
RemoveUpload(i) ==
  /\ On(i, "discard")
  /\ temporary' = IF link[i] THEN [temporary EXCEPT ![i] = "none"] ELSE temporary
  /\ To(i, "close")
  /\ UNCHANGED <<desk, link, lost, cache, final, locks, gate, refs>>

(* SFTP is closed and the generation validated; an install that failed     *)
(* disconnects.                                                            *)
CloseSFTP(i) ==
  /\ On(i, "close")
  /\ \/ link[i] /\ step[i].result # "failed" /\ To(i, "done") /\ UNCHANGED link
     \/ Concludes(i, "done", "failed") /\ link' = [link EXCEPT ![i] = FALSE]
  /\ UNCHANGED <<desk, lost, cache, final, temporary, locks, gate, refs>>

(* A request fails, with or without its connection, or a wait ends.        *)
Fail(i) ==
  /\ \/ step[i].at \in {"parents", "mkdir", "chmod", "wait", "existing", "upload"}
          /\ Concludes(i, "close", "failed")
     \/ step[i].at = "verify" /\ Concludes(i, "discard", "failed")
     \/ step[i].at = "gate" /\ Concludes(i, "leave", "failed")
     \/ step[i].at \in {"inspect", "replace", "link", "validate"} /\ Concludes(i, "unlock", "failed")
  /\ UNCHANGED <<desk, link, lost, cache, final, temporary, locks, gate, refs>>

LoseLink(i) ==
  /\ link[i] /\ step[i].at \notin {"idle", "done"}
  /\ link' = [link EXCEPT ![i] = FALSE] /\ lost' = [lost EXCEPT ![i] = TRUE]
  /\ UNCHANGED <<step, desk, cache, final, temporary, locks, gate, refs>>

-----------------------------------------------------------------------------
InstallNext == \E i \in Installs :
  \/ InstallHelper(i) \/ InspectDirectory(i) \/ Mkdir(i) \/ Chmod(i) \/ WaitForDirectory(i)
  \/ ValidateExisting(i) \/ CreateUpload(i) \/ VerifyUpload(i)
  \/ FindLock(i) \/ TakeLock(i) \/ ReturnLock(i) \/ LeaveLock(i)
  \/ InspectFinal(i) \/ Replace(i) \/ Link(i) \/ ValidateInstalled(i)
  \/ RemoveUpload(i) \/ CloseSFTP(i) \/ Fail(i) \/ LoseLink(i)

InstallSpec == InstallInit /\ [][InstallNext]_installVars

-----------------------------------------------------------------------------
(* Two installs of one process never publish at the same time, though locks*)
(* are forgotten and made again while others wait for them.                *)
Publishing(i) == step[i].at \in {"inspect", "replace", "link", "validate", "unlock"}
OneHolder ==
  \A i, j \in Installs : i # j /\ desk[i] = desk[j] => ~(Publishing(i) /\ Publishing(j))

(* An install that returned without an error leaves the exact helper at its*)
(* place, whatever the others did, do and will do.                         *)
ResultIsExact ==
  \A i \in Installs : On(i, "done") /\ step[i].result # "failed" => final = "good"

(* Only an install whose connection was lost leaves its upload behind, and *)
(* a process that installs nothing refers to no lock.                      *)
NothingIsLeft ==
  /\ \A i \in Installs : On(i, "done") /\ ~lost[i] => temporary[i] = "none"
  /\ (\A i \in Installs : step[i].at \in {"idle", "done"}) =>
       \A d \in Desktops : locks[d] = NoLock

InstallIsSafe == OneHolder /\ ResultIsExact /\ NothingIsLeft

(* The exact helper is never replaced by anything else, nor is a file that *)
(* is not a regular file of the user's.                                    *)
HelperOnlyImproves == [][(final \in {"good", "foreign"}) => (final' = final)]_installVars
=============================================================================
