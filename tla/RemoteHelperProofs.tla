-------------------------- MODULE RemoteHelperProofs --------------------------
(***************************************************************************)
(* Proofs about the helper on a target: how it comes there (HelperInstall, *)
(* for any number of installs and processes) and how it serves             *)
(* (HelperServer, for any number of requests and any limits).              *)
(*                                                                         *)
(* That a lock of the installation excludes at all rests on the registry:  *)
(* a lock may be forgotten only when nobody refers to it, or the next      *)
(* install would make a second one, and whether somebody does is known by  *)
(* counting.  What is published rests on the verification of the upload    *)
(* and on what was seen at the final place being still there.              *)
(*                                                                         *)
(* That the server never takes a late frame for a broken protocol rests on *)
(* the order of the frames under way: one asks for a request before any    *)
(* other is about it, so that whatever a frame is about was registered,    *)
(* and what was registered is in the table, remembered, or known to be     *)
(* forgotten.                                                              *)
(***************************************************************************)
EXTENDS HelperInstall, HelperServer, FiniteSetTheorems, TLAPS

-----------------------------------------------------------------------------
(* The installation                                                        *)

Early == {"idle", "parents", "mkdir", "chmod", "wait", "existing", "upload", "verify", "lock"}
Referring == {"gate", "inspect", "replace", "link", "validate", "unlock", "leave"}
Late == {"discard", "close", "done"}
Results == {"none", "failed", "reused", "installed"}
Locals == [at : Early \cup Referring \cup Late, result : Results, lock : Installs \cup {NoLock}]

TypeOK ==
  /\ step \in [Installs -> Locals] /\ desk \in [Installs -> Desktops]
  /\ link \in [Installs -> BOOLEAN] /\ lost \in [Installs -> BOOLEAN]
  /\ cache \in {"none", "made", "private", "unsafe"} /\ final \in Files
  /\ temporary \in [Installs -> {"none", "good", "bad"}]
  /\ locks \in [Desktops -> Installs \cup {NoLock}]
  /\ gate \in [Installs -> BOOLEAN] /\ refs \in [Installs -> Nat]

Refers(i) == step[i].at \in Referring
Referrers(l) == {i \in Installs : Refers(i) /\ LockOf(i) = l}

(* While an install refers to a lock, this lock is the registered one.     *)
Registered ==
  \A i \in Installs : Refers(i) => LockOf(i) \in Installs /\ locks[desk[i]] = LockOf(i)

(* A registered lock was made in its process, by an install that has passed*)
(* the search, and somebody of the process refers to a lock.               *)
Owned ==
  \A d \in Desktops : locks[d] # NoLock =>
    /\ desk[locks[d]] = d /\ step[locks[d]].at \notin Early
    /\ \E i \in Installs : desk[i] = d /\ Refers(i)

Counted ==
  \A l \in Installs : IsFiniteSet(Referrers(l)) /\ refs[l] = Cardinality(Referrers(l))

(* The token of a lock is with one install or in its channel.              *)
Exclusive ==
  /\ \A i, j \in Installs : Publishing(i) /\ Publishing(j) /\ LockOf(i) = LockOf(j) => i = j
  /\ \A i \in Installs : Publishing(i) => ~gate[LockOf(i)]

LockInv == Registered /\ Owned /\ Counted /\ Exclusive

(* An upload was verified before it is published, and what was replaced is *)
(* not the user's.                                                         *)
Verified ==
  /\ \A i \in Installs : step[i].at \in {"lock", "gate", "inspect", "replace", "link"} =>
       temporary[i] = "good"
  /\ \A i \in Installs : On(i, "replace") => final \in {"good", "bad"}

(* An install that has ended has a result, and one without an error found  *)
(* or published the exact helper.                                          *)
Concluded ==
  \A i \in Installs :
    /\ step[i].at \in {"unlock", "leave"} \cup Late => step[i].result # "none"
    /\ step[i].result \in {"reused", "installed"} => final = "good"

(* An upload is removed unless the connection it needs is lost.            *)
Removed ==
  \A i \in Installs :
    /\ ~link[i] => lost[i] \/ On(i, "done")
    /\ step[i].at \in Early \ {"verify", "lock"} => temporary[i] = "none"
    /\ step[i].at \in {"close", "done"} => temporary[i] = "none" \/ lost[i]

IInv == TypeOK /\ LockInv /\ Verified /\ Concluded /\ Removed
-----------------------------------------------------------------------------
(* The type invariant                                                      *)

(* The initial state is well typed.                                        *)
LEMMA TypeInit == InstallInit => TypeOK
<1> SUFFICES ASSUME InstallInit PROVE TypeOK
  OBVIOUS
<1>1. step \in [Installs -> Locals]
  BY DEF InstallInit, Locals, Early, Results
<1> QED
  BY <1>1 DEF InstallInit, TypeOK, Files

(* An install goes to a known place with a known result.                   *)
LEMMA ToType ==
  ASSUME TypeOK, NEW i \in Installs, NEW l \in Early \cup Referring \cup Late
  PROVE  /\ To(i, l) => step' \in [Installs -> Locals]
         /\ \A r \in Results : Concludes(i, l, r) => step' \in [Installs -> Locals]
<1>1. step \in [Installs -> Locals] /\ step[i] \in Locals
  BY DEF TypeOK
<1>2. /\ [step[i] EXCEPT !.at = l] \in Locals
      /\ \A r \in Results : [step[i] EXCEPT !.at = l, !.result = r] \in Locals
  BY <1>1 DEF Locals
<1>3. To(i, l) => step' \in [Installs -> Locals]
  BY <1>1, <1>2 DEF To
<1>4. ASSUME NEW r \in Results, Concludes(i, l, r) PROVE step' \in [Installs -> Locals]
  BY <1>1, <1>2, <1>4 DEF Concludes
<1> QED
  BY <1>3, <1>4

(* Every step of the registry keeps the types.                             *)
LEMMA TypeLock ==
  ASSUME TypeOK, NoLockIsNoInstall, NEW i \in Installs,
         FindLock(i) \/ TakeLock(i) \/ ReturnLock(i) \/ (LeaveLock(i) /\ Counted /\ Registered)
  PROVE  TypeOK'
<1>1. CASE FindLock(i)
  <2>1. PICK k \in Installs :
          /\ locks' = [locks EXCEPT ![desk[i]] = k]
          /\ (gate' = gate \/ gate' = [gate EXCEPT ![i] = TRUE])
          /\ refs' = [refs EXCEPT ![k] = @ + 1]
          /\ step' = [step EXCEPT ![i].at = "gate", ![i].lock = k]
    <3> DEFINE found == locks[desk[i]]
    <3>1. found \in Installs \cup {NoLock}
      BY DEF TypeOK
    <3>2. CASE found = NoLock
      BY <1>1, <3>2 DEF FindLock
    <3>3. CASE found # NoLock
      BY <1>1, <3>1, <3>3 DEF FindLock
    <3> QED
      BY <3>2, <3>3
  <2>2. step' \in [Installs -> Locals]
    <3>1. step \in [Installs -> Locals]
      BY DEF TypeOK
    <3>2. "gate" \in Early \cup Referring \cup Late /\ k \in Installs \cup {NoLock}
      BY DEF Referring
    <3>3. step[i] \in Locals
      BY <3>1
    <3>4. [step[i] EXCEPT !.at = "gate", !.lock = k] \in Locals
      BY <3>2, <3>3 DEF Locals
    <3> QED
      BY <2>1, <3>1, <3>4
  <2>3. refs' \in [Installs -> Nat]
    <3>1. refs \in [Installs -> Nat] /\ refs[k] + 1 \in Nat
      BY DEF TypeOK
    <3> QED
      BY <2>1, <3>1
  <2>4. gate' \in [Installs -> BOOLEAN]
    BY <2>1 DEF TypeOK
  <2>5. locks' \in [Desktops -> Installs \cup {NoLock}]
    <3>1. locks \in [Desktops -> Installs \cup {NoLock}]
      BY DEF TypeOK
    <3> QED
      BY <2>1, <3>1
  <2> QED
    BY <1>1, <2>2, <2>3, <2>4, <2>5 DEF FindLock, TypeOK
<1>2. CASE TakeLock(i)
  <2>1. step' \in [Installs -> Locals]
    BY <1>2, ToType DEF TakeLock, Referring
  <2> QED
    BY <1>2, <2>1 DEF TakeLock, TypeOK
<1>3. CASE ReturnLock(i)
  <2>1. step' \in [Installs -> Locals]
    BY <1>3, ToType DEF ReturnLock, Referring
  <2> QED
    BY <1>3, <2>1 DEF ReturnLock, TypeOK
<1>4. CASE LeaveLock(i) /\ Counted /\ Registered
  <2>1. step' \in [Installs -> Locals]
    BY <1>4, ToType DEF LeaveLock, Late
  <2>2. LockOf(i) \in Installs /\ i \in Referrers(LockOf(i))
    BY <1>4 DEF LeaveLock, Registered, Referrers, Refers, Referring, On
  <2>3. refs[LockOf(i)] \in Nat /\ refs[LockOf(i)] # 0
    BY <1>4, <2>2, FS_EmptySet DEF Counted, TypeOK
  <2>4. refs' \in [Installs -> Nat]
    <3>1. refs \in [Installs -> Nat] /\ refs[LockOf(i)] - 1 \in Nat
      BY <2>3 DEF TypeOK
    <3> QED
      BY <1>4, <3>1 DEF LeaveLock
  <2>5. locks' \in [Desktops -> Installs \cup {NoLock}]
    <3>1. locks \in [Desktops -> Installs \cup {NoLock}]
      BY DEF TypeOK
    <3> QED
      BY <1>4, <3>1 DEF LeaveLock
  <2> QED
    BY <1>4, <2>1, <2>4, <2>5 DEF LeaveLock, TypeOK
<1> QED
  BY <1>1, <1>2, <1>3, <1>4

(* Every other step keeps the types.                                       *)
LEMMA TypeRest ==
  ASSUME TypeOK, NEW i \in Installs,
         \/ InstallHelper(i)
         \/ InspectDirectory(i)
         \/ Mkdir(i)
         \/ Chmod(i)
         \/ WaitForDirectory(i)
         \/ ValidateExisting(i)
         \/ CreateUpload(i)
         \/ VerifyUpload(i)
         \/ InspectFinal(i)
         \/ Replace(i)
         \/ Link(i)
         \/ ValidateInstalled(i)
         \/ RemoveUpload(i)
         \/ CloseSFTP(i)
         \/ Fail(i)
         \/ LoseLink(i)
  PROVE  TypeOK'
<1>1. CASE InstallHelper(i)
  <2>1. step' \in [Installs -> Locals]
    BY <1>1, ToType DEF InstallHelper, Early, Referring, Late, Results
  <2> QED
    BY <1>1, <2>1 DEF InstallHelper, TypeOK, Files
<1>2. CASE InspectDirectory(i)
  <2>1. step' \in [Installs -> Locals]
    BY <1>2, ToType DEF InspectDirectory, Early, Referring, Late, Results
  <2> QED
    BY <1>2, <2>1 DEF InspectDirectory, TypeOK, Files
<1>3. CASE Mkdir(i)
  <2>1. step' \in [Installs -> Locals]
    BY <1>3, ToType DEF Mkdir, Early, Referring, Late, Results
  <2> QED
    BY <1>3, <2>1 DEF Mkdir, TypeOK, Files
<1>4. CASE Chmod(i)
  <2>1. step' \in [Installs -> Locals]
    BY <1>4, ToType DEF Chmod, Early, Referring, Late, Results
  <2> QED
    BY <1>4, <2>1 DEF Chmod, TypeOK, Files
<1>5. CASE WaitForDirectory(i)
  <2>1. step' \in [Installs -> Locals]
    BY <1>5, ToType DEF WaitForDirectory, Early, Referring, Late, Results
  <2> QED
    BY <1>5, <2>1 DEF WaitForDirectory, TypeOK, Files
<1>6. CASE ValidateExisting(i)
  <2>1. step' \in [Installs -> Locals]
    BY <1>6, ToType DEF ValidateExisting, Early, Referring, Late, Results
  <2> QED
    BY <1>6, <2>1 DEF ValidateExisting, TypeOK, Files
<1>7. CASE CreateUpload(i)
  <2>1. step' \in [Installs -> Locals]
    BY <1>7, ToType DEF CreateUpload, Early, Referring, Late, Results
  <2> QED
    BY <1>7, <2>1 DEF CreateUpload, TypeOK, Files
<1>8. CASE VerifyUpload(i)
  <2>1. step' \in [Installs -> Locals]
    BY <1>8, ToType DEF VerifyUpload, Early, Referring, Late, Results
  <2> QED
    BY <1>8, <2>1 DEF VerifyUpload, TypeOK, Files
<1>9. CASE InspectFinal(i)
  <2>1. step' \in [Installs -> Locals]
    BY <1>9, ToType DEF InspectFinal, Early, Referring, Late, Results
  <2> QED
    BY <1>9, <2>1 DEF InspectFinal, TypeOK, Files
<1>10. CASE Replace(i)
  <2>1. step' \in [Installs -> Locals]
    BY <1>10, ToType DEF Replace, Early, Referring, Late, Results
  <2> QED
    BY <1>10, <2>1 DEF Replace, TypeOK, Files
<1>11. CASE Link(i)
  <2>1. step' \in [Installs -> Locals]
    BY <1>11, ToType DEF Link, Early, Referring, Late, Results
  <2> QED
    BY <1>11, <2>1 DEF Link, TypeOK, Files
<1>12. CASE ValidateInstalled(i)
  <2>1. step' \in [Installs -> Locals]
    BY <1>12, ToType DEF ValidateInstalled, Early, Referring, Late, Results
  <2> QED
    BY <1>12, <2>1 DEF ValidateInstalled, TypeOK, Files
<1>13. CASE RemoveUpload(i)
  <2>1. step' \in [Installs -> Locals]
    BY <1>13, ToType DEF RemoveUpload, Early, Referring, Late, Results
  <2> QED
    BY <1>13, <2>1 DEF RemoveUpload, TypeOK, Files
<1>14. CASE CloseSFTP(i)
  <2>1. step' \in [Installs -> Locals]
    BY <1>14, ToType DEF CloseSFTP, Early, Referring, Late, Results
  <2> QED
    BY <1>14, <2>1 DEF CloseSFTP, TypeOK, Files
<1>15. CASE Fail(i)
  <2>1. step' \in [Installs -> Locals]
    BY <1>15, ToType DEF Fail, Early, Referring, Late, Results
  <2> QED
    BY <1>15, <2>1 DEF Fail, TypeOK, Files
<1>16. CASE LoseLink(i)
  BY <1>16 DEF LoseLink, TypeOK
<1> QED
  BY <1>1, <1>2, <1>3, <1>4, <1>5, <1>6, <1>7, <1>8, <1>9, <1>10, <1>11, <1>12, <1>13,
     <1>14, <1>15, <1>16

-----------------------------------------------------------------------------
(* The locks                                                               *)

(* Nothing about the locks moves.                                          *)
Quiet ==
  /\ UNCHANGED <<desk, locks, gate, refs>>
  /\ \A j \in Installs :
       /\ LockOf(j)' = LockOf(j) /\ (Refers(j)' <=> Refers(j))
       /\ (Publishing(j)' <=> Publishing(j))
       /\ step[j].at \notin Early => step'[j].at \notin Early

(* Where an install is after it has moved, and that the others stay.       *)
LEMMA ToMoves ==
  ASSUME TypeOK, NEW i \in Installs, NEW l,
         To(i, l) \/ \E r \in Results : Concludes(i, l, r)
  PROVE  /\ step'[i].at = l /\ step'[i].lock = step[i].lock
         /\ \A j \in Installs \ {i} : step'[j] = step[j]
BY DEF TypeOK, Locals, To, Concludes

(* An install that moves within what refers to no lock, or within what     *)
(* holds one, leaves the locks alone.                                      *)
LEMMA QuietMove ==
  ASSUME TypeOK, NEW i \in Installs, NEW l \in Early \cup Referring \cup Late,
         To(i, l) \/ \E r \in Results : Concludes(i, l, r),
         \/ step[i].at \in Early /\ l \in Early \cup Late
         \/ step[i].at \in Late /\ l \in Late
         \/ step[i].at \in {"inspect", "replace", "link", "validate"}
              /\ l \in {"replace", "link", "validate", "unlock"}
         \/ step[i].at = "gate" /\ l = "leave",
         UNCHANGED <<desk, locks, gate, refs>>
  PROVE  Quiet
<1>1. /\ step'[i].at = l /\ step'[i].lock = step[i].lock
      /\ \A j \in Installs \ {i} : step'[j] = step[j]
  BY ToMoves
<1>2. ASSUME NEW j \in Installs
      PROVE  /\ LockOf(j)' = LockOf(j) /\ (Refers(j)' <=> Refers(j))
             /\ (Publishing(j)' <=> Publishing(j))
             /\ step[j].at \notin Early => step'[j].at \notin Early
  <2>1. CASE j # i
    BY <1>1, <2>1 DEF LockOf, Refers, Publishing
  <2>2. CASE j = i
    BY <1>1, <2>2 DEF LockOf, Refers, Publishing, Early, Referring, Late
  <2> QED
    BY <2>1, <2>2
<1> QED
  BY <1>2 DEF Quiet

(* What an install does outside the registry is quiet.                     *)
LEMMA QuietSteps ==
  ASSUME TypeOK, NEW i \in Installs,
         \/ InstallHelper(i)
         \/ InspectDirectory(i)
         \/ Mkdir(i)
         \/ Chmod(i)
         \/ WaitForDirectory(i)
         \/ ValidateExisting(i)
         \/ CreateUpload(i)
         \/ VerifyUpload(i)
         \/ InspectFinal(i)
         \/ Replace(i)
         \/ Link(i)
         \/ ValidateInstalled(i)
         \/ RemoveUpload(i)
         \/ CloseSFTP(i)
         \/ Fail(i)
         \/ LoseLink(i)
  PROVE  Quiet
<1>1. CASE InstallHelper(i)
  BY <1>1, QuietMove DEF InstallHelper, Asks, On, Early, Referring, Late, Results
<1>2. CASE InspectDirectory(i)
  BY <1>2, QuietMove DEF InspectDirectory, Asks, On, Early, Referring, Late, Results
<1>3. CASE Mkdir(i)
  BY <1>3, QuietMove DEF Mkdir, Asks, On, Early, Referring, Late, Results
<1>4. CASE Chmod(i)
  BY <1>4, QuietMove DEF Chmod, Asks, On, Early, Referring, Late, Results
<1>5. CASE WaitForDirectory(i)
  BY <1>5, QuietMove DEF WaitForDirectory, Asks, On, Early, Referring, Late, Results
<1>6. CASE ValidateExisting(i)
  BY <1>6, QuietMove DEF ValidateExisting, Asks, On, Early, Referring, Late, Results
<1>7. CASE CreateUpload(i)
  BY <1>7, QuietMove DEF CreateUpload, Asks, On, Early, Referring, Late, Results
<1>8. CASE VerifyUpload(i)
  BY <1>8, QuietMove DEF VerifyUpload, Asks, On, Early, Referring, Late, Results
<1>9. CASE InspectFinal(i)
  BY <1>9, QuietMove DEF InspectFinal, Asks, On, Early, Referring, Late, Results
<1>10. CASE Replace(i)
  BY <1>10, QuietMove DEF Replace, Asks, On, Early, Referring, Late, Results
<1>11. CASE Link(i)
  BY <1>11, QuietMove DEF Link, Asks, On, Early, Referring, Late, Results
<1>12. CASE ValidateInstalled(i)
  BY <1>12, QuietMove DEF ValidateInstalled, Asks, On, Early, Referring, Late, Results
<1>13. CASE RemoveUpload(i)
  BY <1>13, QuietMove DEF RemoveUpload, Asks, On, Early, Referring, Late, Results
<1>14. CASE CloseSFTP(i)
  BY <1>14, QuietMove DEF CloseSFTP, Asks, On, Early, Referring, Late, Results
<1>15. CASE Fail(i)
  BY <1>15, QuietMove DEF Fail, Asks, On, Early, Referring, Late, Results
<1>16. CASE LoseLink(i)
  BY <1>16 DEF LoseLink, Quiet, LockOf, Refers, Publishing
<1> QED
  BY <1>1, <1>2, <1>3, <1>4, <1>5, <1>6, <1>7, <1>8, <1>9, <1>10, <1>11, <1>12, <1>13,
     <1>14, <1>15, <1>16

(* What is quiet keeps the locks as they were.                             *)
LEMMA QuietKeepsLocks ==
  ASSUME TypeOK, LockInv, NoLockIsNoInstall, Quiet
  PROVE  LockInv'
<1>1. Registered'
  BY DEF LockInv, Registered, Quiet
<1>2. Owned'
  BY DEF LockInv, Owned, Quiet, TypeOK
<1>3. ASSUME NEW l \in Installs PROVE Referrers(l)' = Referrers(l)
  BY DEF Referrers, Quiet
<1>4. Counted'
  BY <1>3 DEF LockInv, Counted, Quiet
<1>5. Exclusive'
  BY DEF LockInv, Exclusive, Quiet
<1> QED
  BY <1>1, <1>2, <1>4, <1>5 DEF LockInv

(* An install that refers to no lock yet is not among the referrers, and   *)
(* nobody refers to the lock it may make.                                  *)
LEMMA UnmadeLock ==
  ASSUME TypeOK, LockInv, NoLockIsNoInstall, NEW i \in Installs, step[i].at \in Early
  PROVE  /\ \A d \in Desktops : locks[d] # i
         /\ \A j \in Installs : Refers(j) => LockOf(j) # i
         /\ Referrers(i) = {} /\ refs[i] = 0
<1>1. \A d \in Desktops : locks[d] # i
  BY DEF LockInv, Owned
<1>2. \A j \in Installs : Refers(j) => LockOf(j) # i
  BY <1>1 DEF LockInv, Registered, TypeOK
<1>3. Referrers(i) = {}
  BY <1>2 DEF Referrers
<1> QED
  BY <1>1, <1>2, <1>3, FS_EmptySet DEF LockInv, Counted

(* An install that finds the registered lock, or makes one, is the newest  *)
(* of its referrers.                                                       *)
LEMMA FoundLock ==
  ASSUME TypeOK, LockInv, NoLockIsNoInstall, NEW i \in Installs, FindLock(i)
  PROVE  LockInv'
<1> DEFINE found == locks[desk[i]]
           k == IF found = NoLock THEN i ELSE found
<1>1. /\ step[i].at = "lock" /\ k \in Installs /\ desk[i] \in Desktops
      /\ found \in Installs \cup {NoLock}
  BY DEF FindLock, On, TypeOK
<1>2. /\ step'[i].at = "gate" /\ step'[i].lock = k
      /\ \A j \in Installs \ {i} : step'[j] = step[j]
  <2>1. step' = [step EXCEPT ![i].at = "gate", ![i].lock = k]
    BY DEF FindLock
  <2>2. step \in [Installs -> Locals]
    BY DEF TypeOK
  <2> HIDE DEF k
  <2> QED
    BY <2>1, <2>2 DEF Locals
<1>3. locks'[desk[i]] = k /\ \A d \in Desktops \ {desk[i]} : locks'[d] = locks[d]
  <2>1. locks' = [locks EXCEPT ![desk[i]] = k]
    BY DEF FindLock
  <2> HIDE DEF k
  <2> QED
    BY <1>1, <2>1 DEF TypeOK
<1>4. refs'[k] = refs[k] + 1 /\ \A l \in Installs \ {k} : refs'[l] = refs[l]
  <2>1. refs' = [refs EXCEPT ![k] = @ + 1]
    BY DEF FindLock
  <2> HIDE DEF k
  <2> QED
    BY <1>1, <2>1 DEF TypeOK
<1>5. \A l \in Installs : l # i \/ found # NoLock => gate'[l] = gate[l]
  BY DEF FindLock, TypeOK
<1>6. desk' = desk
  BY DEF FindLock
<1>7. \A j \in Installs \ {i} :
         LockOf(j)' = LockOf(j) /\ (Refers(j)' <=> Refers(j)) /\ (Publishing(j)' <=> Publishing(j))
  BY <1>2 DEF LockOf, Refers, Publishing
<1>8. LockOf(i)' = k /\ Refers(i)' /\ ~Refers(i) /\ ~Publishing(i)'
  BY <1>1, <1>2 DEF LockOf, Refers, Publishing, Referring
<1>9. /\ \A d \in Desktops : locks[d] # i
      /\ \A j \in Installs : Refers(j) => LockOf(j) # i
  BY <1>1, UnmadeLock DEF Early
<1> HIDE DEF k
<1>10. Registered'
  <2>1. ASSUME NEW j \in Installs, Refers(j)'
        PROVE  LockOf(j)' \in Installs /\ locks'[desk'[j]] = LockOf(j)'
    <3>1. CASE j = i
      BY <1>1, <1>3, <1>6, <1>8, <3>1
    <3>2. CASE j # i
      <4>1. Refers(j) /\ LockOf(j)' = LockOf(j)
        BY <1>7, <2>1, <3>2
      <4>2. LockOf(j) \in Installs /\ locks[desk[j]] = LockOf(j) /\ desk[j] \in Desktops
        BY <4>1 DEF LockInv, Registered, TypeOK
      <4>3. CASE desk[j] = desk[i]
        BY <1>3, <1>6, <4>1, <4>2, <4>3, NoLockIsNoInstall DEF k
      <4>4. CASE desk[j] # desk[i]
        BY <1>3, <1>6, <4>1, <4>2, <4>4
      <4> QED
        BY <4>3, <4>4
    <3> QED
      BY <3>1, <3>2
  <2> QED
    BY <2>1 DEF Registered
<1>11. Owned'
  <2>1. ASSUME NEW d \in Desktops, locks'[d] # NoLock
        PROVE  /\ desk'[locks'[d]] = d /\ step'[locks'[d]].at \notin Early
               /\ \E j \in Installs : desk'[j] = d /\ Refers(j)'
    <3>1. CASE d = desk[i]
      <4>1. CASE found = NoLock
        BY <1>2, <1>3, <1>6, <1>8, <3>1, <4>1 DEF k, Early
      <4>2. CASE found # NoLock
        <5>1. desk[found] = d /\ step[found].at \notin Early /\ found # i
          BY <1>1, <1>9, <3>1, <4>2 DEF LockInv, Owned
        <5>2. step'[found] = step[found]
          BY <1>1, <1>2, <4>2, <5>1
        <5> QED
          BY <1>3, <1>6, <1>8, <3>1, <4>2, <5>1, <5>2 DEF k
      <4> QED
        BY <4>1, <4>2
    <3>2. CASE d # desk[i]
      <4>1. locks'[d] = locks[d] /\ locks[d] \in Installs /\ locks[d] # i
        BY <1>3, <1>9, <2>1, <3>2 DEF TypeOK
      <4>2. /\ desk[locks[d]] = d /\ step[locks[d]].at \notin Early
            /\ \E j \in Installs : desk[j] = d /\ Refers(j)
        BY <2>1, <4>1 DEF LockInv, Owned
      <4>3. step'[locks[d]] = step[locks[d]]
        BY <1>2, <4>1
      <4> QED
        BY <1>6, <1>7, <3>2, <4>1, <4>2, <4>3
    <3> QED
      BY <3>1, <3>2
  <2> QED
    BY <2>1 DEF Owned
<1>12. Counted'
  <2>0. PICK m \in Installs : m = k
    BY <1>1
  <2>1. Referrers(m)' = Referrers(m) \cup {i} /\ i \notin Referrers(m)
    <3>1. ASSUME NEW j \in Installs
          PROVE  Refers(j)' /\ LockOf(j)' = m <=> j = i \/ (Refers(j) /\ LockOf(j) = m)
      BY <1>7, <1>8, <2>0
    <3> QED
      BY <1>8, <3>1 DEF Referrers
  <2>2. ASSUME NEW l \in Installs \ {m} PROVE Referrers(l)' = Referrers(l)
    <3>1. ASSUME NEW j \in Installs
          PROVE  Refers(j)' /\ LockOf(j)' = l <=> Refers(j) /\ LockOf(j) = l
      BY <1>7, <1>8, <2>0
    <3> QED
      BY <3>1 DEF Referrers
  <2>3. IsFiniteSet(Referrers(m)) /\ refs[m] = Cardinality(Referrers(m))
    BY DEF LockInv, Counted
  <2>4. IsFiniteSet(Referrers(m)') /\ Cardinality(Referrers(m)') = refs[m] + 1
    BY <2>1, <2>3, FS_AddElement
  <2>5. ASSUME NEW l \in Installs
        PROVE  IsFiniteSet(Referrers(l)') /\ refs'[l] = Cardinality(Referrers(l)')
    <3>1. CASE l = m
      BY <1>4, <2>0, <2>4, <3>1
    <3>2. CASE l # m
      BY <1>4, <2>0, <2>2, <3>2 DEF LockInv, Counted
    <3> QED
      BY <3>1, <3>2
  <2> QED
    BY <2>5 DEF Counted
<1>13. Exclusive'
  <2>1. ASSUME NEW j \in Installs, Publishing(j)' PROVE j # i /\ Publishing(j) /\ Refers(j)
    BY <1>7, <1>8, <2>1 DEF Publishing, Refers, Referring
  <2>2. ASSUME NEW j \in Installs, Publishing(j)' PROVE ~gate'[LockOf(j)']
    <3>1. j # i /\ Publishing(j) /\ LockOf(j)' = LockOf(j)
      BY <1>7, <2>1, <2>2
    <3>2. LockOf(j) \in Installs /\ LockOf(j) # i /\ ~gate[LockOf(j)]
      BY <1>9, <2>1, <2>2 DEF LockInv, Registered, Exclusive
    <3> QED
      BY <1>5, <3>1, <3>2
  <2> QED
    BY <1>7, <2>1, <2>2 DEF Exclusive, LockInv
<1> QED
  BY <1>10, <1>11, <1>12, <1>13 DEF LockInv

(* The token goes to one of those that refer to the lock, and back.        *)
LEMMA HandedLock ==
  ASSUME TypeOK, LockInv, NoLockIsNoInstall, NEW i \in Installs,
         TakeLock(i) \/ ReturnLock(i)
  PROVE  LockInv'
<1>1. /\ desk' = desk /\ locks' = locks /\ refs' = refs
      /\ \A j \in Installs : j # i => step'[j] = step[j]
      /\ step'[i].lock = step[i].lock
      /\ step[i].at \in {"gate", "unlock"} /\ step'[i].at \in {"inspect", "leave"}
  BY ToMoves DEF TakeLock, ReturnLock, On
<1>2. \A j \in Installs : LockOf(j)' = LockOf(j) /\ (Refers(j)' <=> Refers(j))
  BY <1>1 DEF LockOf, Refers, Referring
<1>3. \A j \in Installs : step[j].at \notin Early => step'[j].at \notin Early
  BY <1>1 DEF Early
<1>4. Registered'
  BY <1>1, <1>2 DEF LockInv, Registered
<1>5. Owned'
  BY <1>1, <1>2, <1>3 DEF LockInv, Owned, TypeOK
<1>6. ASSUME NEW l \in Installs PROVE Referrers(l)' = Referrers(l)
  BY <1>2 DEF Referrers
<1>7. Counted'
  BY <1>1, <1>6 DEF LockInv, Counted
<1>8. LockOf(i) \in Installs /\ gate \in [Installs -> BOOLEAN]
  BY <1>1 DEF LockInv, Registered, Refers, Referring, TypeOK
<1>9. \A l \in Installs : l # LockOf(i) => gate'[l] = gate[l]
  BY <1>8 DEF TakeLock, ReturnLock
<1>10. \A j \in Installs : j # i => (Publishing(j)' <=> Publishing(j))
  BY <1>1 DEF Publishing
<1>11. \A j \in Installs : Publishing(j) => LockOf(j) \in Installs
  BY DEF LockInv, Registered, Publishing, Refers, Referring
<1>12. Exclusive'
  <2>1. CASE TakeLock(i)
    <3>1. gate[LockOf(i)] /\ ~gate'[LockOf(i)]
      BY <1>8, <2>1 DEF TakeLock
    <3>2. \A j \in Installs : Publishing(j) => LockOf(j) # LockOf(i)
      BY <3>1 DEF LockInv, Exclusive
    <3>3. \A j, m \in Installs : Publishing(j)' /\ Publishing(m)' /\ LockOf(j) = LockOf(m) => j = m
      BY <1>10, <3>2 DEF LockInv, Exclusive
    <3>4. ASSUME NEW j \in Installs, Publishing(j)' PROVE ~gate'[LockOf(j)]
      <4>1. CASE j = i
        BY <3>1, <4>1
      <4>2. CASE j # i
        BY <1>9, <1>10, <1>11, <3>2, <3>4, <4>2 DEF LockInv, Exclusive
      <4> QED
        BY <4>1, <4>2
    <3> QED
      BY <1>2, <3>3, <3>4 DEF Exclusive
  <2>2. CASE ReturnLock(i)
    <3>1. Publishing(i) /\ ~Publishing(i)'
      BY <1>1, <2>2, ToMoves DEF ReturnLock, Publishing, On
    <3>2. \A j \in Installs : Publishing(j)' => Publishing(j) /\ LockOf(j) # LockOf(i)
      BY <1>10, <3>1 DEF LockInv, Exclusive
    <3>3. ASSUME NEW j \in Installs, Publishing(j)' PROVE ~gate'[LockOf(j)]
      BY <1>9, <1>11, <3>2, <3>3 DEF LockInv, Exclusive
    <3> QED
      BY <1>2, <3>2, <3>3 DEF LockInv, Exclusive
  <2> QED
    BY <2>1, <2>2
<1> QED
  BY <1>4, <1>5, <1>7, <1>12 DEF LockInv

(* A lock is forgotten by the last that refers to it, in its process.      *)
LEMMA LeftLock ==
  ASSUME TypeOK, LockInv, NoLockIsNoInstall, NEW i \in Installs, LeaveLock(i)
  PROVE  LockInv'
<1>0. PICK m \in Installs : m = LockOf(i)
  BY DEF LockInv, Registered, LeaveLock, On, Refers, Referring
<1>1. /\ desk' = desk /\ gate' = gate
      /\ \A j \in Installs : j # i => step'[j] = step[j]
      /\ step[i].at = "leave" /\ step'[i].at = "discard"
  BY ToMoves DEF LeaveLock, On
<1>2. \A j \in Installs : j # i =>
        /\ LockOf(j)' = LockOf(j) /\ (Refers(j)' <=> Refers(j))
        /\ (Publishing(j)' <=> Publishing(j))
  BY <1>1 DEF LockOf, Refers, Publishing
<1>3. Refers(i) /\ ~Refers(i)' /\ ~Publishing(i)'
  BY <1>1 DEF Refers, Publishing, Referring
<1>4. \A j \in Installs : step[j].at \notin Early => step'[j].at \notin Early
  BY <1>1 DEF Early
<1>5. refs'[m] = refs[m] - 1 /\ \A l \in Installs : l # m => refs'[l] = refs[l]
  BY <1>0 DEF LeaveLock, TypeOK
<1>6. /\ i \in Referrers(m) /\ locks[desk[i]] = m /\ desk[m] = desk[i] /\ desk[i] \in Desktops
      /\ m # NoLock
  BY <1>0, <1>3 DEF Referrers, LockInv, Registered, Owned, TypeOK, NoLockIsNoInstall
<1>7. IsFiniteSet(Referrers(m)) /\ refs[m] = Cardinality(Referrers(m))
  BY DEF LockInv, Counted
<1>8. refs[m] = 1 <=> Referrers(m) = {i}
  BY <1>6, <1>7, FS_Singleton
<1>9. /\ \A d \in Desktops : d # desk[i] => locks'[d] = locks[d]
      /\ locks'[desk[i]] = IF refs[m] = 1 THEN NoLock ELSE m
  BY <1>0, <1>6 DEF LeaveLock, TypeOK
<1>10. Registered'
  <2>1. ASSUME NEW j \in Installs, Refers(j)'
        PROVE  LockOf(j)' \in Installs /\ locks'[desk'[j]] = LockOf(j)'
    <3>1. j # i /\ Refers(j) /\ LockOf(j)' = LockOf(j) /\ desk[j] \in Desktops
      BY <1>2, <1>3, <2>1 DEF TypeOK
    <3>2. LockOf(j) \in Installs /\ locks[desk[j]] = LockOf(j)
      BY <3>1 DEF LockInv, Registered
    <3>3. CASE desk[j] = desk[i]
      <4>1. j \in Referrers(m)
        BY <1>6, <3>1, <3>2, <3>3 DEF Referrers
      <4> QED
        BY <1>1, <1>6, <1>8, <1>9, <3>1, <3>2, <3>3, <4>1
    <3>4. CASE desk[j] # desk[i]
      BY <1>1, <1>9, <3>1, <3>2, <3>4
    <3> QED
      BY <3>3, <3>4
  <2> QED
    BY <2>1 DEF Registered
<1>11. Owned'
  <2>1. ASSUME NEW d \in Desktops, locks'[d] # NoLock
        PROVE  /\ desk'[locks'[d]] = d /\ step'[locks'[d]].at \notin Early
               /\ \E j \in Installs : desk'[j] = d /\ Refers(j)'
    <3>1. locks'[d] = locks[d] /\ locks[d] \in Installs
      BY <1>6, <1>9, <2>1 DEF TypeOK
    <3>2. /\ desk[locks[d]] = d /\ step[locks[d]].at \notin Early
          /\ \E j \in Installs : desk[j] = d /\ Refers(j)
      BY <2>1, <3>1 DEF LockInv, Owned
    <3>3. \E j \in Installs : desk[j] = d /\ Refers(j) /\ j # i
      <4>1. CASE d = desk[i]
        <5>1. PICK j \in Referrers(m) : j # i
          BY <1>6, <1>8, <1>9, <2>1, <4>1
        <5>2. j \in Installs /\ Refers(j) /\ LockOf(j) = m
          BY <5>1 DEF Referrers
        <5>3. locks[desk[j]] = m /\ desk[j] \in Desktops
          BY <5>2 DEF LockInv, Registered, TypeOK
        <5>4. desk[m] = desk[j]
          BY <1>6, <5>3 DEF LockInv, Owned
        <5> QED
          BY <1>6, <4>1, <5>1, <5>2, <5>4
      <4>2. CASE d # desk[i]
        BY <3>2, <4>2
      <4> QED
        BY <4>1, <4>2
    <3> QED
      BY <1>1, <1>2, <1>4, <3>1, <3>2, <3>3
  <2> QED
    BY <2>1 DEF Owned
<1>12. Counted'
  <2>1. Referrers(m)' = Referrers(m) \ {i}
    <3>1. ASSUME NEW j \in Installs
          PROVE  Refers(j)' /\ LockOf(j)' = m <=> j # i /\ Refers(j) /\ LockOf(j) = m
      BY <1>2, <1>3
    <3> QED
      BY <3>1 DEF Referrers
  <2>2. ASSUME NEW l \in Installs \ {m} PROVE Referrers(l)' = Referrers(l)
    <3>1. ASSUME NEW j \in Installs
          PROVE  Refers(j)' /\ LockOf(j)' = l <=> Refers(j) /\ LockOf(j) = l
      BY <1>0, <1>2, <1>3
    <3> QED
      BY <3>1 DEF Referrers
  <2>3. IsFiniteSet(Referrers(m)') /\ Cardinality(Referrers(m)') = refs[m] - 1
    BY <1>6, <1>7, <2>1, FS_RemoveElement
  <2>4. ASSUME NEW l \in Installs
        PROVE  IsFiniteSet(Referrers(l)') /\ refs'[l] = Cardinality(Referrers(l)')
    <3>1. CASE l = m
      BY <1>5, <2>3, <3>1
    <3>2. CASE l # m
      BY <1>5, <2>2, <3>2 DEF LockInv, Counted
    <3> QED
      BY <3>1, <3>2
  <2> QED
    BY <2>4 DEF Counted
<1>13. Exclusive'
  BY <1>1, <1>2, <1>3 DEF LockInv, Exclusive
<1> QED
  BY <1>10, <1>11, <1>12, <1>13 DEF LockInv
-----------------------------------------------------------------------------
(* The files                                                               *)

Moves(i) ==
  \/ InstallHelper(i) \/ InspectDirectory(i) \/ Mkdir(i) \/ Chmod(i) \/ WaitForDirectory(i)
  \/ ValidateExisting(i) \/ CreateUpload(i) \/ VerifyUpload(i)
  \/ FindLock(i) \/ TakeLock(i) \/ ReturnLock(i) \/ LeaveLock(i)
  \/ InspectFinal(i) \/ Replace(i) \/ Link(i) \/ ValidateInstalled(i)
  \/ RemoveUpload(i) \/ CloseSFTP(i) \/ Fail(i) \/ LoseLink(i)

(* Where an install is after it has moved, and with which result.          *)
LEMMA MovedTo ==
  ASSUME TypeOK, NEW i \in Installs
  PROVE  /\ \A l : To(i, l) => step'[i].at = l /\ step'[i].result = step[i].result
         /\ \A l, r : Concludes(i, l, r) => step'[i].at = l /\ step'[i].result = r
         /\ FindLock(i) => step'[i].at = "gate" /\ step'[i].result = step[i].result
<1>1. step \in [Installs -> Locals] /\ step[i] \in Locals
  BY DEF TypeOK
<1>2. ASSUME NEW l, To(i, l) PROVE step'[i].at = l /\ step'[i].result = step[i].result
  BY <1>1, <1>2 DEF To, Locals
<1>3. ASSUME NEW l, NEW r, Concludes(i, l, r) PROVE step'[i].at = l /\ step'[i].result = r
  BY <1>1, <1>3 DEF Concludes, Locals
<1>4. ASSUME FindLock(i) PROVE step'[i].at = "gate" /\ step'[i].result = step[i].result
  <2>1. PICK k : step' = [step EXCEPT ![i].at = "gate", ![i].lock = k]
    BY <1>4 DEF FindLock
  <2> QED
    BY <1>1, <2>1 DEF Locals
<1> QED
  BY <1>2, <1>3, <1>4

(* The files and the connection of an install are its own, and the file at *)
(* the final place changes to the exact helper only, and never from        *)
(* something of the user's.                                                *)
LEMMA FilesMove ==
  ASSUME TypeOK, Verified, NEW i \in Installs, Moves(i)
  PROVE  /\ \A j \in Installs \ {i} :
              /\ step'[j] = step[j] /\ temporary'[j] = temporary[j]
              /\ link'[j] = link[j] /\ lost'[j] = lost[j]
         /\ final' = final \/ (final # "foreign" /\ final' = "good")
<1>1. \A j \in Installs \ {i} : step'[j] = step[j]
  <2>1. (\E l : To(i, l) \/ \E r : Concludes(i, l, r)) \/ FindLock(i) \/ LoseLink(i)
    BY DEF Moves, InstallHelper, InspectDirectory, Mkdir, Chmod, WaitForDirectory,
           ValidateExisting, CreateUpload, VerifyUpload, TakeLock, ReturnLock, LeaveLock,
           InspectFinal, Replace, Link, ValidateInstalled, RemoveUpload, CloseSFTP, Fail
  <2>2. CASE \E l : To(i, l) \/ \E r : Concludes(i, l, r)
    BY <2>2 DEF To, Concludes, TypeOK
  <2>3. CASE FindLock(i)
    BY <2>3 DEF FindLock, TypeOK
  <2>4. CASE LoseLink(i)
    BY <2>4 DEF LoseLink
  <2> QED
    BY <2>1, <2>2, <2>3, <2>4
<1>2. \A j \in Installs \ {i} : temporary'[j] = temporary[j]
  BY DEF TypeOK, Moves, InstallHelper, InspectDirectory, Mkdir, Chmod, WaitForDirectory,
         ValidateExisting, CreateUpload, VerifyUpload, FindLock, TakeLock, ReturnLock, LeaveLock,
         InspectFinal, Replace, Link, ValidateInstalled, RemoveUpload, CloseSFTP, Fail, LoseLink
<1>3. \A j \in Installs \ {i} : link'[j] = link[j] /\ lost'[j] = lost[j]
  BY DEF TypeOK, Moves, InstallHelper, InspectDirectory, Mkdir, Chmod, WaitForDirectory,
         ValidateExisting, CreateUpload, VerifyUpload, FindLock, TakeLock, ReturnLock, LeaveLock,
         InspectFinal, Replace, Link, ValidateInstalled, RemoveUpload, CloseSFTP, Fail, LoseLink
<1>4. final' = final \/ (final # "foreign" /\ final' = "good")
  BY DEF Verified, Asks, On,
         Moves, InstallHelper, InspectDirectory, Mkdir, Chmod, WaitForDirectory,
         ValidateExisting, CreateUpload, VerifyUpload, FindLock, TakeLock, ReturnLock, LeaveLock,
         InspectFinal, Replace, Link, ValidateInstalled, RemoveUpload, CloseSFTP, Fail, LoseLink
<1> QED
  BY <1>1, <1>2, <1>3, <1>4

(* What Verified, Concluded and Removed say of one install.                *)
Kept(i) ==
  /\ step[i].at \in {"lock", "gate", "inspect", "replace", "link"} => temporary[i] = "good"
  /\ On(i, "replace") => final \in {"good", "bad"}
  /\ step[i].at \in {"unlock", "leave"} \cup Late => step[i].result # "none"
  /\ step[i].result \in {"reused", "installed"} => final = "good"
  /\ ~link[i] => lost[i] \/ On(i, "done")
  /\ step[i].at \in Early \ {"verify", "lock"} => temporary[i] = "none"
  /\ step[i].at \in {"close", "done"} => temporary[i] = "none" \/ lost[i]

(* What an install does keeps them for itself.                             *)
LEMMA MoverKeeps ==
  ASSUME TypeOK, NEW i \in Installs, Kept(i), Moves(i)
  PROVE  Kept(i)'
<1> DEFINE at == step[i].at
           result == step[i].result
<1>1. /\ at \in Early \cup Referring \cup Late /\ result \in Results
      /\ temporary \in [Installs -> {"none", "good", "bad"}]
      /\ link \in [Installs -> BOOLEAN] /\ lost \in [Installs -> BOOLEAN]
  BY DEF TypeOK, Locals
<1>2. /\ \A l : To(i, l) => step'[i].at = l /\ step'[i].result = step[i].result
      /\ \A l, r : Concludes(i, l, r) => step'[i].at = l /\ step'[i].result = r
      /\ FindLock(i) => step'[i].at = "gate" /\ step'[i].result = step[i].result
  BY MovedTo
<1>3. CASE InstallHelper(i)
  BY <1>1, <1>2, <1>3 DEF InstallHelper, Kept, Asks, On, Early, Referring, Late, Results
<1>4. CASE InspectDirectory(i)
  BY <1>1, <1>2, <1>4 DEF InspectDirectory, Kept, Asks, On, Early, Referring, Late, Results
<1>5. CASE Mkdir(i)
  BY <1>1, <1>2, <1>5 DEF Mkdir, Kept, Asks, On, Early, Referring, Late, Results
<1>6. CASE Chmod(i)
  BY <1>1, <1>2, <1>6 DEF Chmod, Kept, Asks, On, Early, Referring, Late, Results
<1>7. CASE WaitForDirectory(i)
  BY <1>1, <1>2, <1>7 DEF WaitForDirectory, Kept, Asks, On, Early, Referring, Late, Results
<1>8. CASE ValidateExisting(i)
  BY <1>1, <1>2, <1>8 DEF ValidateExisting, Kept, Asks, On, Early, Referring, Late, Results
<1>9. CASE CreateUpload(i)
  BY <1>1, <1>2, <1>9 DEF CreateUpload, Kept, Asks, On, Early, Referring, Late, Results
<1>10. CASE VerifyUpload(i)
  BY <1>1, <1>2, <1>10 DEF VerifyUpload, Kept, Asks, On, Early, Referring, Late, Results
<1>11. CASE FindLock(i)
  BY <1>1, <1>2, <1>11 DEF FindLock, Kept, Asks, On, Early, Referring, Late, Results
<1>12. CASE TakeLock(i)
  BY <1>1, <1>2, <1>12 DEF TakeLock, Kept, Asks, On, Early, Referring, Late, Results
<1>13. CASE ReturnLock(i)
  BY <1>1, <1>2, <1>13 DEF ReturnLock, Kept, Asks, On, Early, Referring, Late, Results
<1>14. CASE LeaveLock(i)
  BY <1>1, <1>2, <1>14 DEF LeaveLock, Kept, Asks, On, Early, Referring, Late, Results
<1>15. CASE InspectFinal(i)
  BY <1>1, <1>2, <1>15 DEF InspectFinal, Kept, Asks, On, Early, Referring, Late, Results
<1>16. CASE Replace(i)
  BY <1>1, <1>2, <1>16 DEF Replace, Kept, Asks, On, Early, Referring, Late, Results
<1>17. CASE Link(i)
  BY <1>1, <1>2, <1>17 DEF Link, Kept, Asks, On, Early, Referring, Late, Results
<1>18. CASE ValidateInstalled(i)
  BY <1>1, <1>2, <1>18 DEF ValidateInstalled, Kept, Asks, On, Early, Referring, Late, Results
<1>19. CASE RemoveUpload(i)
  BY <1>1, <1>2, <1>19 DEF RemoveUpload, Kept, Asks, On, Early, Referring, Late, Results
<1>20. CASE CloseSFTP(i)
  BY <1>1, <1>2, <1>20 DEF CloseSFTP, Kept, Asks, On, Early, Referring, Late, Results
<1>21. CASE Fail(i)
  BY <1>1, <1>2, <1>21 DEF Fail, Kept, Asks, On, Early, Referring, Late, Results
<1>22. CASE LoseLink(i)
  BY <1>1, <1>2, <1>22 DEF LoseLink, Kept, Asks, On, Early, Referring, Late, Results
<1> QED
  BY <1>3, <1>4, <1>5, <1>6, <1>7, <1>8, <1>9, <1>10, <1>11, <1>12, <1>13, <1>14,
     <1>15, <1>16, <1>17, <1>18, <1>19, <1>20, <1>21, <1>22 DEF Moves

(* Every step keeps the invariant.                                         *)
LEMMA MoveKeeps ==
  ASSUME IInv, NoLockIsNoInstall, NEW i \in Installs, Moves(i)
  PROVE  IInv'
<1>1. TypeOK /\ LockInv /\ Registered /\ Counted /\ Verified
  BY DEF IInv, LockInv
<1>2. TypeOK'
  BY <1>1, TypeLock, TypeRest DEF Moves
<1>3. LockInv'
  <2>1. CASE FindLock(i)
    BY <1>1, <2>1, FoundLock
  <2>2. CASE TakeLock(i) \/ ReturnLock(i)
    BY <1>1, <2>2, HandedLock
  <2>3. CASE LeaveLock(i)
    BY <1>1, <2>3, LeftLock
  <2>4. CASE ~(FindLock(i) \/ TakeLock(i) \/ ReturnLock(i) \/ LeaveLock(i))
    <3>1. Quiet
      BY <1>1, <2>4, QuietSteps DEF Moves
    <3> QED
      BY <1>1, <3>1, QuietKeepsLocks
  <2> QED
    BY <2>1, <2>2, <2>3, <2>4
<1>4. ASSUME NEW j \in Installs PROVE Kept(j)
  BY DEF IInv, Verified, Concluded, Removed, Kept
<1>5. ASSUME NEW j \in Installs PROVE Kept(j)'
  <2>1. CASE j = i
    BY <1>1, <1>4, <2>1, MoverKeeps
  <2>2. CASE j # i
    <3>1. /\ step'[j] = step[j] /\ temporary'[j] = temporary[j]
          /\ link'[j] = link[j] /\ lost'[j] = lost[j]
          /\ final' = final \/ (final # "foreign" /\ final' = "good")
      BY <1>1, <2>2, FilesMove
    <3> QED
      BY <1>4, <3>1 DEF Kept, On
  <2> QED
    BY <2>1, <2>2
<1>6. Verified' /\ Concluded' /\ Removed'
  BY <1>5 DEF Kept, Verified, Concluded, Removed
<1> QED
  BY <1>2, <1>3, <1>6 DEF IInv

(* The invariant holds initially.                                          *)
LEMMA InitInv ==
  ASSUME NoLockIsNoInstall, InstallInit
  PROVE  IInv
<1>1. TypeOK
  BY TypeInit
<1>2. \A i \in Installs : step[i].at = "idle" /\ step[i].result = "none" /\ link[i] /\ refs[i] = 0
                           /\ temporary[i] = "none"
  BY DEF InstallInit
<1>3. \A i \in Installs : ~Refers(i) /\ ~Publishing(i)
  BY <1>2 DEF Refers, Publishing, Referring
<1>4. \A l \in Installs : Referrers(l) = {}
  BY <1>3 DEF Referrers
<1>5. Counted
  BY <1>2, <1>4, FS_EmptySet DEF Counted
<1>6. Registered /\ Exclusive
  BY <1>3 DEF Registered, Exclusive
<1>7. Owned
  BY DEF Owned, InstallInit
<1>8. Verified /\ Concluded /\ Removed
  BY <1>2 DEF Verified, Concluded, Removed, On, Late
<1> QED
  BY <1>1, <1>5, <1>6, <1>7, <1>8 DEF IInv, LockInv

(* The invariant is inductive.                                             *)
LEMMA StepInv == IInv /\ [InstallNext]_installVars => IInv'
<1> SUFFICES ASSUME IInv, [InstallNext]_installVars PROVE IInv'
  OBVIOUS
<1>1. CASE InstallNext
  <2>1. PICK i \in Installs : Moves(i)
    BY <1>1 DEF InstallNext, Moves
  <2> QED
    BY <2>1, MoveKeeps, NoLockIsNoInstall
<1>2. CASE UNCHANGED installVars
  <2>1. TypeOK'
    BY <1>2 DEF IInv, TypeOK, installVars
  <2>2. UNCHANGED Registered /\ UNCHANGED Owned /\ UNCHANGED Exclusive
    BY <1>2 DEF Registered, Owned, Exclusive, Refers, Publishing, LockOf, installVars
  <2>3. Counted'
    <3>1. ASSUME NEW l \in Installs PROVE Referrers(l)' = Referrers(l)
      BY <1>2 DEF Referrers, Refers, LockOf, installVars
    <3> QED
      BY <1>2, <3>1 DEF IInv, LockInv, Counted, installVars
  <2>4. Verified' /\ Concluded' /\ Removed'
    BY <1>2 DEF IInv, Verified, Concluded, Removed, On, installVars
  <2> QED
    BY <2>1, <2>2, <2>3, <2>4 DEF IInv, LockInv
<1> QED
  BY <1>1, <1>2

(* The invariant holds in every state of every behaviour.                  *)
LEMMA InvHolds == InstallSpec => []IInv
<1>1. InstallInit => IInv
  BY InitInv, NoLockIsNoInstall
<1>2. IInv /\ [InstallNext]_installVars => IInv'
  BY StepInv
<1> QED
  BY <1>1, <1>2, PTL DEF InstallSpec

-----------------------------------------------------------------------------
(* Theorems                                                                *)

(* Type correctness of the installs, their locks and files.                *)
THEOREM InstallTypes == InstallSpec => []TypeOK
<1>1. IInv => TypeOK
  BY DEF IInv
<1> QED
  BY <1>1, InvHolds, PTL

(* The invariant gives each part of what InstallHelper promises.           *)
LEMMA InvIsSafe == IInv => InstallIsSafe
<1> SUFFICES ASSUME IInv PROVE InstallIsSafe
  OBVIOUS
<1>1. OneHolder
  <2>1. ASSUME NEW i \in Installs, Publishing(i) PROVE locks[desk[i]] = LockOf(i)
    BY <2>1 DEF IInv, LockInv, Registered, Refers, Referring, Publishing
  <2> QED
    BY <2>1 DEF IInv, LockInv, Exclusive, OneHolder
<1>2. ResultIsExact
  BY DEF IInv, TypeOK, Locals, Results, Concluded, ResultIsExact, On, Late
<1>3. NothingIsLeft
  <2>1. \A i \in Installs : On(i, "done") /\ ~lost[i] => temporary[i] = "none"
    BY DEF IInv, Removed, On
  <2>2. ASSUME \A i \in Installs : step[i].at \in {"idle", "done"}
        PROVE  \A d \in Desktops : locks[d] = NoLock
    <3>1. \A i \in Installs : ~Refers(i)
      BY <2>2 DEF Refers, Referring
    <3> QED
      BY <3>1 DEF IInv, LockInv, Owned
  <2> QED
    BY <2>1, <2>2 DEF NothingIsLeft
<1> QED
  BY <1>1, <1>2, <1>3 DEF InstallIsSafe

(* Two installs of one process never publish at the same time; an install  *)
(* that returned no error leaves the exact helper at its place; an upload  *)
(* stays behind only when its connection was lost, and no lock stays       *)
(* (InstallHelper, acquireHelperInstallLock, publishTemporaryHelper).      *)
THEOREM InstallSafety == InstallSpec => []InstallIsSafe
<1>1. IInv => InstallIsSafe
  BY InvIsSafe
<1> QED
  BY <1>1, InvHolds, PTL

(* The exact helper, and what is not a regular file of the user's, are     *)
(* never replaced (publishTemporaryHelper), whichever installs of whichever*)
(* processes meet.                                                         *)
THEOREM InstallImproves == InstallSpec => HelperOnlyImproves
<1>1. IInv /\ [InstallNext]_installVars
        => [(final \in {"good", "foreign"}) => (final' = final)]_installVars
  <2> SUFFICES ASSUME IInv, InstallNext, final \in {"good", "foreign"}
               PROVE  final' = final
    BY DEF installVars
  <2>1. PICK i \in Installs : Moves(i)
    BY DEF InstallNext, Moves
  <2>2. final' = final \/ (final # "foreign" /\ final' = "good")
    BY <2>1, FilesMove DEF IInv
  <2> QED
    BY <2>2
<1> QED
  BY <1>1, InvHolds, PTL DEF InstallSpec, HelperOnlyImproves

-----------------------------------------------------------------------------
(* The server                                                              *)

(* Where a request is in its goroutine, and where nothing of its process   *)
(* or its answer is left to do.                                            *)
Places == {"none", "begin", "preparing", "started", "reading", "chunk", "ended",
           "complete", "answer", "done"}
Running == {"started", "reading", "chunk", "ended"}
Over == {"complete", "answer", "done"}
AnswerKinds == {"none", "limited", "cancelled", "response", "error", "unknown"}
RequestStates ==
  [method : {"none"} \cup Methods, at : Places, cancelled : BOOLEAN, credit : Nat,
   controls : Nat, chunks : Nat, leader : BOOLEAN, group : BOOLEAN, slot : BOOLEAN,
   answer : AnswerKinds]
About == {"request", "cancel", "credit", "input"}
Frames ==
  [kind : About, id : Requests, method : {"none"} \cup Methods]
    \cup [kind : {"shutdown", "eof"}, id : {"none"}, method : {"none"}]
Clients ==
  [seen : [Requests -> {"unused", "sent", "accepted", "ended", "confused"}],
   cancelled : SUBSET Requests, cancels : Nat, fed : SUBSET Requests,
   gone : BOOLEAN, asked : BOOLEAN, shut : BOOLEAN]
Loops ==
  [at : {"reading", "draining", "closing", "waiting", "returned"},
   fault : {"none", "unknown", "forgotten", "credit", "overflow", "write"}]
Memories == [queue : Seq(Requests), forgotten : SUBSET Requests]

ServerTypes ==
  /\ input \in Seq(Frames) /\ client \in Clients /\ serve \in Loops
  /\ active \in SUBSET Requests /\ tombstones \in Memories
  /\ request \in [Requests -> RequestStates]
  /\ broken \in BOOLEAN

IsAbout(f, id) == f.kind \in About /\ f.id = id
IsRequest(f, id) == f.kind = "request" /\ f.id = id
Asked(id) == \E i \in DOMAIN input : IsRequest(input[i], id)

(* A request is asked for once, and before any other frame about it: an    *)
(* identity that was not drawn is in no frame, and one that is not         *)
(* registered was asked for first.                                         *)
InputOrder ==
  /\ serve.at # "reading" => input = <<>>
  /\ \A id \in Requests :
       /\ client.seen[id] = "unused" =>
            request[id].at = "none" /\ \A i \in DOMAIN input : ~IsAbout(input[i], id)
       /\ client.seen[id] # "unused" /\ serve.at = "reading" =>
            request[id].at # "none" \/ Asked(id)
       /\ Asked(id) => request[id].at = "none"
       /\ \A i, j \in DOMAIN input :
            IsRequest(input[i], id) /\ IsRequest(input[j], id) => i = j
       /\ request[id].at = "none" =>
            \A j \in DOMAIN input : IsAbout(input[j], id) =>
              \E i \in DOMAIN input : i <= j /\ IsRequest(input[i], id)
  /\ \A i \in DOMAIN input : input[i].kind = "request" => input[i].method \in Methods

(* The one credit of a request is with the client, on its way, or here.    *)
IsCredit(f, id) == f.kind = "credit" /\ f.id = id
CreditIsOne ==
  \A id \in Requests :
    /\ request[id].credit <= 1
    /\ \A i \in DOMAIN input : IsCredit(input[i], id) => request[id].credit = 0
    /\ \A i, j \in DOMAIN input : IsCredit(input[i], id) /\ IsCredit(input[j], id) => i = j

(* What was registered is in the table or remembered, while frames are read.*)
Table ==
  \A id \in Requests :
    /\ id \in active <=> request[id].at \notin {"none", "answer", "done"}
    /\ serve.at = "reading" /\ request[id].at # "none" =>
         id \in active \/ id \in Range(tombstones.queue) \/ id \in tombstones.forgotten

(* What each stage of a request leaves of its process.                     *)
StageOf(r) ==
  /\ r.leader => r.at \in Running
  /\ r.group => r.at \in Running \cup Over /\ r.method = "bash"
  /\ r.at \in Running => r.method \in {"bash", "terminal"}
  /\ r.at \in Over /\ r.answer = "cancelled" => ~r.group
  /\ r.slot => r.at \in {"preparing", "complete", "answer"}
  /\ r.at = "none" => r = Unused
Stages ==
  \A id \in Requests :
    /\ StageOf(request[id])
    /\ client.seen[id] # "confused"
    /\ client.seen[id] = "ended" => request[id].at = "done"

Processes == {id \in active : IsProcess(id)}
Limits ==
  /\ IsFiniteSet(active) /\ Cardinality(active) <= MaxRequests
  /\ Cardinality(Processes) <= MaxProcesses
  /\ \A a, b \in Requests : request[a].slot /\ request[b].slot => a = b

(* After its last answer, and after it returned, the helper is quiet.      *)
QuietAfter ==
  client.shut \/ serve.at = "returned" =>
    Goroutines = {} /\ serve.at \notin {"reading", "draining"}

ServerInv ==
  /\ ServerTypes /\ InputOrder /\ CreditIsOne /\ Table /\ Stages /\ Limits /\ QuietAfter
  /\ LawfulClientIsServed

-----------------------------------------------------------------------------
(* The sequences and the records                                           *)

(* Reading takes the head and moves every other frame up by one.           *)
LEMMA TailOf ==
  ASSUME NEW T, NEW s \in Seq(T), s # <<>>
  PROVE  /\ Head(s) = s[1] /\ s[1] \in T /\ 1 \in DOMAIN s
         /\ Tail(s) \in Seq(T)
         /\ \A i \in DOMAIN Tail(s) : i + 1 \in DOMAIN s /\ Tail(s)[i] = s[i + 1] /\ i \in Nat
         /\ \A i \in DOMAIN s : i # 1 =>
              i - 1 \in DOMAIN Tail(s) /\ s[i] = Tail(s)[i - 1] /\ i \in Nat /\ i > 1
<1>1. /\ DOMAIN s = 1 .. Len(s) /\ Len(s) \in Nat /\ Len(s) >= 1
      /\ Head(s) = s[1] /\ s[1] \in T
  OBVIOUS
<1>2. Tail(s) \in Seq(T) /\ Len(Tail(s)) = Len(s) - 1 /\ DOMAIN Tail(s) = 1 .. Len(s) - 1
  BY <1>1
<1>3. \A i \in 1 .. Len(s) - 1 : Tail(s)[i] = s[i + 1]
  BY <1>1
<1>4. ASSUME NEW i \in DOMAIN Tail(s)
      PROVE  i + 1 \in DOMAIN s /\ Tail(s)[i] = s[i + 1] /\ i \in Nat
  BY <1>1, <1>2, <1>3
<1>5. ASSUME NEW i \in DOMAIN s, i # 1
      PROVE  i - 1 \in DOMAIN Tail(s) /\ s[i] = Tail(s)[i - 1] /\ i \in Nat /\ i > 1
  <2>1. i \in Nat /\ i > 1 /\ i - 1 \in 1 .. Len(s) - 1 /\ (i - 1) + 1 = i
    BY <1>1, <1>5
  <2> QED
    BY <1>2, <1>3, <2>1
<1> QED
  BY <1>1, <1>2, <1>4, <1>5

(* Frames sent come after those under way, in their order.                 *)
LEMMA JoinOf ==
  ASSUME NEW T, NEW s \in Seq(T), NEW t \in Seq(T)
  PROVE  /\ s \o t \in Seq(T)
         /\ DOMAIN s \subseteq DOMAIN (s \o t) /\ DOMAIN s \subseteq Nat
         /\ \A i \in DOMAIN s : (s \o t)[i] = s[i]
         /\ \A k \in DOMAIN t : /\ Len(s) + k \in DOMAIN (s \o t) /\ (s \o t)[Len(s) + k] = t[k]
                                /\ \A i \in DOMAIN s : i < Len(s) + k
         /\ \A j \in DOMAIN (s \o t) : /\ j \in Nat
              /\ (j \in DOMAIN s \/ \E k \in DOMAIN t : j = Len(s) + k)
<1>1. /\ DOMAIN s = 1 .. Len(s) /\ DOMAIN t = 1 .. Len(t) /\ Len(s) \in Nat /\ Len(t) \in Nat
      /\ s \o t \in Seq(T) /\ Len(s \o t) = Len(s) + Len(t)
  OBVIOUS
<1>2. DOMAIN (s \o t) = 1 .. Len(s) + Len(t)
  BY <1>1
<1>3. \A i \in 1 .. Len(s) : (s \o t)[i] = s[i]
  BY <1>1
<1>4. ASSUME NEW k \in DOMAIN t
      PROVE  /\ Len(s) + k \in DOMAIN (s \o t) /\ (s \o t)[Len(s) + k] = t[k]
             /\ \A i \in DOMAIN s : i < Len(s) + k
  <2>1. k \in Nat /\ k >= 1 /\ k <= Len(t)
    BY <1>1
  <2>2. Len(s) + k \in DOMAIN (s \o t) /\ \A i \in DOMAIN s : i < Len(s) + k
    BY <1>1, <1>2, <2>1
  <2>3. (s \o t)[Len(s) + k] = t[k]
    BY <1>1, <2>1
  <2> QED
    BY <2>2, <2>3
<1>5. ASSUME NEW j \in DOMAIN (s \o t)
      PROVE  j \in Nat /\ (j \in DOMAIN s \/ \E k \in DOMAIN t : j = Len(s) + k)
  <2>1. j \in Nat /\ j >= 1 /\ j <= Len(s) + Len(t)
    BY <1>1, <1>2
  <2>2. CASE j <= Len(s)
    BY <1>1, <2>1, <2>2
  <2>3. CASE j > Len(s)
    <3>1. j - Len(s) \in DOMAIN t /\ j = Len(s) + (j - Len(s))
      BY <1>1, <2>1, <2>3
    <3> QED
      BY <2>1, <3>1
  <2> QED
    BY <1>1, <2>1, <2>2, <2>3
<1> QED
  BY <1>1, <1>2, <1>3, <1>4, <1>5

(* Nothing that is remembered is lost from a tombstone queue: it is in it, *)
(* or among the forgotten.                                                 *)
LEMMA Remembering ==
  ASSUME NEW q \in Seq(Requests)
  PROVE  /\ \A id \in Requests : /\ Append(q, id) \in Seq(Requests)
                                /\ Range(Append(q, id)) = Range(q) \cup {id}
         /\ q # <<>> => /\ Head(q) \in Requests /\ Tail(q) \in Seq(Requests)
                       /\ Range(q) = Range(Tail(q)) \cup {Head(q)}
<1>1. ASSUME NEW id \in Requests
      PROVE  Append(q, id) \in Seq(Requests) /\ Range(Append(q, id)) = Range(q) \cup {id}
  <2>1. /\ DOMAIN q = 1 .. Len(q) /\ Len(q) \in Nat
        /\ Append(q, id) \in Seq(Requests) /\ DOMAIN Append(q, id) = 1 .. Len(q) + 1
    OBVIOUS
  <2>2. (\A i \in 1 .. Len(q) : Append(q, id)[i] = q[i]) /\ Append(q, id)[Len(q) + 1] = id
    BY <2>1
  <2>3. \A i \in 1 .. Len(q) + 1 : i \in 1 .. Len(q) \/ i = Len(q) + 1
    BY <2>1
  <2>4. 1 .. Len(q) \subseteq 1 .. Len(q) + 1 /\ Len(q) + 1 \in 1 .. Len(q) + 1
    BY <2>1
  <2>5. ASSUME NEW x \in Range(Append(q, id)) PROVE x \in Range(q) \cup {id}
    <3>1. PICK i \in 1 .. Len(q) + 1 : x = Append(q, id)[i]
      BY <2>1 DEF Range
    <3> QED
      BY <2>1, <2>2, <2>3, <3>1 DEF Range
  <2>6. ASSUME NEW x \in Range(q) PROVE x \in Range(Append(q, id))
    <3>1. PICK i \in 1 .. Len(q) : x = q[i]
      BY <2>1 DEF Range
    <3> QED
      BY <2>1, <2>2, <2>4, <3>1 DEF Range
  <2>7. id \in Range(Append(q, id))
    BY <2>1, <2>2, <2>4 DEF Range
  <2> QED
    BY <2>1, <2>5, <2>6, <2>7
<1>2. ASSUME q # <<>>
      PROVE  /\ Head(q) \in Requests /\ Tail(q) \in Seq(Requests)
             /\ Range(q) = Range(Tail(q)) \cup {Head(q)}
  <2>1. /\ Head(q) = q[1] /\ q[1] \in Requests /\ 1 \in DOMAIN q /\ Tail(q) \in Seq(Requests)
        /\ \A i \in DOMAIN Tail(q) : i + 1 \in DOMAIN q /\ Tail(q)[i] = q[i + 1]
        /\ \A i \in DOMAIN q : i # 1 => i - 1 \in DOMAIN Tail(q) /\ q[i] = Tail(q)[i - 1]
    <3>0. q \in Seq(Requests)
      OBVIOUS
    <3>1. /\ Head(q) = q[1] /\ q[1] \in Requests /\ 1 \in DOMAIN q /\ Tail(q) \in Seq(Requests)
          /\ \A i \in DOMAIN Tail(q) : i + 1 \in DOMAIN q /\ Tail(q)[i] = q[i + 1] /\ i \in Nat
          /\ \A i \in DOMAIN q : i # 1 =>
               i - 1 \in DOMAIN Tail(q) /\ q[i] = Tail(q)[i - 1] /\ i \in Nat /\ i > 1
      BY <1>2, <3>0, TailOf, ZenonT(40)
    <3> QED
      BY <3>1
  <2>2. ASSUME NEW x \in Range(q) PROVE x \in Range(Tail(q)) \cup {Head(q)}
    <3>1. PICK i \in DOMAIN q : x = q[i]
      BY DEF Range
    <3>2. CASE i = 1
      BY <2>1, <3>1, <3>2
    <3>3. CASE i # 1
      BY <2>1, <3>1, <3>3 DEF Range
    <3> QED
      BY <3>2, <3>3
  <2>3. ASSUME NEW x \in Range(Tail(q)) PROVE x \in Range(q)
    BY <2>1 DEF Range
  <2>4. Head(q) \in Range(q)
    BY <2>1 DEF Range
  <2> QED
    BY <2>1, <2>2, <2>3, <2>4
<1> QED
  BY <1>1, <1>2

-----------------------------------------------------------------------------
(* What a step does to the frames under way                                *)

(* Nobody draws or registers an identity.                                  *)
SameAsk ==
  \A id \in Requests :
    /\ client'.seen[id] = "unused" <=> client.seen[id] = "unused"
    /\ request'[id].at = "none" <=> request[id].at = "none"

(* The order survives a step that leaves the frames alone, drops them all, *)
(* or reads one that is no request.                                        *)
LEMMA OrderKept ==
  ASSUME ServerTypes, InputOrder, SameAsk
  PROVE  /\ input' = input /\ (serve'.at = "reading" <=> serve.at = "reading") => InputOrder'
         /\ input' = <<>> /\ serve'.at # "reading" => InputOrder'
         /\ /\ input # <<>> /\ ~(\E id \in Requests : IsRequest(Head(input), id))
            /\ input' = Tail(input) /\ serve.at = "reading" /\ serve'.at = "reading"
            => InputOrder'
<1>1. ASSUME input' = input, serve'.at = "reading" <=> serve.at = "reading" PROVE InputOrder'
  BY <1>1 DEF InputOrder, SameAsk, Asked
<1>2. ASSUME input' = <<>>, serve'.at # "reading" PROVE InputOrder'
  <2>1. DOMAIN (input') = {}
    BY <1>2
  <2> QED
    BY <1>2, <2>1 DEF InputOrder, SameAsk, Asked
<1>3. ASSUME input # <<>>, ~(\E id \in Requests : IsRequest(Head(input), id)),
             input' = Tail(input), serve.at = "reading", serve'.at = "reading"
      PROVE  InputOrder'
  <2>0. input \in Seq(Frames)
    BY DEF ServerTypes
  <2>1. /\ Head(input) = input[1] /\ 1 \in DOMAIN input
        /\ \A i \in DOMAIN (input') : i + 1 \in DOMAIN input /\ (input')[i] = input[i + 1] /\ i \in Nat
        /\ \A i \in DOMAIN input : i # 1 =>
             i - 1 \in DOMAIN (input') /\ input[i] = (input')[i - 1] /\ i \in Nat /\ i > 1
    BY <1>3, <2>0, TailOf
  <2>2. ASSUME NEW id \in Requests PROVE Asked(id)' <=> Asked(id)
    <3>1. ASSUME NEW i \in DOMAIN input, IsRequest(input[i], id) PROVE Asked(id)'
      <4>1. i # 1
        BY <1>3, <2>1, <3>1
      <4> QED
        BY <2>1, <3>1, <4>1 DEF Asked
    <3>2. ASSUME NEW i \in DOMAIN (input'), IsRequest((input')[i], id) PROVE Asked(id)
      BY <2>1, <3>2 DEF Asked
    <3> QED
      BY <3>1, <3>2 DEF Asked
  <2>3. ASSUME NEW id \in Requests, client'.seen[id] = "unused"
        PROVE  request'[id].at = "none" /\ \A i \in DOMAIN (input') : ~IsAbout((input')[i], id)
    BY <2>1, <2>3 DEF InputOrder, SameAsk
  <2>4. ASSUME NEW id \in Requests, NEW i \in DOMAIN (input'), NEW j \in DOMAIN (input'),
               IsRequest((input')[i], id), IsRequest((input')[j], id)
        PROVE  i = j
    <3>1. i + 1 = j + 1 /\ i \in Nat /\ j \in Nat
      BY <2>1, <2>4 DEF InputOrder
    <3> QED
      BY <3>1
  <2>5. ASSUME NEW id \in Requests, request'[id].at = "none", NEW j \in DOMAIN (input'),
               IsAbout((input')[j], id)
        PROVE  \E i \in DOMAIN (input') : i <= j /\ IsRequest((input')[i], id)
    <3>1. j + 1 \in DOMAIN input /\ IsAbout(input[j + 1], id) /\ request[id].at = "none" /\ j \in Nat
      BY <2>1, <2>5 DEF SameAsk
    <3>2. PICK i \in DOMAIN input : i <= j + 1 /\ IsRequest(input[i], id)
      BY <3>1 DEF InputOrder
    <3>3. i # 1
      BY <1>3, <2>1, <3>2
    <3>4. i - 1 \in DOMAIN (input') /\ input[i] = (input')[i - 1] /\ i \in Nat /\ i > 1
      BY <2>1, <3>3
    <3>5. i - 1 <= j
      BY <3>1, <3>2, <3>4
    <3> QED
      BY <3>2, <3>4, <3>5
  <2>6. \A i \in DOMAIN (input') : (input')[i].kind = "request" => (input')[i].method \in Methods
    BY <2>1 DEF InputOrder
  <2> QED
    BY <1>3, <2>2, <2>3, <2>4, <2>5, <2>6 DEF InputOrder, SameAsk
<1> QED
  BY <1>1, <1>2, <1>3

(* It survives frames that are no requests, about identities drawn before. *)
LEMMA OrderGrows ==
  ASSUME ServerTypes, InputOrder, SameAsk, serve.at = "reading", serve'.at = "reading",
         NEW frames \in Seq(Frames), input' = input \o frames,
         \A k \in DOMAIN frames : frames[k].kind # "request",
         \A k \in DOMAIN frames : \A id \in Requests :
           IsAbout(frames[k], id) => client.seen[id] # "unused"
  PROVE  InputOrder'
<1>0. input \in Seq(Frames)
  BY DEF ServerTypes
<1>1. /\ DOMAIN input \subseteq DOMAIN (input') /\ DOMAIN input \subseteq Nat
      /\ \A i \in DOMAIN input : (input')[i] = input[i]
      /\ \A j \in DOMAIN (input') : j \in Nat /\
           (j \in DOMAIN input \/ \E k \in DOMAIN frames :
              j = Len(input) + k /\ (input')[j] = frames[k] /\ \A i \in DOMAIN input : i < j)
  <2>1. /\ DOMAIN input \subseteq DOMAIN (input') /\ DOMAIN input \subseteq Nat
        /\ \A i \in DOMAIN input : (input')[i] = input[i]
    BY <1>0, JoinOf
  <2>2. \A k \in DOMAIN frames : /\ (input')[Len(input) + k] = frames[k]
                                /\ \A i \in DOMAIN input : i < Len(input) + k
    BY <1>0, JoinOf
  <2>3. \A j \in DOMAIN (input') :
          j \in Nat /\ (j \in DOMAIN input \/ \E k \in DOMAIN frames : j = Len(input) + k)
    BY <1>0, JoinOf
  <2> QED
    BY <2>1, <2>2, <2>3
<1>2. \A j \in DOMAIN (input') : \A id \in Requests :
        IsRequest((input')[j], id) => j \in DOMAIN input /\ IsRequest(input[j], id)
  BY <1>1 DEF IsRequest
<1>3. \A id \in Requests : Asked(id)' <=> Asked(id)
  BY <1>1, <1>2 DEF Asked
<1>4. ASSUME NEW id \in Requests, client'.seen[id] = "unused"
      PROVE  request'[id].at = "none" /\ \A i \in DOMAIN (input') : ~IsAbout((input')[i], id)
  <2>1. client.seen[id] = "unused"
    BY <1>4 DEF SameAsk
  <2> QED
    BY <1>1, <2>1 DEF InputOrder, SameAsk
<1>5. ASSUME NEW id \in Requests, request'[id].at = "none", NEW j \in DOMAIN (input'),
             IsAbout((input')[j], id)
      PROVE  \E i \in DOMAIN (input') : i <= j /\ IsRequest((input')[i], id)
  <2>0. request[id].at = "none" /\ j \in Nat
    BY <1>1, <1>5 DEF SameAsk
  <2>1. CASE j \in DOMAIN input
    BY <1>1, <1>5, <2>0, <2>1 DEF InputOrder
  <2>2. CASE j \notin DOMAIN input
    <3>1. PICK k \in DOMAIN frames : (input')[j] = frames[k] /\ \A i \in DOMAIN input : i < j
      BY <1>1, <2>2
    <3>2. client.seen[id] # "unused"
      BY <1>5, <3>1
    <3>3. PICK i \in DOMAIN input : IsRequest(input[i], id)
      BY <2>0, <3>2 DEF InputOrder, Asked
    <3>4. i \in Nat /\ i < j /\ i \in DOMAIN (input') /\ (input')[i] = input[i]
      BY <1>1, <3>1
    <3>5. i <= j
      BY <2>0, <3>4
    <3> QED
      BY <3>3, <3>4, <3>5
  <2> QED
    BY <2>1, <2>2
<1>6. \A id \in Requests : \A i, j \in DOMAIN (input') :
        IsRequest((input')[i], id) /\ IsRequest((input')[j], id) => i = j
  BY <1>2 DEF InputOrder
<1>7. \A i \in DOMAIN (input') : (input')[i].kind = "request" => (input')[i].method \in Methods
  BY <1>1 DEF InputOrder
<1>8. ASSUME NEW id \in Requests, client'.seen[id] # "unused"
      PROVE  request'[id].at # "none" \/ Asked(id)'
  BY <1>3, <1>8 DEF InputOrder, SameAsk
<1>9. \A id \in Requests : Asked(id)' => request'[id].at = "none"
  BY <1>3 DEF InputOrder, SameAsk
<1> QED
  BY <1>4, <1>5, <1>6, <1>7, <1>8, <1>9 DEF InputOrder

(* Credit stays one where no credit is made: a step that gives no request  *)
(* more, and leaves the frames, drops them, reads one or sends others.     *)
LEMMA CreditKept ==
  ASSUME ServerTypes, CreditIsOne,
         \A id \in Requests : request'[id].credit \in Nat /\ request'[id].credit <= request[id].credit
  PROVE  /\ input' = input => CreditIsOne'
         /\ input' = <<>> => CreditIsOne'
         /\ input # <<>> /\ input' = Tail(input) => CreditIsOne'
         /\ \A frames \in Seq(Frames) :
              /\ input' = input \o frames
              /\ \A k \in DOMAIN frames : frames[k].kind # "credit"
              => CreditIsOne'
<1>0. /\ input \in Seq(Frames) /\ \A id \in Requests : request[id].credit \in Nat
      /\ \A id \in Requests : request[id].credit = 0 => request'[id].credit = 0
      /\ \A id \in Requests : request'[id].credit <= 1
  <2>1. input \in Seq(Frames) /\ \A id \in Requests : request[id].credit \in Nat
    BY DEF ServerTypes, RequestStates
  <2> QED
    BY <2>1 DEF CreditIsOne
<1>1. ASSUME input' = input PROVE CreditIsOne'
  BY <1>0, <1>1 DEF CreditIsOne
<1>2. ASSUME input' = <<>> PROVE CreditIsOne'
  <2>1. DOMAIN (input') = {}
    BY <1>2
  <2> QED
    BY <1>0, <2>1 DEF CreditIsOne
<1>3. ASSUME input # <<>>, input' = Tail(input) PROVE CreditIsOne'
  <2>1. \A i \in DOMAIN (input') : i + 1 \in DOMAIN input /\ (input')[i] = input[i + 1] /\ i \in Nat
    BY <1>0, <1>3, TailOf
  <2>2. ASSUME NEW id \in Requests, NEW i \in DOMAIN (input'), NEW j \in DOMAIN (input'),
               IsCredit((input')[i], id), IsCredit((input')[j], id)
        PROVE  i = j
    <3>1. i + 1 = j + 1 /\ i \in Nat /\ j \in Nat
      BY <2>1, <2>2 DEF CreditIsOne
    <3> QED
      BY <3>1
  <2>3. \A id \in Requests : \A i \in DOMAIN (input') :
          IsCredit((input')[i], id) => request'[id].credit = 0
    BY <1>0, <2>1 DEF CreditIsOne
  <2> QED
    BY <1>0, <2>2, <2>3 DEF CreditIsOne
<1>4. ASSUME NEW frames \in Seq(Frames), input' = input \o frames,
             \A k \in DOMAIN frames : frames[k].kind # "credit"
      PROVE  CreditIsOne'
  <2>1. \A j \in DOMAIN (input') : \A id \in Requests :
          IsCredit((input')[j], id) => j \in DOMAIN input /\ IsCredit(input[j], id)
    <3>1. /\ \A i \in DOMAIN input : (input')[i] = input[i]
          /\ \A j \in DOMAIN (input') :
               j \in DOMAIN input \/ \E k \in DOMAIN frames : (input')[j] = frames[k]
      BY <1>0, <1>4, JoinOf
    <3> QED
      BY <1>4, <3>1 DEF IsCredit
  <2> QED
    BY <1>0, <2>1 DEF CreditIsOne
<1> QED
  BY <1>1, <1>2, <1>3, <1>4

-----------------------------------------------------------------------------
(* The goroutine of a request                                              *)

(* What the end of a request changes of it.                                *)
LEMMA AnswersRecord ==
  ASSUME NEW r \in RequestStates, NEW a \in AnswerKinds
  PROVE  /\ Answers(r, a) \in RequestStates /\ Answers(r, a).at = "complete"
         /\ Answers(r, a).answer = a /\ Answers(r, a).credit = 0
         /\ Answers(r, a).method = r.method /\ Answers(r, a).leader = r.leader
         /\ Answers(r, a).group = r.group /\ Answers(r, a).slot = r.slot
  BY DEF Answers, Places, RequestStates

(* What ending, killing and spending change of a request.                  *)
LEMMA Records ==
  ASSUME NEW r \in RequestStates
  PROVE  /\ \A a \in AnswerKinds :
              /\ Answers(r, a) \in RequestStates /\ Answers(r, a).at = "complete"
              /\ Answers(r, a).answer = a /\ Answers(r, a).credit = 0
              /\ Answers(r, a).method = r.method /\ Answers(r, a).leader = r.leader
              /\ Answers(r, a).group = r.group /\ Answers(r, a).slot = r.slot
         /\ /\ Killed(r) \in RequestStates /\ Killed(r).leader = FALSE /\ Killed(r).group = FALSE
            /\ Killed(r).method = r.method /\ Killed(r).slot = r.slot
         /\ r.credit > 0 =>
              /\ Spent(r) \in RequestStates /\ Spent(r).credit = r.credit - 1
              /\ Spent(r).method = r.method /\ Spent(r).at = r.at /\ Spent(r).slot = r.slot
              /\ Spent(r).leader = r.leader /\ Spent(r).group = r.group
              /\ Spent(r).answer = r.answer /\ Spent(r).cancelled = r.cancelled
         /\ \A l \in Places :
              LET x == [r EXCEPT !.at = l]
              IN /\ x \in RequestStates /\ x.at = l /\ x.credit = r.credit
                 /\ x.method = r.method /\ x.slot = r.slot /\ x.leader = r.leader
                 /\ x.group = r.group /\ x.answer = r.answer /\ x.cancelled = r.cancelled
<1> USE DEF RequestStates
<1>1. ASSUME NEW a \in AnswerKinds
      PROVE  /\ Answers(r, a) \in RequestStates /\ Answers(r, a).at = "complete"
             /\ Answers(r, a).answer = a /\ Answers(r, a).credit = 0
             /\ Answers(r, a).method = r.method /\ Answers(r, a).leader = r.leader
             /\ Answers(r, a).group = r.group /\ Answers(r, a).slot = r.slot
  BY AnswersRecord
<1>2. /\ Killed(r) \in RequestStates /\ Killed(r).leader = FALSE /\ Killed(r).group = FALSE
      /\ Killed(r).method = r.method /\ Killed(r).slot = r.slot
  BY DEF Killed
<1>3. ASSUME r.credit > 0
      PROVE  /\ Spent(r) \in RequestStates /\ Spent(r).credit = r.credit - 1
             /\ Spent(r).method = r.method /\ Spent(r).at = r.at /\ Spent(r).slot = r.slot
             /\ Spent(r).leader = r.leader /\ Spent(r).group = r.group
             /\ Spent(r).answer = r.answer /\ Spent(r).cancelled = r.cancelled
  <2>1. r.credit \in Nat /\ r.credit - 1 \in Nat
    BY <1>3
  <2> QED
    BY <2>1 DEF Spent
<1>4. \A l \in Places :
        LET x == [r EXCEPT !.at = l]
        IN /\ x \in RequestStates /\ x.at = l /\ x.credit = r.credit
           /\ x.method = r.method /\ x.slot = r.slot /\ x.leader = r.leader
           /\ x.group = r.group /\ x.answer = r.answer /\ x.cancelled = r.cancelled
  OBVIOUS
<1> QED
  BY <1>1, <1>2, <1>3, <1>4

(* A request in the table goes on, and stays there.                        *)
Out == {"none", "answer", "done"}
Within(id, r) ==
  /\ request' = [request EXCEPT ![id] = r] /\ r \in RequestStates /\ StageOf(r)
  /\ r.method = request[id].method /\ r.at \notin Out /\ request[id].at \notin Out
  /\ r.credit <= request[id].credit
  /\ r.slot => request[id].slot \/ SlotFree
  /\ UNCHANGED <<serve, active, tombstones, broken>>

(* A step of a request in the table that answers it within it.             *)
LEMMA AnswersWithin ==
  ASSUME ServerTypes, Stages, NEW id \in Requests, NEW q \in RequestStates,
         q.method = request[id].method, q.slot => request[id].slot, ~q.leader,
         NEW a \in AnswerKinds, request[id].at \notin Out,
         q.group => q.method = "bash" /\ a # "cancelled",
         Becomes(id, Answers(q, a))
  PROVE  Within(id, Answers(q, a))
<1>1. request[id] \in RequestStates /\ request[id].credit \in Nat
  BY DEF ServerTypes, RequestStates
<1>2. /\ Answers(q, a) \in RequestStates /\ Answers(q, a).at = "complete"
      /\ Answers(q, a).answer = a /\ Answers(q, a).credit = 0
      /\ Answers(q, a).method = q.method /\ Answers(q, a).leader = q.leader
      /\ Answers(q, a).group = q.group /\ Answers(q, a).slot = q.slot
  BY AnswersRecord
<1>3. StageOf(Answers(q, a))
  BY <1>2 DEF StageOf, Running, Over
<1> QED
  BY <1>1, <1>2, <1>3 DEF Within, Becomes, Out

(* A command whose output has ended is what it was, in its next place.     *)
LEMMA EndedRecord ==
  ASSUME NEW x \in RequestStates
  PROVE  \E q \in RequestStates :
           /\ q = [x EXCEPT !.at = "ended"]
           /\ q.method = x.method /\ q.at = "ended"
           /\ q.credit = x.credit /\ q.slot = x.slot /\ q.group = x.group
<1> DEFINE q == [x EXCEPT !.at = "ended"]
<1>1. /\ q \in RequestStates /\ q.method = x.method /\ q.at = "ended"
      /\ q.credit = x.credit /\ q.slot = x.slot /\ q.group = x.group
  BY DEF RequestStates, Places
<1> QED
  BY <1>1

(* The handling of a request begins, or ends where it is.                  *)
LEMMA HandleWithin ==
  ASSUME ServerTypes, Stages, NEW id \in Requests, handleRequest(id)
  PROVE  \E r \in RequestStates : Within(id, r)
<1> DEFINE r == request[id]
<1>1. /\ r \in RequestStates /\ StageOf(r) /\ r.at = "begin" /\ r.at \notin Out
      /\ ~r.leader /\ ~r.group /\ ~r.slot
  <2>1. r \in RequestStates /\ StageOf(r) /\ r.at = "begin"
    BY DEF ServerTypes, Stages, handleRequest
  <2> QED
    BY <2>1 DEF StageOf, Running, Over, Out
<1>2. CASE \E a \in AnswerKinds : Becomes(id, Answers(r, a))
  BY <1>1, <1>2, AnswersWithin, Records
<1>3. CASE /\ r.method = "call" /\ SlotFree
           /\ Becomes(id, [r EXCEPT !.at = "preparing", !.slot = TRUE])
  <2> DEFINE q == [r EXCEPT !.at = "preparing", !.slot = TRUE]
  <2>1. /\ q \in RequestStates /\ q.at = "preparing" /\ ~q.leader /\ ~q.group
        /\ q.method = r.method /\ q.credit = r.credit /\ r.credit \in Nat
    BY <1>1 DEF RequestStates, Places
  <2>2. StageOf(q)
    BY <2>1 DEF StageOf, Running, Over
  <2>3. Within(id, q)
    BY <1>1, <1>3, <2>1, <2>2 DEF Within, Becomes, Out
  <2> QED
    BY <2>1, <2>3
<1>4. CASE /\ IsProcess(id)
           /\ Becomes(id, [r EXCEPT !.at = "started", !.leader = TRUE,
                                    !.group = r.method = "bash"])
  <2> DEFINE q == [r EXCEPT !.at = "started", !.leader = TRUE, !.group = r.method = "bash"]
  <2>1. /\ q \in RequestStates /\ q.at = "started" /\ q.group = (q.method = "bash")
        /\ q.method = r.method /\ q.credit = r.credit /\ r.credit \in Nat /\ q.slot = r.slot
    BY <1>1 DEF RequestStates, Places
  <2>2. StageOf(q)
    BY <1>1, <1>4, <2>1 DEF StageOf, Running, Over, IsProcess
  <2>3. Within(id, q)
    BY <1>1, <1>4, <2>1, <2>2 DEF Within, Becomes, Out
  <2> QED
    BY <2>1, <2>3
<1> QED
  BY <1>2, <1>3, <1>4 DEF handleRequest, AnswerKinds

(* The blob of an answer is ready, or its slot is given back.              *)
LEMMA PreparedWithin ==
  ASSUME ServerTypes, Stages, NEW id \in Requests, Prepared(id)
  PROVE  \E r \in RequestStates : Within(id, r)
<1> DEFINE r == request[id]
           q == [r EXCEPT !.slot = FALSE]
<1>1. /\ r \in RequestStates /\ StageOf(r) /\ r.at = "preparing" /\ r.at \notin Out
      /\ ~r.leader /\ ~r.group
  <2>1. r \in RequestStates /\ StageOf(r) /\ r.at = "preparing"
    BY DEF ServerTypes, Stages, Prepared
  <2> QED
    BY <2>1 DEF StageOf, Running, Over, Out
<1>2. /\ q \in RequestStates /\ q.method = r.method /\ ~q.slot /\ ~q.leader /\ ~q.group
  BY <1>1 DEF RequestStates
<1>3. CASE Becomes(id, Answers(r, "response"))
  BY <1>1, <1>3, AnswersWithin, Records DEF AnswerKinds
<1>4. CASE \E a \in {"cancelled", "error"} : Becomes(id, Answers(q, a))
  <2>1. PICK a \in AnswerKinds : Becomes(id, Answers(q, a))
    BY <1>4 DEF AnswerKinds
  <2>2. Within(id, Answers(q, a))
    BY <1>1, <1>2, <2>1, AnswersWithin
  <2> QED
    BY <1>2, <2>2, Records
<1> QED
  BY <1>3, <1>4 DEF Prepared

(* The steps of a running process keep it in the table, and what they say  *)
(* of it true: it may be cancelled, end, print, be read and be waited for. *)
LEMMA ProcessWithin ==
  ASSUME ServerTypes, Stages, Table, CreditIsOne, NEW id \in Requests,
         \/ TimesOut(id) \/ ProcessEnds(id) \/ TakesControl(id) \/ ProcessPrints(id)
         \/ OutputEnds(id)
  PROVE  \E r \in RequestStates : Within(id, r)
<1> DEFINE r == request[id]
<1>0. r \in RequestStates /\ StageOf(r) /\ r.credit \in Nat /\ r.controls \in Nat /\ r.chunks \in Nat
  BY DEF ServerTypes, Stages, RequestStates
<1>1. CASE TimesOut(id)
  <2> DEFINE q == [r EXCEPT !.cancelled = TRUE]
  <2>1. r.at \notin Out /\ request' = [request EXCEPT ![id] = q]
    BY <1>0, <1>1 DEF TimesOut, Table, Out, ServerTypes
  <2>2. q \in RequestStates /\ StageOf(q) /\ q.method = r.method /\ q.at = r.at
        /\ q.credit = r.credit /\ q.slot = r.slot
    BY <1>0, <2>1 DEF RequestStates, StageOf, Out
  <2>3. Within(id, q)
    BY <1>0, <1>1, <2>1, <2>2 DEF TimesOut, Within
  <2> QED
    BY <2>2, <2>3
<1>2. CASE ProcessEnds(id)
  <2>1. r.at \in Running /\ r.at \notin Out /\ r.at \notin Over
    BY <1>2 DEF ProcessEnds, Running, Out, Over
  <2>2. PICK q \in {[r EXCEPT !.leader = FALSE], [r EXCEPT !.group = FALSE]} : Becomes(id, q)
    BY <1>2 DEF ProcessEnds
  <2>3. q \in RequestStates /\ StageOf(q) /\ q.method = r.method /\ q.at = r.at
        /\ q.credit = r.credit /\ q.slot = r.slot
    <3>1. CASE q = [r EXCEPT !.leader = FALSE]
      BY <1>0, <2>1, <3>1 DEF RequestStates, StageOf, Out
    <3>2. CASE q = [r EXCEPT !.group = FALSE]
      BY <1>0, <2>1, <3>2 DEF RequestStates, StageOf, Out
    <3> QED
      BY <2>2, <3>1, <3>2
  <2>4. Within(id, q)
    BY <1>0, <2>1, <2>2, <2>3 DEF Becomes, Within
  <2> QED
    BY <2>3, <2>4
<1>3. CASE TakesControl(id)
  <2> DEFINE q == [r EXCEPT !.controls = @ - 1]
  <2>1. r.at \notin Out /\ Becomes(id, q) /\ r.controls - 1 \in Nat
    BY <1>0, <1>3 DEF TakesControl, Out
  <2>2. q \in RequestStates /\ StageOf(q) /\ q.method = r.method /\ q.at = r.at
        /\ q.credit = r.credit /\ q.slot = r.slot
    BY <1>0, <2>1 DEF RequestStates, StageOf, Out
  <2>3. Within(id, q)
    BY <1>0, <2>1, <2>2 DEF Becomes, Within
  <2> QED
    BY <2>2, <2>3
<1>4. CASE ProcessPrints(id)
  <2>1. r.at = "reading" /\ r.at \notin Out /\ ~r.slot
    BY <1>0, <1>4 DEF ProcessPrints, Out, StageOf
  <2>2. CASE Becomes(id, Answers(Killed(r), "error"))
    <3>1. /\ Killed(r) \in RequestStates /\ Killed(r).leader = FALSE /\ Killed(r).group = FALSE
          /\ Killed(r).method = r.method /\ Killed(r).slot = r.slot
      BY <1>0, Records
    <3>2. Within(id, Answers(Killed(r), "error"))
      BY <1>0, <2>1, <2>2, <3>1, AnswersWithin DEF AnswerKinds
    <3> QED
      BY <3>1, <3>2, Records DEF AnswerKinds
  <2>3. CASE Becomes(id, [r EXCEPT !.at = "chunk", !.chunks = @ + 1])
    <3> DEFINE q == [r EXCEPT !.at = "chunk", !.chunks = @ + 1]
    <3>0. r.chunks + 1 \in Nat
      BY <1>0
    <3>a. q \in RequestStates /\ q.method = r.method /\ q.at = "chunk"
          /\ q.credit = r.credit /\ q.slot = r.slot /\ q.leader = r.leader /\ q.group = r.group
      BY <1>0, <3>0 DEF RequestStates, Places
    <3>b. StageOf(q)
      BY <1>0, <2>1, <3>a DEF StageOf, Running, Over
    <3>1. q \in RequestStates /\ q.method = r.method /\ q.at = "chunk"
          /\ q.credit = r.credit /\ q.slot = r.slot /\ StageOf(q)
      BY <3>a, <3>b
    <3>2. Within(id, q)
      BY <1>0, <2>1, <2>3, <3>1 DEF Becomes, Within, Out
    <3> QED
      BY <3>1, <3>2
  <2> QED
    BY <1>4, <2>2, <2>3 DEF ProcessPrints
<1>5. CASE OutputEnds(id)
  <2> DEFINE killed == Killed(r)
  <2>1. r.at = "reading" /\ r.at \notin Out
    BY <1>5 DEF OutputEnds, Out
  <2>2. /\ killed \in RequestStates /\ killed.leader = FALSE /\ killed.group = FALSE
        /\ killed.method = r.method /\ killed.slot = r.slot /\ killed.at = r.at
        /\ killed.credit = r.credit
    BY <1>0, Records DEF Killed, RequestStates
  <2> HIDE DEF killed
  <2>3. CASE Becomes(id, Answers(killed, "error"))
    <3>1. Within(id, Answers(killed, "error"))
      BY <1>0, <2>1, <2>2, <2>3, AnswersWithin DEF AnswerKinds
    <3> QED
      BY <2>2, <3>1, Records DEF AnswerKinds
  <2>4. ASSUME NEW x \in {r, killed}, Becomes(id, [x EXCEPT !.at = "ended"])
        PROVE  \E q \in RequestStates : Within(id, q)
    <3>1. /\ x \in RequestStates /\ x.method = r.method /\ x.credit = r.credit
          /\ x.slot = r.slot /\ (x.group => r.group)
      BY <1>0, <2>2, <2>4
    <3>2. PICK q \in RequestStates :
            /\ q = [x EXCEPT !.at = "ended"]
            /\ q.method = x.method /\ q.at = "ended"
            /\ q.credit = x.credit /\ q.slot = x.slot /\ q.group = x.group
      BY <3>1, EndedRecord
    <3>3. StageOf(q)
      <4>1. /\ ~r.slot /\ r.method \in {"bash", "terminal"}
            /\ r.group => r.method = "bash"
        BY <1>0, <2>1 DEF StageOf, Running
      <4>2. /\ q.at = "ended" /\ ~q.slot /\ q.method \in {"bash", "terminal"}
            /\ q.group => q.method = "bash"
        BY <3>1, <3>2, <4>1
      <4> QED
        BY <4>2 DEF StageOf, Running, Over
    <3>4. Within(id, q)
      BY <1>0, <2>1, <2>4, <3>1, <3>2, <3>3 DEF Becomes, Within, Out
    <3> QED
      BY <3>2, <3>4
  <2>5. \/ Becomes(id, Answers(killed, "error"))
        \/ \E x \in {r, killed} : Becomes(id, [x EXCEPT !.at = "ended"])
    BY <1>5 DEF OutputEnds, killed
  <2> QED
    BY <2>3, <2>4, <2>5
<1> QED
  BY <1>1, <1>2, <1>3, <1>4, <1>5

(* A process that was waited for leaves the answer of its request.         *)
LEMMA WaitedWithin ==
  ASSUME ServerTypes, Stages, NEW id \in Requests, ProcessWaited(id)
  PROVE  \E r \in RequestStates : Within(id, r)
<1> DEFINE r == request[id]
<1>1. /\ r \in RequestStates /\ StageOf(r) /\ r.at = "ended" /\ r.at \notin Out
      /\ ~r.leader /\ ~r.slot
      /\ r.group => r.method = "bash"
  <2>1. r \in RequestStates /\ StageOf(r) /\ r.at = "ended" /\ ~r.leader
    BY DEF ServerTypes, Stages, ProcessWaited
  <2> QED
    BY <2>1 DEF StageOf, Out
<1>2. /\ Killed(r) \in RequestStates /\ Killed(r).leader = FALSE /\ Killed(r).group = FALSE
      /\ Killed(r).method = r.method /\ Killed(r).slot = r.slot
  BY <1>1, Records
<1>3. CASE r.cancelled /\ Becomes(id, Answers(GroupWaited(r), "cancelled"))
  <2>1. /\ GroupWaited(r) \in RequestStates /\ GroupWaited(r).method = r.method
        /\ GroupWaited(r).slot = r.slot /\ ~GroupWaited(r).leader /\ ~GroupWaited(r).group
    BY <1>1, <1>2 DEF GroupWaited
  <2>2. Within(id, Answers(GroupWaited(r), "cancelled"))
    BY <1>1, <1>3, <2>1, AnswersWithin DEF AnswerKinds
  <2> QED
    BY <2>1, <2>2, Records DEF AnswerKinds
<1>4. CASE ~r.cancelled /\ \E a \in {"response", "error", "unknown"} : Becomes(id, Answers(r, a))
  <2>1. PICK a \in AnswerKinds : a # "cancelled" /\ Becomes(id, Answers(r, a))
    BY <1>4 DEF AnswerKinds
  <2>2. Within(id, Answers(r, a))
    BY <1>1, <2>1, AnswersWithin
  <2> QED
    BY <1>1, <2>2, Records
<1> QED
  BY <1>3, <1>4 DEF ProcessWaited

(* An announcement, or a chunk that is written or held back for credit: the*)
(* process goes on or is killed.                                           *)
LEMMA WritingWithin ==
  ASSUME ServerTypes, Stages, NEW id \in Requests, Announces(id) \/ takeCredit(id)
  PROVE  \E r \in RequestStates :
           /\ Within(id, r)
           /\ \/ UNCHANGED <<input, client>>
              \/ Announces(id) /\ Writes(id, "accepted")
              \/ /\ takeCredit(id) /\ Writes(id, "data")
                 /\ request[id].credit > 0 /\ r.credit = request[id].credit - 1
<1> DEFINE r == request[id]
<1>1. /\ r \in RequestStates /\ StageOf(r) /\ r.at \in {"started", "chunk"} /\ r.at \notin Out
      /\ ~r.slot /\ r.credit \in Nat
  <2>1. r \in RequestStates /\ StageOf(r) /\ r.at \in {"started", "chunk"} /\ r.credit \in Nat
    BY DEF ServerTypes, Stages, Announces, takeCredit, RequestStates
  <2> QED
    BY <2>1 DEF StageOf, Out
<1>2. /\ Killed(r) \in RequestStates /\ Killed(r).leader = FALSE /\ Killed(r).group = FALSE
      /\ Killed(r).method = r.method /\ Killed(r).slot = r.slot
  BY <1>1, Records
<1>3. CASE UNCHANGED <<input, client>>
           /\ \E a \in {"unknown", "cancelled"} : Becomes(id, Answers(Killed(r), a))
  <2>1. PICK a \in AnswerKinds : Becomes(id, Answers(Killed(r), a))
    BY <1>3 DEF AnswerKinds
  <2>2. Within(id, Answers(Killed(r), a))
    BY <1>1, <1>2, <2>1, AnswersWithin
  <2> QED
    BY <1>2, <1>3, <2>2, Records
<1>4. CASE Announces(id) /\ Writes(id, "accepted") /\ Becomes(id, [r EXCEPT !.at = "reading"])
  <2> DEFINE q == [r EXCEPT !.at = "reading"]
  <2>1. q \in RequestStates /\ q.method = r.method /\ q.at = "reading"
        /\ q.credit = r.credit /\ q.slot = r.slot /\ StageOf(q)
    BY <1>1 DEF RequestStates, Places, StageOf, Running, Over
  <2>2. Within(id, q)
    BY <1>1, <1>4, <2>1 DEF Becomes, Within, Out
  <2> QED
    BY <1>4, <2>1, <2>2
<1>5. CASE /\ takeCredit(id) /\ r.credit > 0 /\ Writes(id, "data")
           /\ Becomes(id, [Spent(r) EXCEPT !.at = "reading"])
  <2> DEFINE q == [Spent(r) EXCEPT !.at = "reading"]
  <2>1. /\ Spent(r) \in RequestStates /\ Spent(r).credit = r.credit - 1
        /\ Spent(r).method = r.method /\ Spent(r).at = r.at /\ Spent(r).slot = r.slot
        /\ Spent(r).leader = r.leader /\ Spent(r).group = r.group
        /\ Spent(r).answer = r.answer /\ Spent(r).cancelled = r.cancelled
    BY <1>1, <1>5, Records
  <2>2. q \in RequestStates /\ q.method = r.method /\ q.at = "reading"
        /\ q.credit = r.credit - 1 /\ q.slot = r.slot /\ q.leader = r.leader /\ q.group = r.group
    BY <2>1 DEF RequestStates, Places
  <2>3. StageOf(q) /\ q.credit <= r.credit
    BY <1>1, <2>2 DEF StageOf, Running, Over
  <2>4. Within(id, q)
    BY <1>1, <1>5, <2>2, <2>3 DEF Becomes, Within, Out
  <2> QED
    BY <1>5, <2>2, <2>4
<1>6. CASE Announces(id)
  BY <1>3, <1>4, <1>6 DEF Announces, WriteFails
<1>7. CASE takeCredit(id)
  BY <1>3, <1>5, <1>7 DEF takeCredit, WriteFails, Silent
<1> QED
  BY <1>6, <1>7

(* What a frame to the client changes: what it saw of this request, and    *)
(* perhaps the credit it returns.  Nothing comes after an answer.          *)
LEMMA WritesEffect ==
  ASSUME ServerTypes, Stages, NEW id \in Requests, NEW kind \in {"accepted", "data", "ended"},
         Writes(id, kind), request[id].at # "done"
  PROVE  /\ client' \in Clients /\ client'.shut = client.shut
         /\ \A x \in Requests : client'.seen[x] =
              IF x = id /\ kind # "data" THEN kind ELSE client.seen[x]
         /\ \/ input' = input
            \/ /\ kind = "data" /\ serve.at = "reading"
               /\ <<Frame("credit", id)>> \in Seq(Frames)
               /\ input' = input \o <<Frame("credit", id)>>
<1>1. client \in Clients /\ client.seen[id] # "ended" /\ input \in Seq(Frames)
  BY DEF ServerTypes, Stages
<1>2. client' = [client EXCEPT !.seen[id] = IF kind = "data" THEN @ ELSE kind]
  BY <1>1 DEF Writes
<1>3. /\ client' \in Clients /\ client'.shut = client.shut
      /\ \A x \in Requests : client'.seen[x] =
           IF x = id /\ kind # "data" THEN kind ELSE client.seen[x]
  BY <1>1, <1>2 DEF Clients
<1>4. Frame("credit", id) \in Frames /\ <<Frame("credit", id)>> \in Seq(Frames)
  BY DEF Frame, Frames, About, Methods
<1>5. Append(input, Frame("credit", id)) = input \o <<Frame("credit", id)>>
  BY <1>1, <1>4
<1> QED
  BY <1>3, <1>4, <1>5 DEF Writes

(* The table, the stages, the limits and the quiet after a step in it.     *)
LEMMA TableOfWithin ==
  ASSUME ServerInv, NEW id \in Requests, NEW r \in RequestStates, Within(id, r),
         client' \in Clients, client'.shut = client.shut,
         \A x \in Requests : /\ client'.seen[x] = "unused" <=> client.seen[x] = "unused"
                             /\ client'.seen[x] # "confused"
                             /\ client'.seen[x] = "ended" => client.seen[x] = "ended"
  PROVE  /\ Table' /\ Stages' /\ Limits' /\ QuietAfter' /\ LawfulClientIsServed' /\ SameAsk
         /\ request' \in [Requests -> RequestStates]
         /\ \A x \in Requests : request'[x].credit \in Nat /\ request'[x].credit <= request[x].credit
<1>1. /\ request \in [Requests -> RequestStates] /\ request' = [request EXCEPT ![id] = r]
      /\ request'[id] = r /\ \A x \in Requests : x # id => request'[x] = request[x]
      /\ request' \in [Requests -> RequestStates]
  BY DEF ServerInv, ServerTypes, Within
<1>2. /\ UNCHANGED <<serve, active, tombstones>> /\ StageOf(r) /\ r.method = request[id].method
      /\ r.at \notin Out /\ request[id].at \notin Out /\ r.credit <= request[id].credit
      /\ r.slot => request[id].slot \/ SlotFree
  BY DEF Within
<1>3. Table'
  BY <1>1, <1>2 DEF ServerInv, Table, Out
<1>4. Stages'
  <2>1. client.seen[id] # "ended"
    BY <1>2 DEF ServerInv, Stages, Out
  <2> QED
    BY <1>1, <1>2, <2>1 DEF ServerInv, Stages
<1>5. Limits'
  <2>1. \A x \in Requests : request'[x].method = request[x].method
    BY <1>1, <1>2
  <2>2. Processes' = Processes
    BY <1>2, <2>1 DEF ServerInv, ServerTypes, Processes, IsProcess
  <2>3. ASSUME NEW a \in Requests, NEW b \in Requests, request'[a].slot, request'[b].slot
        PROVE  a = b
    BY <1>1, <1>2, <2>3 DEF ServerInv, Limits, SlotFree
  <2> QED
    BY <1>2, <2>2, <2>3 DEF ServerInv, Limits
<1>6. Goroutines' = Goroutines /\ QuietAfter'
  <2>1. Goroutines' = Goroutines
    BY <1>1, <1>2 DEF Goroutines, Out
  <2> QED
    BY <1>2, <2>1 DEF ServerInv, QuietAfter
<1>7. SameAsk
  BY <1>1, <1>2 DEF SameAsk, Out
<1>8. \A x \in Requests : request'[x].credit \in Nat /\ request'[x].credit <= request[x].credit
  <2>1. \A x \in Requests : request[x].credit \in Nat /\ request'[x].credit \in Nat
    BY <1>1 DEF RequestStates
  <2> QED
    BY <1>1, <1>2, <2>1
<1>9. LawfulClientIsServed'
  BY <1>2 DEF ServerInv, LawfulClientIsServed
<1> QED
  BY <1>1, <1>3, <1>4, <1>5, <1>6, <1>7, <1>8, <1>9

WithinStep(id) ==
  \/ TimesOut(id) \/ handleRequest(id) \/ Prepared(id) \/ Announces(id) \/ ProcessEnds(id)
  \/ TakesControl(id) \/ ProcessPrints(id) \/ takeCredit(id) \/ OutputEnds(id)
  \/ ProcessWaited(id)

(* A step of a request in the table keeps the invariant.                   *)
LEMMA WithinKeeps ==
  ASSUME ServerInv, NEW id \in Requests, WithinStep(id)
  PROVE  ServerInv'
<1>0. /\ ServerTypes /\ InputOrder /\ CreditIsOne /\ Table /\ Stages
      /\ input \in Seq(Frames) /\ client \in Clients
      /\ \A x \in Requests : client.seen[x] # "confused"
  BY DEF ServerInv, ServerTypes, Stages
<1>1. ASSUME ~(Announces(id) \/ takeCredit(id)) PROVE ServerInv'
  <2>1. \E r \in RequestStates : Within(id, r)
    <3>1. CASE handleRequest(id)
      BY <1>0, <3>1, HandleWithin
    <3>2. CASE Prepared(id)
      BY <1>0, <3>2, PreparedWithin
    <3>3. CASE \/ TimesOut(id) \/ ProcessEnds(id) \/ TakesControl(id) \/ ProcessPrints(id)
               \/ OutputEnds(id)
      BY <1>0, <3>3, ProcessWithin
    <3>4. CASE ProcessWaited(id)
      BY <1>0, <3>4, WaitedWithin
    <3> QED
      BY <1>1, <3>1, <3>2, <3>3, <3>4 DEF WithinStep
  <2>2. PICK r \in RequestStates : Within(id, r)
    BY <2>1
  <2>3. input' = input /\ client' \in Clients /\ client'.seen = client.seen
        /\ client'.shut = client.shut
    <3>1. CASE TimesOut(id)
      <4>1. input' = input /\ client' = [client EXCEPT !.cancels = client.cancels + 1]
        BY <3>1 DEF TimesOut
      <4>2. client.cancels + 1 \in Nat
        BY <1>0 DEF Clients
      <4> QED
        BY <1>0, <4>1, <4>2 DEF Clients
    <3>2. CASE ~TimesOut(id)
      BY <1>0, <1>1, <3>2 DEF WithinStep, handleRequest, Prepared, ProcessEnds, TakesControl,
        ProcessPrints, OutputEnds, ProcessWaited, Silent
    <3> QED
      BY <3>1, <3>2
  <2>4. /\ Table' /\ Stages' /\ Limits' /\ QuietAfter' /\ LawfulClientIsServed' /\ SameAsk
        /\ request' \in [Requests -> RequestStates]
        /\ \A x \in Requests : request'[x].credit \in Nat /\ request'[x].credit <= request[x].credit
    BY <1>0, <2>2, <2>3, TableOfWithin
  <2>5. InputOrder'
    BY <1>0, <2>2, <2>3, <2>4, OrderKept DEF Within
  <2>6. CreditIsOne'
    BY <1>0, <2>3, <2>4, CreditKept
  <2>7. ServerTypes'
    BY <1>0, <2>2, <2>3, <2>4 DEF ServerTypes, Within
  <2> QED
    BY <2>4, <2>5, <2>6, <2>7 DEF ServerInv
<1>2. ASSUME Announces(id) \/ takeCredit(id) PROVE ServerInv'
  <2>1. PICK r \in RequestStates :
          /\ Within(id, r)
          /\ \/ UNCHANGED <<input, client>>
             \/ Announces(id) /\ Writes(id, "accepted")
             \/ /\ takeCredit(id) /\ Writes(id, "data")
                /\ request[id].credit > 0 /\ r.credit = request[id].credit - 1
    BY <1>0, <1>2, WritingWithin
  <2>2. request[id].at \notin Out /\ request[id].at # "done" /\ request[id].at # "none"
    BY <2>1 DEF Within, Out
  <2>3. client.seen[id] # "unused"
    BY <1>0, <2>2 DEF InputOrder
  <2>4. /\ client' \in Clients /\ client'.shut = client.shut
        /\ \A x \in Requests : client'.seen[x] = client.seen[x] \/ (x = id /\ client'.seen[x] = "accepted")
        /\ \/ input' = input
           \/ /\ serve.at = "reading" /\ <<Frame("credit", id)>> \in Seq(Frames)
              /\ input' = input \o <<Frame("credit", id)>>
              /\ request[id].credit > 0 /\ r.credit = request[id].credit - 1
    <3>1. CASE UNCHANGED <<input, client>>
      BY <1>0, <3>1
    <3>2. CASE Announces(id) /\ Writes(id, "accepted")
      BY <1>0, <2>2, <3>2, WritesEffect
    <3>3. CASE /\ takeCredit(id) /\ Writes(id, "data")
               /\ request[id].credit > 0 /\ r.credit = request[id].credit - 1
      BY <1>0, <2>2, <3>3, WritesEffect
    <3> QED
      BY <2>1, <3>1, <3>2, <3>3
  <2>5. /\ Table' /\ Stages' /\ Limits' /\ QuietAfter' /\ LawfulClientIsServed' /\ SameAsk
        /\ request' \in [Requests -> RequestStates]
        /\ \A x \in Requests : request'[x].credit \in Nat /\ request'[x].credit <= request[x].credit
    BY <1>0, <2>1, <2>3, <2>4, TableOfWithin
  <2>6. InputOrder' /\ input' \in Seq(Frames)
    <3>1. CASE input' = input
      BY <1>0, <2>1, <2>5, <3>1, OrderKept DEF Within
    <3>2. CASE /\ serve.at = "reading" /\ <<Frame("credit", id)>> \in Seq(Frames)
               /\ input' = input \o <<Frame("credit", id)>>
      <4> DEFINE frames == <<Frame("credit", id)>>
      <4>1. DOMAIN frames = {1} /\ frames[1].kind = "credit" /\ frames[1].id = id
        BY DEF Frame
      <4>2. serve' = serve
        BY <2>1 DEF Within
      <4> HIDE DEF frames
      <4>3. frames \in Seq(Frames) /\ input' = input \o frames
        BY <3>2 DEF frames
      <4>4. \A k \in DOMAIN frames : frames[k].kind # "request"
        BY <4>1
      <4>5. \A k \in DOMAIN frames : \A x \in Requests :
              IsAbout(frames[k], x) => client.seen[x] # "unused"
        BY <2>3, <4>1 DEF IsAbout
      <4> QED
        BY <1>0, <2>5, <3>2, <4>2, <4>3, <4>4, <4>5, OrderGrows, SMTT(30)
    <3> QED
      BY <2>4, <3>1, <3>2
  <2>7. CreditIsOne'
    <3>1. CASE input' = input
      BY <1>0, <2>5, <3>1, CreditKept
    <3>2. CASE /\ <<Frame("credit", id)>> \in Seq(Frames)
               /\ input' = input \o <<Frame("credit", id)>>
               /\ request[id].credit > 0 /\ r.credit = request[id].credit - 1
      <4> DEFINE frames == <<Frame("credit", id)>>
      <4>1. DOMAIN frames = {1} /\ frames[1].kind = "credit" /\ frames[1].id = id
        BY DEF Frame
      <4> HIDE DEF frames
      <4>2. frames \in Seq(Frames) /\ input' = input \o frames
        BY <3>2 DEF frames
      <4>3. /\ \A i \in DOMAIN input : (input')[i] = input[i]
            /\ \A j \in DOMAIN (input') : j \in DOMAIN input \/ \E k \in DOMAIN frames : j = Len(input) + k
            /\ \A k \in DOMAIN frames : (input')[Len(input) + k] = frames[k]
        BY <1>0, <4>2, JoinOf
      <4>4. \A j \in DOMAIN (input') :
              \/ j \in DOMAIN input /\ (input')[j] = input[j]
              \/ j = Len(input) + 1 /\ (input')[j] = frames[1]
        BY <4>1, <4>3
      <4>5. request[id].credit = 1 /\ request'[id].credit = 0
        <5>1. request[id].credit \in Nat /\ request[id].credit <= 1 /\ request'[id] = r
          BY <1>0, <2>1 DEF CreditIsOne, ServerTypes, RequestStates, Within
        <5> QED
          BY <3>2, <5>1
      <4>6. \A j \in DOMAIN input : ~IsCredit(input[j], id)
        BY <1>0, <4>5 DEF CreditIsOne
      <4>7. \A x \in Requests : request[x].credit = 0 => request'[x].credit = 0
        <5>1. \A x \in Requests : request[x].credit \in Nat
          BY <1>0 DEF ServerTypes, RequestStates
        <5> QED
          BY <2>5, <5>1
      <4>8. ASSUME NEW x \in Requests, NEW j \in DOMAIN (input'), IsCredit((input')[j], x)
            PROVE  /\ request'[x].credit = 0
                   /\ \/ j \in DOMAIN input /\ IsCredit(input[j], x) /\ x # id
                      \/ j = Len(input) + 1 /\ x = id
        <5>1. CASE j \in DOMAIN input /\ (input')[j] = input[j]
          <6>1. IsCredit(input[j], x) /\ request[x].credit = 0
            BY <1>0, <4>8, <5>1 DEF CreditIsOne
          <6>2. x # id /\ request'[x].credit = 0
            BY <4>6, <4>7, <5>1, <6>1
          <6> QED
            BY <5>1, <6>1, <6>2
        <5>2. CASE j = Len(input) + 1 /\ (input')[j] = frames[1]
          BY <4>1, <4>5, <4>8, <5>2 DEF IsCredit
        <5> QED
          BY <4>4, <5>1, <5>2
      <4>9. \A x \in Requests : \A i, j \in DOMAIN (input') :
              IsCredit((input')[i], x) /\ IsCredit((input')[j], x) => i = j
        BY <1>0, <4>8 DEF CreditIsOne
      <4>10. \A x \in Requests : request'[x].credit <= 1
        <5>1. \A x \in Requests : request[x].credit \in Nat /\ request[x].credit <= 1
          BY <1>0 DEF ServerTypes, RequestStates, CreditIsOne
        <5> QED
          BY <2>5, <5>1
      <4> QED
        BY <4>8, <4>9, <4>10 DEF CreditIsOne
    <3> QED
      BY <2>4, <3>1, <3>2
  <2>8. ServerTypes'
    BY <1>0, <2>1, <2>4, <2>5, <2>6 DEF ServerTypes, Within
  <2> QED
    BY <2>5, <2>6, <2>7, <2>8 DEF ServerInv
<1> QED
  BY <1>1, <1>2

-----------------------------------------------------------------------------
(* The end of a request                                                    *)

(* A tombstone is added and none is lost: the oldest may be forgotten, but *)
(* is known to be.                                                         *)
LEMMA TombstoneOf ==
  ASSUME ServerTypes, NEW id \in Requests, serve.at = "reading"
  PROVE  /\ addTombstone(id) \in Memories
         /\ id \in Range(addTombstone(id).queue)
         /\ \A x : x \in Range(tombstones.queue) \/ x \in tombstones.forgotten =>
              x \in Range(addTombstone(id).queue) \/ x \in addTombstone(id).forgotten
<1> DEFINE kept == IF Len(tombstones.queue) >= MaxTombstones THEN Pruned ELSE tombstones
<1>0. tombstones \in Memories /\ tombstones.queue \in Seq(Requests)
      /\ tombstones.forgotten \in SUBSET Requests
  BY DEF ServerTypes, Memories
<1>1. /\ kept \in Memories
      /\ \A x : x \in Range(tombstones.queue) \/ x \in tombstones.forgotten =>
           x \in Range(kept.queue) \/ x \in kept.forgotten
  <2>1. CASE Len(tombstones.queue) >= MaxTombstones
    <3>1. tombstones.queue # <<>>
      BY <1>0, <2>1, ServerBounds
    <3>2. /\ Head(tombstones.queue) \in Requests /\ Tail(tombstones.queue) \in Seq(Requests)
          /\ Range(tombstones.queue) = Range(Tail(tombstones.queue)) \cup {Head(tombstones.queue)}
      BY <1>0, <3>1, Remembering
    <3> QED
      BY <1>0, <2>1, <3>2 DEF Pruned, Memories
  <2>2. CASE ~(Len(tombstones.queue) >= MaxTombstones)
    BY <1>0, <2>2
  <2> QED
    BY <2>1, <2>2
<1>2. addTombstone(id) = [kept EXCEPT !.queue = Append(@, id)]
  BY DEF addTombstone
<1> HIDE DEF kept
<1>3. /\ Append(kept.queue, id) \in Seq(Requests)
      /\ Range(Append(kept.queue, id)) = Range(kept.queue) \cup {id}
  BY <1>1, Remembering DEF Memories
<1>4. /\ addTombstone(id) \in Memories
      /\ addTombstone(id).queue = Append(kept.queue, id)
      /\ addTombstone(id).forgotten = kept.forgotten
  BY <1>1, <1>2, <1>3 DEF Memories
<1> QED
  BY <1>1, <1>3, <1>4

(* completeRequest keeps the invariant: the request leaves the table and is*)
(* remembered, if a frame about it may still be read.                      *)
LEMMA CompleteKeeps ==
  ASSUME ServerInv, NEW id \in Requests, completeRequest(id)
  PROVE  ServerInv'
<1> DEFINE r == [request[id] EXCEPT !.at = "answer", !.cancelled = TRUE]
<1>0. /\ ServerTypes /\ InputOrder /\ CreditIsOne /\ Table /\ Stages /\ Limits
      /\ active \in SUBSET Requests /\ IsFiniteSet(active)
  BY DEF ServerInv, ServerTypes, Limits
<1>1. /\ request[id].at = "complete" /\ request[id] \in RequestStates /\ StageOf(request[id])
      /\ request' = [request EXCEPT ![id] = r]
      /\ UNCHANGED <<input, client, serve, broken>> /\ active' = active \ {id}
      /\ tombstones' = addTombstone(id)
  <2>1. request' = [request EXCEPT ![id] = r]
    BY <1>0 DEF completeRequest, ServerTypes
  <2> QED
    BY <1>0, <2>1 DEF completeRequest, Leaves, ServerTypes, Stages
<1>2. /\ r \in RequestStates /\ r.at = "answer" /\ r.credit = request[id].credit
      /\ r.method = request[id].method /\ r.slot = request[id].slot /\ r.credit \in Nat
      /\ r.leader = request[id].leader /\ r.group = request[id].group
      /\ r.answer = request[id].answer
  BY <1>1 DEF RequestStates, Places
<1>3. StageOf(r)
  BY <1>1, <1>2 DEF StageOf, Running, Over
<1> HIDE DEF r
<1>4. /\ request' \in [Requests -> RequestStates] /\ request'[id] = r
      /\ \A x \in Requests : x # id => request'[x] = request[x]
  BY <1>0, <1>1, <1>2 DEF ServerTypes
<1>5. SameAsk
  BY <1>1, <1>2, <1>4 DEF SameAsk
<1>6. InputOrder'
  BY <1>0, <1>1, <1>5, OrderKept
<1>7. CreditIsOne'
  <2>1. \A x \in Requests : request'[x].credit \in Nat /\ request'[x].credit <= request[x].credit
    <3>1. \A x \in Requests : request[x].credit \in Nat
      BY <1>0 DEF ServerTypes, RequestStates
    <3> QED
      BY <1>2, <1>4, <3>1
  <2> QED
    BY <1>0, <1>1, <2>1, CreditKept
<1>8. tombstones' \in Memories /\ Table'
  <2>1. CASE serve.at = "reading"
    <3>1. /\ tombstones' \in Memories /\ id \in Range(tombstones'.queue)
          /\ \A x : x \in Range(tombstones.queue) \/ x \in tombstones.forgotten =>
               x \in Range(tombstones'.queue) \/ x \in tombstones'.forgotten
      BY <1>0, <1>1, <2>1, TombstoneOf
    <3> QED
      BY <1>0, <1>1, <1>2, <1>4, <3>1 DEF Table
  <2>2. CASE serve.at # "reading"
    <3>1. tombstones' = tombstones
      BY <1>1, <2>2 DEF addTombstone
    <3> QED
      BY <1>0, <1>1, <1>2, <1>4, <2>2, <3>1 DEF Table, ServerTypes
  <2> QED
    BY <2>1, <2>2
<1>9. Stages'
  BY <1>0, <1>1, <1>2, <1>3, <1>4 DEF Stages
<1>10. Limits'
  <2>1. \A x \in Requests : request'[x].method = request[x].method /\ request'[x].slot = request[x].slot
    BY <1>2, <1>4
  <2>2. Processes' \subseteq Processes /\ Processes \subseteq active /\ IsFiniteSet(active')
    BY <1>0, <1>1, <2>1, FS_Subset DEF Processes, IsProcess
  <2>3. Cardinality(Processes') <= Cardinality(Processes) /\ Cardinality(Processes) \in Nat
        /\ Cardinality(Processes') \in Nat
    BY <1>0, <2>2, FS_Subset, FS_CardinalityType
  <2>4. Cardinality(Processes') <= MaxProcesses
    BY <1>0, <2>3, ServerBounds DEF Limits
  <2>5. Cardinality(active') <= MaxRequests
    <3>1. active' \subseteq active
      BY <1>1
    <3>2. Cardinality(active') <= Cardinality(active) /\ Cardinality(active) \in Nat
          /\ Cardinality(active') \in Nat
      BY <1>0, <2>2, <3>1, FS_Subset, FS_CardinalityType DEF Limits
    <3> QED
      BY <1>0, <3>2, ServerBounds DEF Limits
  <2> QED
    BY <1>0, <2>1, <2>2, <2>4, <2>5 DEF Limits
<1>11. QuietAfter'
  <2>1. Goroutines' = Goroutines
    BY <1>1, <1>2, <1>4 DEF Goroutines
  <2> QED
    BY <1>1, <2>1 DEF ServerInv, QuietAfter
<1>12. ServerTypes'
  BY <1>0, <1>1, <1>4, <1>8 DEF ServerTypes
<1>13. LawfulClientIsServed'
  BY <1>1 DEF ServerInv, LawfulClientIsServed
<1> QED
  BY <1>6, <1>7, <1>8, <1>9, <1>10, <1>11, <1>12, <1>13 DEF ServerInv

(* The answer is written, once, and nothing of the request goes on.        *)
LEMMA AnswerKeeps ==
  ASSUME ServerInv, NEW id \in Requests, writeAnswer(id)
  PROVE  ServerInv'
<1> DEFINE r == [request[id] EXCEPT !.at = "done", !.slot = FALSE]
<1>0. /\ ServerTypes /\ InputOrder /\ CreditIsOne /\ Table /\ Stages /\ Limits
      /\ client \in Clients /\ serve \in Loops /\ input \in Seq(Frames)
  BY DEF ServerInv, ServerTypes
<1>1. /\ request[id].at = "answer" /\ request[id] \in RequestStates /\ StageOf(request[id])
      /\ request' = [request EXCEPT ![id] = r]
      /\ UNCHANGED <<active, tombstones, broken>>
  <2>1. request' = [request EXCEPT ![id] = r]
    BY <1>0 DEF writeAnswer, ServerTypes
  <2> QED
    BY <1>0, <2>1 DEF writeAnswer, ServerTypes, Stages
<1>2. /\ r \in RequestStates /\ r.at = "done" /\ r.credit = request[id].credit
      /\ r.method = request[id].method /\ ~r.slot /\ r.credit \in Nat
      /\ r.leader = request[id].leader /\ r.group = request[id].group
      /\ r.answer = request[id].answer
  BY <1>1 DEF RequestStates, Places
<1>3. StageOf(r)
  BY <1>1, <1>2 DEF StageOf, Running, Over
<1> HIDE DEF r
<1>4. /\ request' \in [Requests -> RequestStates] /\ request'[id] = r
      /\ \A x \in Requests : x # id => request'[x] = request[x]
  BY <1>0, <1>1, <1>2 DEF ServerTypes
<1>5. client.seen[id] # "unused"
  BY <1>0, <1>1 DEF InputOrder
<1>6. /\ client' \in Clients /\ client'.shut = client.shut /\ input' = input
      /\ \A x \in Requests : client'.seen[x] = client.seen[x] \/ (x = id /\ client'.seen[x] = "ended")
      /\ serve' \in Loops /\ serve'.at = serve.at
      /\ serve'.fault = serve.fault \/ serve'.fault = "write"
  <2>1. CASE Writes(id, "ended") /\ UNCHANGED serve
    BY <1>0, <1>1, <2>1, WritesEffect
  <2>2. CASE WriteFails /\ serve' = IF serve.fault = "none" THEN [serve EXCEPT !.fault = "write"] ELSE serve
    BY <1>0, <2>2 DEF WriteFails, Loops
  <2> QED
    BY <2>1, <2>2 DEF writeAnswer
<1>7. SameAsk
  BY <1>1, <1>2, <1>4, <1>5, <1>6 DEF SameAsk
<1>8. InputOrder'
  BY <1>0, <1>6, <1>7, OrderKept
<1>9. CreditIsOne'
  <2>1. \A x \in Requests : request'[x].credit \in Nat /\ request'[x].credit <= request[x].credit
    <3>1. \A x \in Requests : request[x].credit \in Nat
      BY <1>0 DEF ServerTypes, RequestStates
    <3> QED
      BY <1>2, <1>4, <3>1
  <2> QED
    BY <1>0, <1>6, <2>1, CreditKept
<1>10. Table'
  BY <1>0, <1>1, <1>2, <1>4, <1>6 DEF Table
<1>11. Stages'
  BY <1>0, <1>1, <1>2, <1>3, <1>4, <1>6 DEF Stages
<1>12. Limits'
  <2>1. \A x \in Requests : request'[x].method = request[x].method
    BY <1>2, <1>4
  <2>2. Processes' = Processes
    BY <1>0, <1>1, <2>1 DEF Processes, IsProcess, ServerTypes
  <2>3. \A a, b \in Requests : request'[a].slot /\ request'[b].slot => a = b
    BY <1>0, <1>2, <1>4 DEF Limits
  <2> QED
    BY <1>0, <1>1, <2>2, <2>3 DEF Limits
<1>13. QuietAfter'
  <2>1. id \in Goroutines
    BY <1>1 DEF Goroutines
  <2> QED
    BY <1>6, <2>1 DEF ServerInv, QuietAfter
<1>14. ServerTypes'
  BY <1>0, <1>1, <1>4, <1>6 DEF ServerTypes
<1>15. LawfulClientIsServed'
  BY <1>6 DEF ServerInv, LawfulClientIsServed
<1> QED
  BY <1>8, <1>9, <1>10, <1>11, <1>12, <1>13, <1>14, <1>15 DEF ServerInv

-----------------------------------------------------------------------------
(* The loop and the client                                                 *)

(* Requests may be cancelled or handed something, and no more.             *)
Touched ==
  /\ request' \in [Requests -> RequestStates]
  /\ \A x \in Requests :
       /\ request'[x].at = request[x].at /\ request'[x].method = request[x].method
       /\ request'[x].leader = request[x].leader /\ request'[x].group = request[x].group
       /\ request'[x].slot = request[x].slot /\ request'[x].answer = request[x].answer
       /\ request[x].cancelled => request'[x].cancelled
       /\ request[x].at = "none" => request'[x] = request[x]

(* Touching requests moves none of them.                                   *)
LEMMA TouchedKeeps ==
  ASSUME ServerInv, Touched, active' = active,
         \A x \in Requests : client'.seen[x] = client.seen[x]
           \/ (client.seen[x] = "unused" /\ client'.seen[x] = "sent")
  PROVE  /\ Stages' /\ Limits' /\ Goroutines' = Goroutines
         /\ \A x \in Requests : x \in active' <=> request'[x].at \notin {"none", "answer", "done"}
<1>1. \A x \in Requests : StageOf(request[x]) => StageOf(request'[x])
  BY DEF Touched, StageOf
<1>2. Stages'
  BY <1>1 DEF ServerInv, Stages, Touched
<1>3. Limits'
  <2>1. Processes' = Processes
    BY DEF ServerInv, ServerTypes, Processes, IsProcess, Touched
  <2> QED
    BY <2>1 DEF ServerInv, Limits, Touched
<1>4. Goroutines' = Goroutines
  BY DEF Goroutines, Touched
<1>5. \A x \in Requests : x \in active' <=> request'[x].at \notin {"none", "answer", "done"}
  BY DEF ServerInv, Table, Touched
<1> QED
  BY <1>2, <1>3, <1>4, <1>5

(* A cancellation touches requests in the table.                           *)
LEMMA CancelledTouches ==
  ASSUME ServerInv, NEW ids \in SUBSET Requests, request' = Cancelled(ids)
  PROVE  Touched /\ \A x \in Requests : request'[x].credit = request[x].credit
<1>1. /\ request \in [Requests -> RequestStates] /\ active \in SUBSET Requests
      /\ \A x \in active : request[x].at # "none"
  BY DEF ServerInv, ServerTypes, Table
<1>2. ASSUME NEW x \in Requests
      PROVE  /\ request'[x] = (IF x \in ids \cap active THEN [request[x] EXCEPT !.cancelled = TRUE]
                               ELSE request[x])
             /\ request'[x] \in RequestStates
  BY <1>1 DEF Cancelled, RequestStates
<1>3. request' \in [Requests -> RequestStates]
  BY <1>2 DEF Cancelled
<1>4. ASSUME NEW x \in Requests
      PROVE  /\ request'[x].at = request[x].at /\ request'[x].method = request[x].method
             /\ request'[x].leader = request[x].leader /\ request'[x].group = request[x].group
             /\ request'[x].slot = request[x].slot /\ request'[x].answer = request[x].answer
             /\ request[x].cancelled => request'[x].cancelled
             /\ request[x].at = "none" => request'[x] = request[x]
             /\ request'[x].credit = request[x].credit
  <2>1. CASE x \in ids \cap active
    <3>1. request[x] \in RequestStates /\ request[x].at # "none"
      BY <1>1, <2>1
    <3>2. request'[x] = [request[x] EXCEPT !.cancelled = TRUE]
      BY <1>2, <2>1
    <3> QED
      BY <3>1, <3>2 DEF RequestStates
  <2>2. CASE x \notin ids \cap active
    BY <1>2, <2>2
  <2> QED
    BY <2>1, <2>2
<1> QED
  BY <1>3, <1>4 DEF Touched

(* The loop stops reading: what it had yet to read does not matter.        *)
LEMMA StopKeeps ==
  ASSUME ServerInv, Touched, serve.at = "reading",
         \A x \in Requests : request'[x].credit = request[x].credit,
         NEW l \in {"draining", "closing"},
         NEW f \in {"none", "forgotten", "overflow", "write"}, Stops(l, f),
         UNCHANGED <<client, active, broken>>
  PROVE  ServerInv'
<1>0. ServerTypes /\ InputOrder /\ CreditIsOne /\ Table
  BY DEF ServerInv
<1>1. input' = <<>> /\ serve' = [at |-> l, fault |-> f] /\ tombstones' = NoTombstones
  BY DEF Stops
<1>2. SameAsk
  BY DEF SameAsk, Touched
<1>3. InputOrder'
  BY <1>0, <1>1, <1>2, OrderKept
<1>4. CreditIsOne'
  <2>1. \A x \in Requests : request'[x].credit \in Nat /\ request'[x].credit <= request[x].credit
    BY <1>0 DEF ServerTypes, RequestStates
  <2> QED
    BY <1>0, <1>1, <2>1, CreditKept
<1>5. /\ Stages' /\ Limits' /\ Goroutines' = Goroutines
      /\ \A x \in Requests : x \in active' <=> request'[x].at \notin {"none", "answer", "done"}
  BY TouchedKeeps
<1>6. Table'
  BY <1>1, <1>5 DEF Table
<1>7. QuietAfter'
  BY <1>1, <1>5 DEF ServerInv, QuietAfter
<1>8. ServerTypes'
  <2>1. input' \in Seq(Frames) /\ serve' \in Loops /\ tombstones' \in Memories
    <3>1. <<>> \in Seq(Frames) /\ <<>> \in Seq(Requests)
      OBVIOUS
    <3> QED
      BY <1>1, <3>1 DEF Loops, Memories, NoTombstones
  <2> QED
    BY <1>0, <2>1 DEF ServerTypes, Touched
<1>9. LawfulClientIsServed'
  BY <1>1 DEF LawfulClientIsServed
<1> QED
  BY <1>3, <1>4, <1>5, <1>6, <1>7, <1>8, <1>9 DEF ServerInv

(* A frame about a request that is neither in the table nor remembered is  *)
(* about one whose tombstone was forgotten: it was registered.             *)
LEMMA LookupKnown ==
  ASSUME ServerInv, NEW kind \in About \ {"request"}, Reads(kind)
  PROVE  /\ Id \in Requests /\ request[Id].at # "none"
         /\ Id \notin active /\ ~Completed(Id) => Id \in tombstones.forgotten
<1>1. /\ input \in Seq(Frames) /\ input # <<>> /\ Head(input).kind = kind
      /\ Head(input) = input[1] /\ 1 \in DOMAIN input /\ input[1] \in Frames
      /\ serve.at = "reading" /\ DOMAIN input \subseteq Nat \ {0}
  <2>1. input \in Seq(Frames) /\ input # <<>> /\ Head(input).kind = kind /\ serve.at = "reading"
    BY DEF ServerInv, ServerTypes, Reads
  <2>2. DOMAIN input \subseteq Nat \ {0}
    BY <2>1
  <2> QED
    BY <2>1, <2>2, TailOf
<1>2. Id \in Requests /\ Id = input[1].id
  BY <1>1 DEF Frames, About, Id
<1>3. request[Id].at # "none"
  <2> SUFFICES ASSUME request[Id].at = "none" PROVE FALSE
    OBVIOUS
  <2>1. IsAbout(input[1], Id)
    BY <1>1, <1>2 DEF IsAbout
  <2>2. PICK i \in DOMAIN input : i <= 1 /\ IsRequest(input[i], Id)
    BY <1>1, <1>2, <2>1 DEF ServerInv, InputOrder
  <2>3. i = 1
    BY <1>1, <2>2
  <2> QED
    BY <1>1, <2>2, <2>3 DEF IsRequest
<1> QED
  BY <1>1, <1>2, <1>3 DEF ServerInv, Table, Completed

(* A frame that changes nothing of the table is read.                      *)
LEMMA GoesKeeps ==
  ASSUME ServerInv, NEW kind \in About \ {"request"}, Reads(kind), Goes, Touched, CreditIsOne',
         UNCHANGED <<client, active, tombstones, broken>>
  PROVE  ServerInv'
<1>0. ServerTypes /\ InputOrder /\ Table /\ input \in Seq(Frames)
  BY DEF ServerInv, ServerTypes
<1>1. /\ input # <<>> /\ Head(input).kind # "request" /\ input' = Tail(input)
      /\ serve.at = "reading" /\ serve' = serve
  BY DEF Reads, Goes
<1>2. SameAsk
  BY DEF SameAsk, Touched
<1>3. InputOrder'
  BY <1>0, <1>1, <1>2, OrderKept DEF IsRequest
<1>4. /\ Stages' /\ Limits' /\ Goroutines' = Goroutines
      /\ \A x \in Requests : x \in active' <=> request'[x].at \notin {"none", "answer", "done"}
  BY TouchedKeeps
<1>5. Table'
  BY <1>0, <1>1, <1>4 DEF Table, Touched
<1>6. QuietAfter'
  BY <1>1, <1>4 DEF ServerInv, QuietAfter
<1>7. ServerTypes'
  <2>1. input' \in Seq(Frames)
    BY <1>0, <1>1, TailOf
  <2> QED
    BY <1>0, <1>1, <2>1 DEF ServerTypes, Touched
<1>8. LawfulClientIsServed'
  BY <1>1 DEF ServerInv, LawfulClientIsServed
<1> QED
  BY <1>3, <1>4, <1>5, <1>6, <1>7, <1>8 DEF ServerInv

(* Frames about requests keep the invariant: they find their request, or   *)
(* its tombstone, or stop the loop for one that was forgotten or overfed.  *)
LEMMA LookupKeeps ==
  ASSUME ServerInv, cancelRequest \/ pushCredit \/ pushTerminal
  PROVE  ServerInv'
<1>0. /\ ServerTypes /\ CreditIsOne /\ Table /\ input \in Seq(Frames)
      /\ request \in [Requests -> RequestStates] /\ active \in SUBSET Requests
  BY DEF ServerInv, ServerTypes
<1>1. PICK kind \in About \ {"request"} :
        /\ Reads(kind)
        /\ \/ kind = "cancel" /\ cancelRequest
           \/ kind = "credit" /\ pushCredit
           \/ kind = "input" /\ pushTerminal
  BY DEF About, cancelRequest, pushCredit, pushTerminal
<1>2. /\ Id \in Requests /\ request[Id].at # "none" /\ input # <<>> /\ serve.at = "reading"
      /\ Id \notin active /\ ~Completed(Id) => Id \in tombstones.forgotten
  BY <1>1, LookupKnown DEF Reads
<1>3. UNCHANGED <<client, active, broken>>
  BY <1>1 DEF cancelRequest, pushCredit, pushTerminal
<1>4. UNCHANGED request => Touched /\ \A x \in Requests : request'[x].credit = request[x].credit
  BY <1>0 DEF Touched
<1>5. CASE Goes /\ UNCHANGED <<request, tombstones>>
  <2>1. CreditIsOne'
    <3>1. \A x \in Requests : request'[x].credit \in Nat /\ request'[x].credit <= request[x].credit
      BY <1>0, <1>5 DEF RequestStates
    <3> QED
      BY <1>0, <1>2, <1>5, <3>1, CreditKept DEF Goes
  <2> QED
    BY <1>1, <1>3, <1>4, <1>5, <2>1, GoesKeeps
<1>6. CASE Id \notin active /\ ~Completed(Id) /\ FailsUnknown /\ UNCHANGED request
  <2>1. Stops("closing", "forgotten")
    BY <1>2, <1>6 DEF FailsUnknown
  <2> QED
    BY <1>2, <1>3, <1>4, <1>6, <2>1, StopKeeps
<1>7. CASE request' = Cancelled({Id}) /\ Goes /\ UNCHANGED tombstones
  <2>1. Touched /\ \A x \in Requests : request'[x].credit = request[x].credit
    <3>1. {Id} \in SUBSET Requests
      BY <1>2
    <3> QED
      BY <1>7, <3>1, CancelledTouches
  <2>2. CreditIsOne'
    <3>1. \A x \in Requests : request'[x].credit \in Nat /\ request'[x].credit <= request[x].credit
      BY <1>0, <2>1 DEF RequestStates
    <3> QED
      BY <1>0, <1>2, <1>7, <3>1, CreditKept DEF Goes
  <2> QED
    BY <1>1, <1>3, <1>7, <2>1, <2>2, GoesKeeps
<1>8. CASE /\ kind = "input" /\ Goes /\ UNCHANGED tombstones
           /\ request' = [request EXCEPT ![Id].controls = @ + 1]
  <2> DEFINE r == [request[Id] EXCEPT !.controls = @ + 1]
  <2>1. request[Id] \in RequestStates /\ request[Id].controls + 1 \in Nat
    BY <1>0, <1>2 DEF RequestStates
  <2>2. /\ r \in RequestStates /\ r.at = request[Id].at /\ r.method = request[Id].method
        /\ r.leader = request[Id].leader /\ r.group = request[Id].group
        /\ r.slot = request[Id].slot /\ r.answer = request[Id].answer
        /\ r.cancelled = request[Id].cancelled /\ r.credit = request[Id].credit
    BY <2>1 DEF RequestStates
  <2>3. request' = [request EXCEPT ![Id] = r]
    BY <1>0, <1>8
  <2> HIDE DEF r
  <2>4. Touched /\ \A x \in Requests : request'[x].credit = request[x].credit
    <3>1. /\ request' \in [Requests -> RequestStates] /\ request'[Id] = r
          /\ \A x \in Requests : x # Id => request'[x] = request[x]
      BY <1>0, <1>2, <2>2, <2>3
    <3> QED
      BY <1>2, <2>2, <3>1 DEF Touched
  <2>5. CreditIsOne'
    <3>1. \A x \in Requests : request'[x].credit \in Nat /\ request'[x].credit <= request[x].credit
      BY <1>0, <2>4 DEF RequestStates
    <3> QED
      BY <1>0, <1>2, <1>8, <3>1, CreditKept DEF Goes
  <2> QED
    BY <1>1, <1>3, <1>8, <2>4, <2>5, GoesKeeps
<1>9. CASE /\ kind = "credit" /\ Goes /\ UNCHANGED tombstones
           /\ request' = [request EXCEPT ![Id].credit = @ + 1]
  <2> DEFINE r == [request[Id] EXCEPT !.credit = @ + 1]
  <2>1. request[Id] \in RequestStates /\ request[Id].credit + 1 \in Nat
    BY <1>0, <1>2 DEF RequestStates
  <2>2. /\ r \in RequestStates /\ r.at = request[Id].at /\ r.method = request[Id].method
        /\ r.leader = request[Id].leader /\ r.group = request[Id].group
        /\ r.slot = request[Id].slot /\ r.answer = request[Id].answer
        /\ r.cancelled = request[Id].cancelled /\ r.credit = request[Id].credit + 1
    BY <2>1 DEF RequestStates
  <2>3. request' = [request EXCEPT ![Id] = r]
    BY <1>0, <1>9
  <2> HIDE DEF r
  <2>4. /\ request' \in [Requests -> RequestStates] /\ request'[Id] = r
        /\ \A x \in Requests : x # Id => request'[x] = request[x]
    BY <1>0, <1>2, <2>2, <2>3
  <2>5. Touched
    BY <1>2, <2>2, <2>4 DEF Touched
  <2>6. CreditIsOne'
    <3>1. /\ Head(input) = input[1] /\ 1 \in DOMAIN input
          /\ \A i \in DOMAIN (input') : i + 1 \in DOMAIN input /\ (input')[i] = input[i + 1] /\ i \in Nat
      BY <1>0, <1>2, <1>9, TailOf DEF Goes
    <3>2. IsCredit(input[1], Id)
      BY <1>1, <1>9, <3>1 DEF IsCredit, Reads, Id
    <3>3. request[Id].credit = 0 /\ request'[Id].credit = 1
      <4>1. request[Id].credit = 0
        BY <1>0, <1>2, <3>1, <3>2 DEF CreditIsOne
      <4> QED
        BY <2>2, <2>4, <4>1
    <3>4. ASSUME NEW x \in Requests, NEW i \in DOMAIN (input'), IsCredit((input')[i], x)
          PROVE  x # Id /\ i + 1 \in DOMAIN input /\ IsCredit(input[i + 1], x) /\ i \in Nat
      <4>1. i + 1 # 1 /\ i \in Nat /\ i + 1 \in DOMAIN input /\ 1 \in DOMAIN input
        <5>1. i # 0
          <6>1. Tail(input) \in Seq(Frames) /\ input' = Tail(input)
            BY <1>0, <1>2, <1>9, TailOf DEF Goes
          <6>2. 0 \notin DOMAIN Tail(input)
            BY <6>1
          <6> QED
            BY <6>1, <6>2
        <5> QED
          BY <3>1, <3>4, <5>1
      <4>2. IsCredit(input[i + 1], x)
        BY <3>1, <3>4
      <4>3. \A k, j \in DOMAIN input : IsCredit(input[k], Id) /\ IsCredit(input[j], Id) => k = j
        BY <1>0, <1>2 DEF CreditIsOne
      <4>4. x # Id
        BY <3>2, <4>1, <4>2, <4>3
      <4> QED
        BY <4>1, <4>2, <4>4
    <3>5. ASSUME NEW x \in Requests, NEW i \in DOMAIN (input'), NEW j \in DOMAIN (input'),
                 IsCredit((input')[i], x), IsCredit((input')[j], x)
          PROVE  i = j
      <4>1. i + 1 = j + 1 /\ i \in Nat /\ j \in Nat
        BY <1>0, <3>4, <3>5 DEF CreditIsOne
      <4> QED
        BY <4>1
    <3>6. \A x \in Requests : request'[x].credit <= 1
      BY <1>0, <2>4, <3>3 DEF CreditIsOne
    <3>7. \A x \in Requests : \A i \in DOMAIN (input') : IsCredit((input')[i], x) => request'[x].credit = 0
      BY <1>0, <2>4, <3>4 DEF CreditIsOne
    <3> QED
      BY <3>5, <3>6, <3>7 DEF CreditIsOne
  <2> QED
    BY <1>1, <1>3, <1>9, <2>5, <2>6, GoesKeeps
<1>10. CASE kind = "input" /\ Stops("closing", "overflow") /\ UNCHANGED request
  BY <1>2, <1>3, <1>4, <1>10, StopKeeps
<1>11. kind = "credit" => request[Id].credit < MaxCredit
  <2> SUFFICES ASSUME kind = "credit" PROVE request[Id].credit < MaxCredit
    OBVIOUS
  <2>1. Head(input) = input[1] /\ 1 \in DOMAIN input
    BY <1>0, <1>2, TailOf
  <2>2. IsCredit(input[1], Id)
    BY <1>1, <2>1 DEF IsCredit, Reads, Id
  <2>3. request[Id].credit = 0
    BY <1>0, <1>2, <2>1, <2>2 DEF CreditIsOne
  <2> QED
    BY <2>3, ServerBounds
<1>12. CASE kind = "cancel" /\ cancelRequest
  BY <1>5, <1>6, <1>7, <1>12 DEF cancelRequest
<1>13. CASE kind = "credit" /\ pushCredit
  <2>1. ~(request[Id].credit >= MaxCredit)
    <3>1. request[Id].credit \in Nat /\ MaxCredit \in Nat
      BY <1>0, <1>2, ServerBounds DEF RequestStates
    <3> QED
      BY <1>11, <1>13, <3>1
  <2> QED
    BY <1>5, <1>6, <1>9, <1>13, <2>1 DEF pushCredit
<1>14. CASE kind = "input" /\ pushTerminal
  BY <1>5, <1>6, <1>8, <1>10, <1>14 DEF pushTerminal
<1> QED
  BY <1>1, <1>12, <1>13, <1>14

(* The frame of a request is the first about it, and the only one that     *)
(* asks for it.                                                            *)
LEMMA AskedOnce ==
  ASSUME ServerTypes, InputOrder, Reads("request")
  PROVE  /\ Id \in Requests /\ Head(input).method \in Methods /\ request[Id].at = "none"
         /\ client.seen[Id] # "unused" /\ serve.at = "reading"
         /\ input \in Seq(Frames) /\ input # <<>> /\ IsRequest(input[1], Id)
<1>1. /\ input \in Seq(Frames) /\ input # <<>> /\ Head(input).kind = "request"
      /\ Head(input) = input[1] /\ 1 \in DOMAIN input /\ input[1] \in Frames
      /\ serve.at = "reading"
  <2>1. input \in Seq(Frames) /\ input # <<>> /\ Head(input).kind = "request" /\ serve.at = "reading"
    BY DEF ServerTypes, Reads
  <2> QED
    BY <2>1, TailOf
<1>2. Id \in Requests /\ Id = input[1].id /\ IsRequest(input[1], Id) /\ IsAbout(input[1], Id)
  BY <1>1 DEF Frames, About, Id, IsRequest, IsAbout
<1>3. Head(input).method \in Methods
  BY <1>1 DEF InputOrder
<1>4. Asked(Id)
  BY <1>1, <1>2 DEF Asked
<1>5. request[Id].at = "none" /\ client.seen[Id] # "unused"
  BY <1>1, <1>2, <1>4 DEF InputOrder
<1> QED
  BY <1>1, <1>2, <1>3, <1>5

(* The order survives the reading of a request that is registered.         *)
LEMMA OrderTakes ==
  ASSUME ServerTypes, InputOrder, Reads("request"), input' = Tail(input), serve' = serve,
         request'[Id].at # "none",
         \A x \in Requests : x # Id => request'[x].at = request[x].at,
         \A x \in Requests : client'.seen[x] = "unused" <=> client.seen[x] = "unused"
  PROVE  InputOrder'
<1> DEFINE a == Id
<1>0. /\ a \in Requests /\ client.seen[a] # "unused" /\ serve.at = "reading"
      /\ input \in Seq(Frames) /\ input # <<>> /\ IsRequest(input[1], a) /\ request[a].at = "none"
  BY AskedOnce
<1>1. /\ 1 \in DOMAIN input
      /\ \A i \in DOMAIN (input') : i + 1 \in DOMAIN input /\ (input')[i] = input[i + 1] /\ i \in Nat
      /\ \A i \in DOMAIN input : i # 1 =>
           i - 1 \in DOMAIN (input') /\ input[i] = (input')[i - 1] /\ i \in Nat /\ i > 1
  BY <1>0, TailOf
<1>2. /\ request'[a].at # "none"
      /\ \A x \in Requests : x # a => request'[x].at = request[x].at
  OBVIOUS
<1> HIDE DEF a
<1>3. ASSUME NEW i \in DOMAIN (input') PROVE i # 0
  <2>1. Tail(input) \in Seq(Frames)
    BY <1>0, TailOf
  <2>2. 0 \notin DOMAIN Tail(input)
    BY <2>1
  <2> QED
    BY <2>2
<1>4. ASSUME NEW id \in Requests PROVE Asked(id)' <=> Asked(id) /\ id # a
  <2>1. ASSUME NEW i \in DOMAIN (input'), IsRequest((input')[i], id) PROVE Asked(id) /\ id # a
    <3>1. i + 1 \in DOMAIN input /\ IsRequest(input[i + 1], id) /\ i + 1 # 1
      BY <1>1, <1>3, <2>1
    <3>2. id # a
      BY <1>0, <1>1, <3>1 DEF InputOrder
    <3> QED
      BY <3>1, <3>2 DEF Asked
  <2>2. ASSUME NEW i \in DOMAIN input, IsRequest(input[i], id), id # a PROVE Asked(id)'
    <3>1. i # 1
      BY <1>0, <2>2 DEF IsRequest
    <3> QED
      BY <1>1, <2>2, <3>1 DEF Asked
  <2> QED
    BY <2>1, <2>2 DEF Asked
<1>5. \A id \in Requests : \A i \in DOMAIN (input') :
        IsAbout((input')[i], id) => client.seen[id] # "unused"
  BY <1>1 DEF InputOrder
<1>6. ASSUME NEW id \in Requests, NEW i \in DOMAIN (input'), NEW j \in DOMAIN (input'),
             IsRequest((input')[i], id), IsRequest((input')[j], id)
      PROVE  i = j
  <2>1. /\ i + 1 \in DOMAIN input /\ j + 1 \in DOMAIN input
        /\ IsRequest(input[i + 1], id) /\ IsRequest(input[j + 1], id) /\ i \in Nat /\ j \in Nat
    BY <1>1, <1>6
  <2>2. i + 1 = j + 1
    BY <2>1 DEF InputOrder
  <2> QED
    BY <2>1, <2>2
<1>7. ASSUME NEW id \in Requests, request'[id].at = "none",
             NEW j \in DOMAIN (input'), IsAbout((input')[j], id)
      PROVE  \E i \in DOMAIN (input') : i <= j /\ IsRequest((input')[i], id)
  <2>1. j + 1 \in DOMAIN input /\ IsAbout(input[j + 1], id) /\ j \in Nat /\ id # a
        /\ request[id].at = "none"
    BY <1>1, <1>2, <1>7
  <2>2. PICK i \in DOMAIN input : i <= j + 1 /\ IsRequest(input[i], id)
    BY <2>1 DEF InputOrder
  <2>3. i # 1
    BY <1>0, <2>1, <2>2 DEF IsRequest
  <2>4. i - 1 \in DOMAIN (input') /\ input[i] = (input')[i - 1] /\ i \in Nat /\ i > 1
    BY <1>1, <2>3
  <2>5. i - 1 <= j
    BY <2>1, <2>2, <2>4
  <2> QED
    BY <2>2, <2>4, <2>5
<1>8. \A i \in DOMAIN (input') : (input')[i].kind = "request" => (input')[i].method \in Methods
  BY <1>1 DEF InputOrder
<1>9. ASSUME NEW id \in Requests, client'.seen[id] = "unused"
      PROVE  request'[id].at = "none" /\ \A i \in DOMAIN (input') : ~IsAbout((input')[i], id)
  <2>1. client.seen[id] = "unused" /\ id # a
    BY <1>0, <1>9
  <2> QED
    BY <1>2, <1>5, <2>1 DEF InputOrder
<1>10. ASSUME NEW id \in Requests, client'.seen[id] # "unused"
       PROVE  request'[id].at # "none" \/ Asked(id)'
  <2>1. client.seen[id] # "unused"
    BY <1>10
  <2> QED
    BY <1>0, <1>2, <1>4, <2>1 DEF InputOrder
<1>11. ASSUME NEW id \in Requests, Asked(id)' PROVE request'[id].at = "none"
  BY <1>2, <1>4, <1>11 DEF InputOrder
<1>12. serve'.at = "reading"
  BY <1>0
<1> QED
  BY <1>6, <1>7, <1>8, <1>9, <1>10, <1>11, <1>12 DEF InputOrder

(* A request becomes q where it was unused: it holds nothing yet.          *)
Enters(q) ==
  /\ q \in RequestStates /\ q.at \in {"begin", "done"} /\ ~q.leader /\ ~q.group /\ ~q.slot
  /\ q.credit = 0 /\ q.method = Head(input).method
  /\ request' = [request EXCEPT ![Id] = q]

(* What holds of the requests when one enters.                             *)
LEMMA EnteringKeeps ==
  ASSUME ServerInv, Reads("request"), NEW q, Enters(q),
         client' \in Clients,
         \A x \in Requests :
           client'.seen[x] = client.seen[x] \/ (x = Id /\ q.at = "done" /\ client'.seen[x] = "ended")
  PROVE  /\ request' \in [Requests -> RequestStates] /\ Stages'
         /\ Id \in Requests /\ Id \notin active /\ request'[Id] = q /\ request[Id].at = "none"
         /\ \A x \in Requests : x # Id => request'[x] = request[x]
         /\ \A a, b \in Requests : request'[a].slot /\ request'[b].slot => a = b
         /\ \A x \in Requests : client'.seen[x] = "unused" <=> client.seen[x] = "unused"
         /\ input' = Tail(input) \/ input' = <<>> => CreditIsOne'
<1>0. /\ ServerTypes /\ InputOrder /\ CreditIsOne /\ Table /\ Stages /\ Limits
      /\ request \in [Requests -> RequestStates]
  BY DEF ServerInv, ServerTypes
<1>1. /\ Id \in Requests /\ request[Id].at = "none" /\ client.seen[Id] # "unused"
      /\ input # <<>>
  BY <1>0, AskedOnce
<1>2. /\ q \in RequestStates /\ q.at \in {"begin", "done"} /\ ~q.leader /\ ~q.group /\ ~q.slot
      /\ q.credit = 0 /\ request' = [request EXCEPT ![Id] = q]
  BY DEF Enters
<1>3. /\ request' \in [Requests -> RequestStates] /\ request'[Id] = q
      /\ \A x \in Requests : x # Id => request'[x] = request[x]
  BY <1>0, <1>1, <1>2
<1>4. Id \notin active
  BY <1>0, <1>1 DEF Table
<1>5. StageOf(q)
  BY <1>2 DEF StageOf, Running, Over
<1>6. Stages'
  <2>1. client.seen[Id] # "ended"
    BY <1>0, <1>1 DEF Stages
  <2> QED
    BY <1>0, <1>1, <1>3, <1>5, <2>1 DEF Stages
<1>7. \A a, b \in Requests : request'[a].slot /\ request'[b].slot => a = b
  BY <1>0, <1>2, <1>3 DEF Limits
<1>8. \A x \in Requests : client'.seen[x] = "unused" <=> client.seen[x] = "unused"
  BY <1>1
<1>9. ASSUME input' = Tail(input) \/ input' = <<>> PROVE CreditIsOne'
  <2>1. \A x \in Requests : request[x].credit \in Nat
    BY <1>0 DEF RequestStates
  <2>2. \A x \in Requests : request'[x].credit \in Nat /\ request'[x].credit <= request[x].credit
    BY <1>1, <1>2, <1>3, <2>1
  <2> QED
    BY <1>0, <1>1, <1>9, <2>2, CreditKept
<1> QED
  BY <1>1, <1>3, <1>4, <1>6, <1>7, <1>8, <1>9

(* A request within the limits is registered.                              *)
LEMMA AdmittedKeeps ==
  ASSUME ServerInv, Reads("request"), ~Limited(Head(input).method), Goes, NEW q, Enters(q),
         q.at = "begin", active' = active \cup {Id}, UNCHANGED <<client, tombstones, broken>>
  PROVE  ServerInv'
<1>0. /\ ServerTypes /\ InputOrder /\ Table /\ Limits /\ client \in Clients
      /\ active \in SUBSET Requests /\ input \in Seq(Frames) /\ serve.at = "reading"
      /\ input # <<>> /\ input' = Tail(input) /\ serve' = serve
  BY DEF ServerInv, ServerTypes, Reads, Goes
<1>1. /\ request' \in [Requests -> RequestStates] /\ Stages' /\ CreditIsOne'
      /\ Id \in Requests /\ Id \notin active /\ request'[Id] = q /\ request[Id].at = "none"
      /\ \A x \in Requests : x # Id => request'[x] = request[x]
      /\ \A a, b \in Requests : request'[a].slot /\ request'[b].slot => a = b
      /\ \A x \in Requests : client'.seen[x] = "unused" <=> client.seen[x] = "unused"
  BY <1>0, EnteringKeeps
<1>2. InputOrder'
  BY <1>0, <1>1, OrderTakes
<1>3. Table'
  <2> DEFINE a == Id
  <2>1. /\ a \in Requests /\ request'[a].at = "begin" /\ active' = active \cup {a}
        /\ \A x \in Requests : x # a => request'[x] = request[x]
    BY <1>1
  <2> HIDE DEF a
  <2> QED
    BY <1>0, <2>1 DEF Table
<1>4. Limits'
  <2> DEFINE a == Id
             m == Head(input).method
  <2>1. /\ a \in Requests /\ a \notin active /\ request'[a].method = m /\ active' = active \cup {a}
        /\ \A x \in Requests : x # a => request'[x] = request[x]
    BY <1>1 DEF Enters
  <2>2. m \in {"bash", "terminal"} => ~(Cardinality(Processes) >= MaxProcesses)
    BY DEF Limited, Processes
  <2>0. ~(Cardinality(active) >= MaxRequests)
    BY DEF Limited
  <2> HIDE DEF a, m
  <2>3. IsFiniteSet(active) /\ Cardinality(Processes) <= MaxProcesses /\ IsFiniteSet(Processes)
    <3>1. Processes \subseteq active
      BY DEF Processes
    <3> QED
      BY <1>0, <3>1, FS_Subset DEF Limits
  <2>4. IsFiniteSet(active') /\ Cardinality(active') <= MaxRequests
    <3>1. Cardinality(active) \in Nat /\ MaxRequests \in Nat
      BY <2>3, FS_CardinalityType, ServerBounds
    <3>2. IsFiniteSet(active') /\ Cardinality(active') = Cardinality(active) + 1
      BY <2>1, <2>3, FS_AddElement
    <3> QED
      BY <2>0, <3>1, <3>2
  <2>5. Processes' = IF m \in {"bash", "terminal"} THEN Processes \cup {a} ELSE Processes
    BY <1>0, <2>1 DEF Processes, IsProcess
  <2>6. Cardinality(Processes') <= MaxProcesses
    <3>1. CASE m \in {"bash", "terminal"}
      <4>1. a \notin Processes
        BY <2>1 DEF Processes
      <4>2. Cardinality(Processes \cup {a}) = Cardinality(Processes) + 1
        BY <2>3, <4>1, FS_AddElement
      <4>3. Cardinality(Processes) \in Nat /\ MaxProcesses \in Nat
        BY <2>3, FS_CardinalityType, ServerBounds
      <4> QED
        BY <2>2, <2>5, <3>1, <4>2, <4>3
    <3>2. CASE m \notin {"bash", "terminal"}
      BY <2>3, <2>5, <3>2
    <3> QED
      BY <3>1, <3>2
  <2> QED
    BY <1>1, <2>4, <2>6 DEF Limits
<1>5. QuietAfter'
  BY <1>0 DEF ServerInv, QuietAfter
<1>6. ServerTypes'
  <2>1. input' \in Seq(Frames)
    BY <1>0, TailOf
  <2>2. active' \in SUBSET Requests
    BY <1>0, <1>1
  <2> QED
    BY <1>0, <1>1, <2>1, <2>2 DEF ServerTypes
<1>7. LawfulClientIsServed'
  BY <1>0 DEF ServerInv, LawfulClientIsServed
<1> QED
  BY <1>1, <1>2, <1>3, <1>4, <1>5, <1>6, <1>7 DEF ServerInv

(* A request over the limits is answered at once, or the loop stops.       *)
LEMMA RefusedKeeps ==
  ASSUME ServerInv, Reads("request"), NEW q, Enters(q), q.at = "done",
         \/ /\ client' = [client EXCEPT !.seen[Id] = "ended"]
            /\ tombstones' = addTombstone(Id) /\ Goes
         \/ Stops("closing", "write") /\ UNCHANGED client,
         UNCHANGED <<active, broken>>
  PROVE  ServerInv'
<1>0. /\ ServerTypes /\ InputOrder /\ Table /\ Limits /\ client \in Clients
      /\ active \in SUBSET Requests /\ input \in Seq(Frames) /\ serve.at = "reading"
      /\ input # <<>> /\ Id \in Requests
  BY AskedOnce DEF ServerInv, ServerTypes
<1>1. /\ client' \in Clients /\ client'.shut = client.shut
      /\ \A x \in Requests : client'.seen[x] = client.seen[x] \/ (x = Id /\ client'.seen[x] = "ended")
  BY <1>0 DEF Clients
<1>2. input' = Tail(input) \/ input' = <<>>
  BY DEF Goes, Stops
<1>3. /\ request' \in [Requests -> RequestStates] /\ Stages' /\ CreditIsOne'
      /\ Id \notin active /\ request'[Id] = q /\ request[Id].at = "none"
      /\ \A x \in Requests : x # Id => request'[x] = request[x]
      /\ \A a, b \in Requests : request'[a].slot /\ request'[b].slot => a = b
      /\ \A x \in Requests : client'.seen[x] = "unused" <=> client.seen[x] = "unused"
  BY <1>1, <1>2, EnteringKeeps
<1>4. /\ Goroutines' = Goroutines /\ Processes' = Processes
      /\ \A x \in Requests : x \in active' <=> request'[x].at \notin {"none", "answer", "done"}
  <2> DEFINE a == Id
  <2>1. /\ a \notin active /\ request'[a].at = "done" /\ request[a].at = "none"
        /\ \A x \in Requests : x # a => request'[x] = request[x]
    BY <1>3
  <2> HIDE DEF a
  <2>2. Goroutines' = Goroutines
    BY <2>1 DEF Goroutines
  <2>3. Processes' = Processes
    BY <1>0, <2>1 DEF Processes, IsProcess
  <2> QED
    BY <1>0, <2>1, <2>2, <2>3 DEF Table
<1>5. Limits'
  BY <1>0, <1>3, <1>4 DEF Limits
<1>6. CASE Goes /\ tombstones' = addTombstone(Id)
  <2>1. input' = Tail(input) /\ serve' = serve
    BY <1>6 DEF Goes
  <2>2. InputOrder'
    BY <1>0, <1>3, <2>1, OrderTakes
  <2>3. /\ tombstones' \in Memories /\ Id \in Range(tombstones'.queue)
        /\ \A x : x \in Range(tombstones.queue) \/ x \in tombstones.forgotten =>
             x \in Range(tombstones'.queue) \/ x \in tombstones'.forgotten
    BY <1>0, <1>6, TombstoneOf
  <2>4. Table'
    <3>1. ASSUME NEW x \in Requests, request'[x].at # "none"
          PROVE  x \in active \/ x \in Range(tombstones'.queue) \/ x \in tombstones'.forgotten
      BY <1>0, <1>3, <2>3, <3>1 DEF Table
    <3> QED
      BY <1>4, <3>1 DEF Table
  <2>5. QuietAfter'
    BY <1>0, <1>1, <2>1 DEF ServerInv, QuietAfter
  <2>6. ServerTypes'
    <3>1. input' \in Seq(Frames)
      BY <1>0, <2>1, TailOf
    <3> QED
      BY <1>0, <1>1, <1>3, <2>1, <2>3, <3>1 DEF ServerTypes
  <2>7. LawfulClientIsServed'
    BY <2>1 DEF ServerInv, LawfulClientIsServed
  <2> QED
    BY <1>3, <1>5, <2>2, <2>4, <2>5, <2>6, <2>7 DEF ServerInv
<1>7. CASE Stops("closing", "write")
  <2>1. input' = <<>> /\ serve' = [at |-> "closing", fault |-> "write"] /\ tombstones' = NoTombstones
    BY <1>7 DEF Stops
  <2>2. InputOrder'
    <3>1. DOMAIN (input') = {} /\ serve'.at # "reading"
      BY <2>1
    <3>2. \A x \in Requests : client'.seen[x] = "unused" => request'[x].at = "none"
      BY <1>0, <1>3, AskedOnce DEF InputOrder
    <3> QED
      BY <2>1, <3>1, <3>2 DEF InputOrder, Asked
  <2>3. Table'
    BY <1>4, <2>1 DEF Table
  <2>4. QuietAfter'
    BY <1>0, <1>1, <1>4, <2>1 DEF ServerInv, QuietAfter
  <2>5. ServerTypes'
    <3>1. <<>> \in Seq(Frames) /\ <<>> \in Seq(Requests)
      OBVIOUS
    <3>2. serve' \in Loops /\ tombstones' \in Memories
      BY <2>1, <3>1 DEF Loops, Memories, NoTombstones
    <3> QED
      BY <1>0, <1>1, <1>3, <2>1, <3>1, <3>2 DEF ServerTypes
  <2>6. LawfulClientIsServed'
    BY <2>1 DEF LawfulClientIsServed
  <2> QED
    BY <1>3, <1>5, <2>2, <2>3, <2>4, <2>5, <2>6 DEF ServerInv
<1> QED
  BY <1>6, <1>7

(* registerRequest keeps the invariant.                                    *)
LEMMA RegisterKeeps ==
  ASSUME ServerInv, registerRequest
  PROVE  ServerInv'
<1> DEFINE r == [Unused EXCEPT !.method = Head(input).method]
           b == [r EXCEPT !.at = "begin"]
           d == [r EXCEPT !.at = "done", !.answer = "limited"]
<1>1. Reads("request") /\ UNCHANGED broken /\ Head(input).method \in Methods
  BY AskedOnce DEF registerRequest, ServerInv
<1>2. /\ b \in RequestStates /\ b.at = "begin" /\ d \in RequestStates /\ d.at = "done"
      /\ ~b.leader /\ ~b.group /\ ~b.slot /\ b.credit = 0 /\ b.method = Head(input).method
      /\ ~d.leader /\ ~d.group /\ ~d.slot /\ d.credit = 0 /\ d.method = Head(input).method
  BY <1>1 DEF RequestStates, Unused, Places, AnswerKinds
<1>3. r.method = Head(input).method
  BY DEF Unused
<1>4. \/ /\ ~Limited(r.method) /\ Goes
         /\ active' = active \union {Id}
         /\ request' = [request EXCEPT ![Id] = b]
         /\ UNCHANGED <<client, tombstones>>
      \/ /\ request' = [request EXCEPT ![Id] = d]
         /\ \/ /\ client' = [client EXCEPT !.seen[Id] = "ended"]
               /\ tombstones' = addTombstone(Id) /\ Goes
            \/ Stops("closing", "write") /\ UNCHANGED client
         /\ UNCHANGED active
  BY DEF registerRequest
<1> HIDE DEF r, b, d
<1>5. CASE /\ ~Limited(r.method) /\ Goes
           /\ active' = active \union {Id}
           /\ request' = [request EXCEPT ![Id] = b]
           /\ UNCHANGED <<client, tombstones>>
  <2>1. Enters(b)
    BY <1>2, <1>5 DEF Enters
  <2> QED
    BY <1>1, <1>2, <1>3, <1>5, <2>1, AdmittedKeeps
<1>6. CASE /\ request' = [request EXCEPT ![Id] = d]
           /\ \/ /\ client' = [client EXCEPT !.seen[Id] = "ended"]
                 /\ tombstones' = addTombstone(Id) /\ Goes
              \/ Stops("closing", "write") /\ UNCHANGED client
           /\ UNCHANGED active
  <2>1. Enters(d)
    BY <1>2, <1>6 DEF Enters
  <2> QED
    BY <1>1, <1>2, <1>6, <2>1, RefusedKeeps
<1> QED
  BY <1>4, <1>5, <1>6

(* Frames of the client that ask for nothing keep the invariant.           *)
LEMMA SendKeeps ==
  ASSUME ServerInv, serve.at = "reading", NEW frames \in Seq(Frames), input' = input \o frames,
         \A k \in DOMAIN frames : frames[k].kind \notin {"request", "credit"},
         \A k \in DOMAIN frames : \A id \in Requests :
           IsAbout(frames[k], id) => client.seen[id] # "unused",
         client' \in Clients, client'.seen = client.seen, client'.shut = client.shut,
         broken' \in BOOLEAN, UNCHANGED <<serve, active, tombstones, request>>
  PROVE  ServerInv'
<1>0. /\ ServerTypes /\ InputOrder /\ CreditIsOne /\ Table /\ input \in Seq(Frames)
      /\ request \in [Requests -> RequestStates]
  BY DEF ServerInv, ServerTypes
<1>1. SameAsk /\ Touched
  BY <1>0 DEF SameAsk, Touched
<1>2. InputOrder'
  BY <1>0, <1>1, OrderGrows
<1>3. CreditIsOne'
  <2>1. \A x \in Requests : request'[x].credit \in Nat /\ request'[x].credit <= request[x].credit
    BY <1>0 DEF RequestStates
  <2> QED
    BY <1>0, <2>1, CreditKept
<1>4. /\ Stages' /\ Limits' /\ Goroutines' = Goroutines
  BY <1>1, TouchedKeeps
<1>5. Table'
  BY <1>0 DEF Table
<1>6. QuietAfter'
  BY <1>4 DEF ServerInv, QuietAfter
<1>7. ServerTypes'
  <2>1. input' \in Seq(Frames)
    BY <1>0, JoinOf
  <2> QED
    BY <1>0, <2>1 DEF ServerTypes
<1>8. LawfulClientIsServed'
  BY DEF ServerInv, LawfulClientIsServed
<1> QED
  BY <1>2, <1>3, <1>4, <1>5, <1>6, <1>7, <1>8 DEF ServerInv

(* A cancel, typed input, a shutdown and the end of the connection.        *)
LEMMA ClientKeeps ==
  ASSUME ServerInv,
         \/ \E id \in Requests : SendCancel(id) \/ SendInput(id)
         \/ SendShutdown \/ ClientGoes
  PROVE  ServerInv'
<1>0. /\ ServerTypes /\ InputOrder /\ CreditIsOne /\ Table /\ input \in Seq(Frames)
      /\ request \in [Requests -> RequestStates] /\ client \in Clients /\ broken \in BOOLEAN
  BY DEF ServerInv, ServerTypes
<1>1. /\ \A id \in Requests : \A k \in About :
           Frame(k, id) \in Frames /\ Frame(k, id).kind = k
           /\ \A x : IsAbout(Frame(k, id), x) => x = id
      /\ \A k \in {"shutdown", "eof"} :
           Frame(k, "none") \in Frames /\ Frame(k, "none").kind = k
           /\ \A x : ~IsAbout(Frame(k, "none"), x)
  BY DEF Frame, Frames, About, IsAbout
<1>2. ASSUME NEW id \in Requests, SendCancel(id) PROVE ServerInv'
  <2>1. /\ client' \in Clients /\ client'.seen = client.seen /\ client'.shut = client.shut
        /\ client.seen[id] # "unused"
    <3>1. /\ client.cancelled \cup {id} \in SUBSET Requests /\ client.cancels + 1 \in Nat
          /\ client.seen[id] # "unused"
      <4>1. client.cancelled \in SUBSET Requests /\ client.cancels \in Nat
        BY <1>0 DEF Clients
      <4>2. client.seen[id] \in {"sent", "accepted"}
        BY <1>2 DEF SendCancel
      <4> QED
        BY <4>1, <4>2
    <3>2. client' = [client EXCEPT !.cancelled = client.cancelled \cup {id},
                                   !.cancels = client.cancels + 1]
      BY <1>2 DEF SendCancel
    <3> QED
      BY <1>0, <3>1, <3>2 DEF Clients
  <2> DEFINE frames == <<Frame("cancel", id)>>
  <2>2. /\ frames \in Seq(Frames) /\ DOMAIN frames = {1} /\ frames[1] = Frame("cancel", id)
        /\ "cancel" \in About
    BY <1>1 DEF About
  <2>3. /\ input' = input \o frames /\ serve.at = "reading"
        /\ UNCHANGED <<serve, active, tombstones, request, broken>>
    BY <1>2 DEF SendCancel, Sends
  <2> HIDE DEF frames
  <2>4. \A k \in DOMAIN frames : /\ frames[k].kind \notin {"request", "credit"}
          /\ \A x \in Requests : IsAbout(frames[k], x) => client.seen[x] # "unused"
    BY <1>1, <2>1, <2>2
  <2> QED
    BY <1>0, <2>1, <2>2, <2>3, <2>4, SendKeeps
<1>3. ASSUME NEW id \in Requests, SendInput(id) PROVE ServerInv'
  <2>1. /\ client' \in Clients /\ client'.seen = client.seen /\ client'.shut = client.shut
        /\ client.seen[id] # "unused"
    BY <1>0, <1>3 DEF SendInput, Clients
  <2>2. PICK n \in 1 .. MaxControls + 1 : Sends([k \in 1..n |-> Frame("input", id)])
    BY <1>3 DEF SendInput
  <2> DEFINE frames == [k \in 1..n |-> Frame("input", id)]
  <2>3. n \in Nat /\ "input" \in About
    BY ServerBounds DEF About
  <2>4. /\ frames \in Seq(Frames) /\ \A k \in DOMAIN frames : frames[k] = Frame("input", id)
    BY <1>1, <2>3
  <2>5. /\ input' = input \o frames /\ serve.at = "reading"
        /\ UNCHANGED <<serve, active, tombstones, request, broken>>
    BY <1>3, <2>2 DEF SendInput, Sends
  <2> HIDE DEF frames
  <2>6. \A k \in DOMAIN frames : /\ frames[k].kind \notin {"request", "credit"}
          /\ \A x \in Requests : IsAbout(frames[k], x) => client.seen[x] # "unused"
    BY <1>1, <2>1, <2>3, <2>4
  <2> QED
    BY <1>0, <2>1, <2>4, <2>5, <2>6, SendKeeps
<1>4. CASE SendShutdown
  <2>1. /\ client' \in Clients /\ client'.seen = client.seen /\ client'.shut = client.shut
    BY <1>0, <1>4 DEF SendShutdown, Clients
  <2> DEFINE frames == <<Frame("shutdown", "none")>>
  <2>2. frames \in Seq(Frames) /\ DOMAIN frames = {1} /\ frames[1] = Frame("shutdown", "none")
    BY <1>1
  <2>3. /\ input' = input \o frames /\ serve.at = "reading"
        /\ UNCHANGED <<serve, active, tombstones, request, broken>>
    BY <1>4 DEF SendShutdown, Sends
  <2> HIDE DEF frames
  <2>4. \A k \in DOMAIN frames : /\ frames[k].kind \notin {"request", "credit"}
          /\ \A x \in Requests : IsAbout(frames[k], x) => client.seen[x] # "unused"
    BY <1>1, <2>2
  <2> QED
    BY <1>0, <2>1, <2>2, <2>3, <2>4, SendKeeps
<1>5. CASE ClientGoes /\ serve.at = "reading"
  <2>1. /\ client' \in Clients /\ client'.seen = client.seen /\ client'.shut = client.shut
        /\ broken' = TRUE
    BY <1>0, <1>5 DEF ClientGoes, Clients
  <2> DEFINE frames == <<Frame("eof", "none")>>
  <2>2. frames \in Seq(Frames) /\ DOMAIN frames = {1} /\ frames[1] = Frame("eof", "none")
    BY <1>1
  <2>3. input' = input \o frames /\ UNCHANGED <<serve, active, tombstones, request>>
    <3>1. input' = Append(input, Frame("eof", "none"))
      BY <1>5 DEF ClientGoes
    <3>2. Append(input, Frame("eof", "none")) = input \o frames
      BY <1>0, <1>1
    <3> QED
      BY <1>5, <3>1, <3>2 DEF ClientGoes
  <2> HIDE DEF frames
  <2>4. \A k \in DOMAIN frames : /\ frames[k].kind \notin {"request", "credit"}
          /\ \A x \in Requests : IsAbout(frames[k], x) => client.seen[x] # "unused"
    BY <1>1, <2>2
  <2> QED
    BY <1>0, <1>5, <2>1, <2>2, <2>3, <2>4, SendKeeps
<1>6. CASE ClientGoes /\ serve.at # "reading"
  <2>1. /\ client' \in Clients /\ client'.seen = client.seen /\ client'.shut = client.shut
        /\ broken' = TRUE /\ UNCHANGED <<input, serve, active, tombstones, request>>
    BY <1>0, <1>6 DEF ClientGoes, Clients
  <2>2. SameAsk /\ Touched
    BY <1>0, <2>1 DEF SameAsk, Touched
  <2>3. InputOrder' /\ CreditIsOne' /\ Table'
    BY <1>0, <2>1, <2>2, OrderKept DEF CreditIsOne, Table
  <2>4. Stages' /\ Limits' /\ Goroutines' = Goroutines
    BY <2>1, <2>2, TouchedKeeps
  <2>5. QuietAfter' /\ LawfulClientIsServed' /\ ServerTypes'
    BY <1>0, <2>1, <2>4 DEF ServerInv, QuietAfter, LawfulClientIsServed, ServerTypes
  <2> QED
    BY <2>3, <2>4, <2>5 DEF ServerInv
<1> QED
  BY <1>2, <1>3, <1>4, <1>5, <1>6

(* An identity is drawn: no frame is about it yet, then one asks for it,   *)
(* and the credit of a process follows.                                    *)
LEMMA AskKeeps ==
  ASSUME ServerInv, NEW id \in Requests, NEW m \in Methods, SendRequest(id, m)
  PROVE  ServerInv'
<1> DEFINE ask == [Frame("request", id) EXCEPT !.method = m]
           frames == <<ask>> \o IF m \in {"bash", "terminal"} THEN <<Frame("credit", id)>> ELSE <<>>
<1>0. /\ ServerTypes /\ InputOrder /\ CreditIsOne /\ Table /\ input \in Seq(Frames)
      /\ request \in [Requests -> RequestStates] /\ client \in Clients
  BY DEF ServerInv, ServerTypes
<1>1. /\ serve.at = "reading" /\ input' = input \o frames /\ client.seen[id] = "unused"
      /\ UNCHANGED <<serve, active, tombstones, request, broken>>
      /\ client' = [client EXCEPT !.seen[id] = "sent"]
  BY DEF SendRequest, Sends
<1>2. /\ client' \in Clients /\ client'.shut = client.shut
      /\ client'.seen[id] = "sent"
      /\ \A x \in Requests : x # id => client'.seen[x] = client.seen[x]
  BY <1>0, <1>1 DEF Clients
<1>3. /\ ask \in Frames /\ IsRequest(ask, id) /\ ask.method = m
      /\ Frame("credit", id) \in Frames /\ IsCredit(Frame("credit", id), id)
      /\ \A x : IsAbout(ask, x) => x = id
      /\ \A x : IsAbout(Frame("credit", id), x) => x = id
      /\ ask.kind = "request" /\ Frame("credit", id).kind = "credit"
      /\ Frame("credit", id).id = id /\ ask.id = id
  BY DEF Frame, Frames, About, IsRequest, IsAbout, IsCredit
<1> HIDE DEF ask
<1>4. /\ frames \in Seq(Frames) /\ 1 \in DOMAIN frames /\ frames[1] = ask
      /\ \A k \in DOMAIN frames : k = 1 \/ (k = 2 /\ frames[k] = Frame("credit", id))
  <2> DEFINE first == <<ask>>
             rest == IF m \in {"bash", "terminal"} THEN <<Frame("credit", id)>> ELSE <<>>
  <2>1. /\ rest \in Seq(Frames)
        /\ \A k \in DOMAIN rest : k = 1 /\ rest[k] = Frame("credit", id)
    BY <1>3
  <2>2. frames = first \o rest
    OBVIOUS
  <2>3. first \in Seq(Frames) /\ DOMAIN first = {1} /\ first[1] = ask /\ Len(first) = 1
    BY <1>3
  <2> HIDE DEF frames, first, rest
  <2>4. /\ first \o rest \in Seq(Frames) /\ DOMAIN first \subseteq DOMAIN (first \o rest)
        /\ \A i \in DOMAIN first : (first \o rest)[i] = first[i]
        /\ \A k \in DOMAIN rest : (first \o rest)[Len(first) + k] = rest[k]
        /\ \A j \in DOMAIN (first \o rest) :
             j \in DOMAIN first \/ \E k \in DOMAIN rest : j = Len(first) + k
    BY <2>1, <2>3, JoinOf
  <2> QED
    BY <2>1, <2>2, <2>3, <2>4
<1> HIDE DEF frames
<1>5. /\ input' \in Seq(Frames)
      /\ DOMAIN input \subseteq DOMAIN (input') /\ DOMAIN input \subseteq Nat
      /\ \A i \in DOMAIN input : (input')[i] = input[i]
      /\ Len(input) + 1 \in DOMAIN (input') /\ (input')[Len(input) + 1] = ask
      /\ \A j \in DOMAIN (input') : /\ j \in Nat
           /\ \/ j \in DOMAIN input
              \/ j = Len(input) + 1 /\ (input')[j] = ask
              \/ j = Len(input) + 2 /\ (input')[j] = Frame("credit", id)
      /\ Len(input) \in Nat
  <2>1. /\ input \o frames \in Seq(Frames)
        /\ DOMAIN input \subseteq DOMAIN (input \o frames) /\ DOMAIN input \subseteq Nat
        /\ \A i \in DOMAIN input : (input \o frames)[i] = input[i]
        /\ \A k \in DOMAIN frames : /\ Len(input) + k \in DOMAIN (input \o frames)
                                    /\ (input \o frames)[Len(input) + k] = frames[k]
        /\ \A j \in DOMAIN (input \o frames) : /\ j \in Nat
             /\ (j \in DOMAIN input \/ \E k \in DOMAIN frames : j = Len(input) + k)
    BY <1>0, <1>4, JoinOf
  <2>2. Len(input) \in Nat
    BY <1>0
  <2>3. ASSUME NEW j \in DOMAIN (input \o frames)
        PROVE  \/ j \in DOMAIN input
               \/ j = Len(input) + 1 /\ (input \o frames)[j] = ask
               \/ j = Len(input) + 2 /\ (input \o frames)[j] = Frame("credit", id)
    BY <1>4, <2>1
  <2> QED
    BY <1>1, <1>4, <2>1, <2>2, <2>3
<1>6. /\ request[id].at = "none" /\ \A i \in DOMAIN input : ~IsAbout(input[i], id)
      /\ request[id].credit = 0
  <2>1. request[id].at = "none" /\ \A i \in DOMAIN input : ~IsAbout(input[i], id)
    BY <1>0, <1>1 DEF InputOrder
  <2>2. request[id] = Unused
    BY <2>1 DEF ServerInv, Stages, StageOf
  <2> QED
    BY <2>1, <2>2 DEF Unused
<1>7. \A i \in DOMAIN input : ~IsRequest(input[i], id) /\ ~IsCredit(input[i], id)
  BY <1>6 DEF IsAbout, IsRequest, IsCredit, About
<1>8. InputOrder'
  <2>1. ASSUME NEW x \in Requests, x # id, NEW j \in DOMAIN (input'), IsAbout((input')[j], x)
        PROVE  j \in DOMAIN input /\ (input')[j] = input[j]
    BY <1>3, <1>5, <2>1
  <2>2. \A f : \A x : IsRequest(f, x) => IsAbout(f, x)
    BY DEF IsRequest, IsAbout, About
  <2>3. ASSUME NEW x \in Requests, x # id PROVE Asked(x)' <=> Asked(x)
    BY <1>5, <2>1, <2>2, <2>3 DEF Asked
  <2>4. ASSUME NEW j \in DOMAIN (input'), IsRequest((input')[j], id)
        PROVE  j = Len(input) + 1
    BY <1>3, <1>5, <1>7, <2>4 DEF IsRequest
  <2>5. ASSUME NEW j \in DOMAIN (input'), IsAbout((input')[j], id)
        PROVE  /\ Len(input) + 1 <= j /\ Len(input) + 1 \in DOMAIN (input')
               /\ IsRequest((input')[Len(input) + 1], id)
    <3>1. j \notin DOMAIN input
      BY <1>5, <1>6, <2>5
    <3>2. j = Len(input) + 1 \/ j = Len(input) + 2
      BY <1>5, <3>1
    <3>3. Len(input) \in Nat /\ Len(input) + 1 \in DOMAIN (input')
          /\ (input')[Len(input) + 1] = ask
      BY <1>5
    <3>4. Len(input) + 1 <= j
      BY <3>2, <3>3
    <3> QED
      BY <1>3, <3>3, <3>4
  <2>6. ASSUME NEW x \in Requests, NEW i \in DOMAIN (input'), NEW j \in DOMAIN (input'),
               IsRequest((input')[i], x), IsRequest((input')[j], x)
        PROVE  i = j
    <3>1. CASE x = id
      BY <2>4, <2>6, <3>1
    <3>2. CASE x # id
      <4>1. /\ i \in DOMAIN input /\ j \in DOMAIN input
            /\ IsRequest(input[i], x) /\ IsRequest(input[j], x)
        BY <2>1, <2>2, <2>6, <3>2
      <4> QED
        BY <1>0, <4>1 DEF InputOrder
    <3> QED
      BY <3>1, <3>2
  <2>7. ASSUME NEW x \in Requests, request'[x].at = "none",
               NEW j \in DOMAIN (input'), IsAbout((input')[j], x)
        PROVE  \E i \in DOMAIN (input') : i <= j /\ IsRequest((input')[i], x)
    <3>1. CASE x = id
      BY <2>5, <2>7, <3>1
    <3>2. CASE x # id
      <4>1. j \in DOMAIN input /\ IsAbout(input[j], x) /\ request[x].at = "none"
        BY <1>1, <2>1, <2>7, <3>2
      <4>2. PICK i \in DOMAIN input : i <= j /\ IsRequest(input[i], x)
        BY <1>0, <4>1 DEF InputOrder
      <4> QED
        BY <1>5, <4>2
    <3> QED
      BY <3>1, <3>2
  <2>8. \A i \in DOMAIN (input') : (input')[i].kind = "request" => (input')[i].method \in Methods
    BY <1>0, <1>3, <1>5 DEF InputOrder
  <2>9. ASSUME NEW x \in Requests, client'.seen[x] = "unused"
        PROVE  request'[x].at = "none" /\ \A i \in DOMAIN (input') : ~IsAbout((input')[i], x)
    <3>1. x # id /\ client.seen[x] = "unused"
      BY <1>2, <2>9
    <3>2. request[x].at = "none" /\ \A i \in DOMAIN input : ~IsAbout(input[i], x)
      BY <1>0, <3>1 DEF InputOrder
    <3> QED
      BY <1>1, <2>1, <3>1, <3>2
  <2>10. ASSUME NEW x \in Requests, client'.seen[x] # "unused"
         PROVE  request'[x].at # "none" \/ Asked(x)'
    <3>1. CASE x = id
      BY <1>3, <1>5, <3>1 DEF Asked
    <3>2. CASE x # id
      BY <1>0, <1>1, <1>2, <2>3, <2>10, <3>2 DEF InputOrder
    <3> QED
      BY <3>1, <3>2
  <2>11. ASSUME NEW x \in Requests, Asked(x)' PROVE request'[x].at = "none"
    <3>1. CASE x = id
      BY <1>1, <1>6, <3>1
    <3>2. CASE x # id
      BY <1>0, <1>1, <2>3, <2>11, <3>2 DEF InputOrder
    <3> QED
      BY <3>1, <3>2
  <2>12. serve'.at = "reading"
    BY <1>1
  <2> QED
    BY <2>6, <2>7, <2>8, <2>9, <2>10, <2>11, <2>12 DEF InputOrder
<1>9. CreditIsOne'
  <2>1. ASSUME NEW x \in Requests, NEW j \in DOMAIN (input'), IsCredit((input')[j], x)
        PROVE  \/ x = id /\ j = Len(input) + 2
               \/ x # id /\ j \in DOMAIN input /\ (input')[j] = input[j]
    <3>1. \/ j \in DOMAIN input /\ (input')[j] = input[j]
          \/ (input')[j] = ask
          \/ j = Len(input) + 2 /\ (input')[j] = Frame("credit", id)
      BY <1>5
    <3>2. ~IsCredit(ask, x)
      BY <1>3 DEF IsCredit
    <3>3. IsCredit(Frame("credit", id), x) => x = id
      BY <1>3 DEF IsCredit
    <3>4. j \in DOMAIN input => ~IsCredit(input[j], id)
      BY <1>7
    <3> QED
      BY <2>1, <3>1, <3>2, <3>3, <3>4
  <2>2. \A x \in Requests : request'[x] = request[x]
    BY <1>1
  <2>3. ASSUME NEW x \in Requests, NEW j \in DOMAIN (input'), IsCredit((input')[j], x)
        PROVE  request'[x].credit = 0
    BY <1>0, <1>6, <2>1, <2>2, <2>3 DEF CreditIsOne
  <2>4. ASSUME NEW x \in Requests, NEW i \in DOMAIN (input'), NEW j \in DOMAIN (input'),
               IsCredit((input')[i], x), IsCredit((input')[j], x)
        PROVE  i = j
    BY <1>0, <2>1, <2>4 DEF CreditIsOne
  <2>5. \A x \in Requests : request'[x].credit <= 1
    BY <1>0, <2>2 DEF CreditIsOne
  <2> QED
    BY <2>3, <2>4, <2>5 DEF CreditIsOne
<1>10. Touched
  BY <1>0, <1>1 DEF Touched
<1>11. Stages' /\ Limits' /\ Goroutines' = Goroutines
  BY <1>1, <1>2, <1>10, TouchedKeeps
<1>12. Table'
  BY <1>0, <1>1 DEF Table
<1>13. QuietAfter' /\ LawfulClientIsServed' /\ ServerTypes'
  BY <1>0, <1>1, <1>2, <1>5, <1>11 DEF ServerInv, QuietAfter, LawfulClientIsServed, ServerTypes
<1> QED
  BY <1>8, <1>9, <1>11, <1>12, <1>13 DEF ServerInv

(* A step of the loop that reads nothing keeps the invariant.              *)
LEMMA LoopKeeps ==
  ASSUME ServerInv, Touched, \A x \in Requests : request'[x].credit = request[x].credit,
         input' = input, serve.at # "reading", serve'.at \notin {"reading", "draining"},
         serve' \in Loops, serve'.fault = serve.fault,
         client' \in Clients, client'.seen = client.seen,
         client'.shut \/ serve'.at = "returned" =>
           client.shut \/ serve.at = "returned" \/ Goroutines = {},
         broken' \in BOOLEAN, UNCHANGED <<active, tombstones>>
  PROVE  ServerInv'
<1>0. ServerTypes /\ InputOrder /\ CreditIsOne /\ Table
  BY DEF ServerInv
<1>1. SameAsk
  BY DEF SameAsk, Touched
<1>2. InputOrder'
  <2>1. serve'.at = "reading" <=> serve.at = "reading"
    OBVIOUS
  <2> QED
    BY <1>0, <1>1, <2>1, OrderKept
<1>3. CreditIsOne'
  <2>1. \A x \in Requests : request'[x].credit \in Nat /\ request'[x].credit <= request[x].credit
    BY <1>0 DEF ServerTypes, RequestStates
  <2> QED
    BY <1>0, <2>1, CreditKept
<1>4. /\ Stages' /\ Limits' /\ Goroutines' = Goroutines
      /\ \A x \in Requests : x \in active' <=> request'[x].at \notin {"none", "answer", "done"}
  BY TouchedKeeps
<1>5. Table'
  BY <1>4 DEF Table
<1>6. QuietAfter'
  BY <1>4 DEF ServerInv, QuietAfter
<1>7. ServerTypes'
  BY <1>0 DEF ServerTypes, Touched
<1>8. LawfulClientIsServed'
  BY DEF ServerInv, LawfulClientIsServed
<1> QED
  BY <1>2, <1>3, <1>4, <1>5, <1>6, <1>7, <1>8 DEF ServerInv

(* The shutdown, its answer, the end of the input and the return.          *)
LEMMA ServeKeeps ==
  ASSUME ServerInv,
         ShutdownBegins \/ ShutdownAnswers \/ InputEnds \/ ServeCloses \/ ServeReturns
  PROVE  ServerInv'
<1>0. /\ request \in [Requests -> RequestStates] /\ client \in Clients /\ serve \in Loops
      /\ broken \in BOOLEAN
  BY DEF ServerInv, ServerTypes
<1>1. UNCHANGED request => Touched /\ \A x \in Requests : request'[x].credit = request[x].credit
  BY <1>0 DEF Touched
<1>2. request' = Cancelled(Requests) =>
        Touched /\ \A x \in Requests : request'[x].credit = request[x].credit
  BY CancelledTouches
<1>3. \A l : l \in {"closing", "waiting", "returned"} =>
        LET s == [serve EXCEPT !.at = l] IN s \in Loops /\ s.at = l /\ s.fault = serve.fault
  BY <1>0 DEF Loops
<1>4. CASE ShutdownBegins
  <2>1. /\ serve.at = "reading" /\ Stops("draining", "none") /\ request' = Cancelled(Requests)
        /\ UNCHANGED <<client, active, broken>>
    BY <1>4 DEF ShutdownBegins, Reads
  <2> QED
    BY <1>2, <2>1, StopKeeps
<1>5. CASE ShutdownAnswers
  <2>1. /\ serve.at = "draining" /\ Goroutines = {} /\ serve' = [serve EXCEPT !.at = "closing"]
        /\ client' = [client EXCEPT !.shut = ~broken]
        /\ UNCHANGED <<input, active, tombstones, request, broken>>
    BY <1>5 DEF ShutdownAnswers, AllDone
  <2>2. client' \in Clients /\ client'.seen = client.seen
    BY <1>0, <2>1 DEF Clients
  <2>3. serve' \in Loops /\ serve'.at = "closing" /\ serve'.fault = serve.fault
    BY <1>3, <2>1
  <2> QED
    BY <1>0, <1>1, <2>1, <2>2, <2>3, LoopKeeps
<1>6. CASE InputEnds
  <2>1. PICK f \in {"none", "write"} : Stops("closing", f)
    BY <1>6 DEF InputEnds
  <2>2. serve.at = "reading" /\ UNCHANGED <<client, active, request, broken>>
    BY <1>6 DEF InputEnds
  <2> QED
    BY <1>1, <2>1, <2>2, StopKeeps
<1>7. CASE ServeCloses
  <2>1. /\ serve.at = "closing" /\ request' = Cancelled(Requests) /\ broken' = TRUE
        /\ serve' = [serve EXCEPT !.at = "waiting"]
        /\ UNCHANGED <<input, client, active, tombstones>>
    BY <1>7 DEF ServeCloses
  <2>2. serve' \in Loops /\ serve'.at = "waiting" /\ serve'.fault = serve.fault
    BY <1>3, <2>1
  <2> QED
    BY <1>0, <1>2, <2>1, <2>2, LoopKeeps
<1>8. CASE ServeReturns
  <2>1. /\ serve.at = "waiting" /\ Goroutines = {} /\ serve' = [serve EXCEPT !.at = "returned"]
        /\ UNCHANGED <<input, client, active, tombstones, request, broken>>
    BY <1>8 DEF ServeReturns
  <2>2. serve' \in Loops /\ serve'.at = "returned" /\ serve'.fault = serve.fault
    BY <1>3, <2>1
  <2> QED
    BY <1>0, <1>1, <2>1, <2>2, LoopKeeps
<1> QED
  BY <1>4, <1>5, <1>6, <1>7, <1>8

(* A tombstone that is pruned is remembered as forgotten.                  *)
LEMMA PruneKeeps ==
  ASSUME ServerInv, pruneTombstones
  PROVE  ServerInv'
<1>0. /\ ServerTypes /\ Table /\ tombstones \in Memories /\ tombstones.queue \in Seq(Requests)
      /\ tombstones.queue # <<>> /\ tombstones' = Pruned
      /\ UNCHANGED <<input, client, serve, active, request, broken>>
  BY DEF ServerInv, ServerTypes, Memories, pruneTombstones
<1>1. /\ Head(tombstones.queue) \in Requests /\ Tail(tombstones.queue) \in Seq(Requests)
      /\ Range(tombstones.queue) = Range(Tail(tombstones.queue)) \cup {Head(tombstones.queue)}
  BY <1>0, Remembering
<1>2. /\ tombstones' \in Memories
      /\ \A x : x \in Range(tombstones.queue) \/ x \in tombstones.forgotten =>
           x \in Range(tombstones'.queue) \/ x \in tombstones'.forgotten
  BY <1>0, <1>1 DEF Pruned, Memories
<1>3. Table'
  BY <1>0, <1>2 DEF Table
<1>4. ServerTypes'
  BY <1>0, <1>2 DEF ServerTypes
<1>5. InputOrder' /\ CreditIsOne'
  BY <1>0 DEF ServerInv, InputOrder, Asked, CreditIsOne
<1>6. Stages' /\ Limits'
  BY <1>0 DEF ServerInv, Stages, Limits, Processes, IsProcess
<1>7. QuietAfter' /\ LawfulClientIsServed'
  BY <1>0 DEF ServerInv, QuietAfter, Goroutines, LawfulClientIsServed
<1> QED
  BY <1>3, <1>4, <1>5, <1>6, <1>7 DEF ServerInv

-----------------------------------------------------------------------------
(* The invariant and what follows from it                                  *)

(* A helper starts with nothing read, registered or remembered.            *)
LEMMA ServerStarts == ServerInit => ServerInv
<1> SUFFICES ASSUME ServerInit PROVE ServerInv
  OBVIOUS
<1>1. /\ input = <<>> /\ DOMAIN input = {} /\ active = {} /\ broken = FALSE
      /\ serve = [at |-> "reading", fault |-> "none"]
      /\ tombstones = [queue |-> <<>>, forgotten |-> {}]
      /\ client = [seen |-> [id \in Requests |-> "unused"], cancelled |-> {}, cancels |-> 0,
                   fed |-> {}, gone |-> FALSE, asked |-> FALSE, shut |-> FALSE]
      /\ request = [id \in Requests |-> Unused]
  BY DEF ServerInit, NoTombstones
<1>2. \A id \in Requests : request[id] = Unused /\ client.seen[id] = "unused"
  BY <1>1
<1>3. /\ Unused \in RequestStates /\ Unused.at = "none" /\ Unused.credit = 0 /\ ~Unused.slot
      /\ ~Unused.leader /\ ~Unused.group
  BY DEF Unused, RequestStates, Places, AnswerKinds
<1>4. ServerTypes
  <2>1. <<>> \in Seq(Frames) /\ <<>> \in Seq(Requests)
    OBVIOUS
  <2>2. client \in Clients
    BY <1>1 DEF Clients
  <2>3. serve \in Loops /\ tombstones \in Memories /\ request \in [Requests -> RequestStates]
    BY <1>1, <1>3, <2>1 DEF Loops, Memories
  <2> QED
    BY <1>1, <2>1, <2>2, <2>3 DEF ServerTypes
<1>5. InputOrder /\ CreditIsOne
  <2>1. InputOrder
    BY <1>1, <1>2, <1>3 DEF InputOrder, Asked
  <2> QED
    BY <1>1, <1>2, <1>3, <2>1 DEF CreditIsOne
<1>6. Table /\ Stages
  BY <1>1, <1>2, <1>3 DEF Table, Stages, StageOf, Running, Over
<1>7. Limits
  <2>1. Processes = {}
    BY <1>1 DEF Processes
  <2>2. /\ IsFiniteSet({}) /\ Cardinality({}) = 0
        /\ MaxProcesses \in Nat /\ MaxRequests \in Nat
    BY FS_EmptySet, ServerBounds
  <2> QED
    BY <1>1, <1>2, <1>3, <2>1, <2>2 DEF Limits
<1>8. QuietAfter /\ LawfulClientIsServed
  BY <1>1 DEF QuietAfter, LawfulClientIsServed
<1> QED
  BY <1>4, <1>5, <1>6, <1>7, <1>8 DEF ServerInv

(* Every step keeps the invariant.                                         *)
LEMMA ServerStep == ServerInv /\ [ServerNext]_serverVars => ServerInv'
<1> SUFFICES ASSUME ServerInv, [ServerNext]_serverVars PROVE ServerInv'
  OBVIOUS
<1>1. CASE \E id \in Requests, m \in Methods : SendRequest(id, m)
  BY <1>1, AskKeeps
<1>2. CASE \/ \E id \in Requests : SendCancel(id) \/ SendInput(id)
           \/ SendShutdown \/ ClientGoes
  BY <1>2, ClientKeeps
<1>3. CASE registerRequest
  BY <1>3, RegisterKeeps
<1>4. CASE cancelRequest \/ pushCredit \/ pushTerminal
  BY <1>4, LookupKeeps
<1>5. CASE ShutdownBegins \/ ShutdownAnswers \/ InputEnds \/ ServeCloses \/ ServeReturns
  BY <1>5, ServeKeeps
<1>6. CASE pruneTombstones
  BY <1>6, PruneKeeps
<1>7. CASE \E id \in Requests : RequestStep(id)
  <2>1. PICK id \in Requests : RequestStep(id)
    BY <1>7
  <2>2. CASE WithinStep(id)
    BY <2>2, WithinKeeps
  <2>3. CASE completeRequest(id)
    BY <2>3, CompleteKeeps
  <2>4. CASE writeAnswer(id)
    BY <2>4, AnswerKeeps
  <2> QED
    BY <2>1, <2>2, <2>3, <2>4 DEF RequestStep, WithinStep
<1>8. CASE UNCHANGED serverVars
  <2>1. /\ input' = input /\ client' = client /\ serve' = serve /\ active' = active
        /\ tombstones' = tombstones /\ request' = request /\ broken' = broken
    BY <1>8 DEF serverVars
  <2>2. ServerTypes' /\ InputOrder' /\ CreditIsOne' /\ Table'
    BY <2>1 DEF ServerInv, ServerTypes, InputOrder, Asked, CreditIsOne, Table
  <2>3. Stages' /\ Limits'
    BY <2>1 DEF ServerInv, Stages, Limits, Processes, IsProcess
  <2>4. QuietAfter' /\ LawfulClientIsServed'
    BY <2>1 DEF ServerInv, QuietAfter, Goroutines, LawfulClientIsServed
  <2> QED
    BY <2>2, <2>3, <2>4 DEF ServerInv
<1> QED
  BY <1>1, <1>2, <1>3, <1>4, <1>5, <1>6, <1>7, <1>8 DEF ServerNext

(* The invariant holds in every state the helper reaches.                  *)
LEMMA ServerInvHolds == ServerSpec => []ServerInv
  BY ServerStarts, ServerStep, PTL DEF ServerSpec

(* The helper keeps its promise wherever the invariant holds.              *)
LEMMA ServerInvServes == ServerInv => RequestsAreServed
<1> SUFFICES ASSUME ServerInv PROVE RequestsAreServed
  OBVIOUS
<1>1. /\ ServerTypes /\ Table /\ Stages /\ Limits /\ QuietAfter /\ LawfulClientIsServed
      /\ request \in [Requests -> RequestStates] /\ active \in SUBSET Requests
  BY DEF ServerInv, ServerTypes
<1>2. ASSUME NEW id \in Requests
      PROVE  /\ request[id].at \in Over =>
                  /\ id \notin Alive
                  /\ request[id].answer = "cancelled" => ~request[id].group
             /\ client.seen[id] # "confused"
  <2>1. StageOf(request[id]) /\ client.seen[id] # "confused"
    BY <1>1 DEF Stages
  <2>2. request[id].at \in Over => ~request[id].leader
    BY <2>1 DEF StageOf, Over, Running
  <2>3. request[id].at \in Over => (request[id].answer = "cancelled" => ~request[id].group)
    BY <2>1 DEF StageOf
  <2> QED
    BY <2>1, <2>2, <2>3 DEF Alive
<1>3. Alive \subseteq Processes
  <2>1. ASSUME NEW id \in Alive PROVE id \in Processes
    <3>1. id \in Requests /\ request[id].leader
      BY DEF Alive
    <3>2. request[id].at \in Running /\ request[id].method \in {"bash", "terminal"}
      BY <1>1, <3>1 DEF Stages, StageOf
    <3>3. id \in active
      BY <1>1, <3>1, <3>2 DEF Table, Running
    <3> QED
      BY <3>2, <3>3 DEF Processes, IsProcess
  <2> QED
    BY <2>1
<1>4. /\ Cardinality(active) <= MaxRequests /\ Cardinality(Alive) <= MaxProcesses
      /\ \A id \in active : request[id].at \notin {"none", "answer", "done"}
  <2>1. IsFiniteSet(Processes)
    <3>1. Processes \subseteq active
      BY DEF Processes
    <3> QED
      BY <1>1, <3>1, FS_Subset DEF Limits
  <2>2. /\ IsFiniteSet(Alive) /\ Cardinality(Alive) <= Cardinality(Processes)
        /\ Cardinality(Alive) \in Nat /\ Cardinality(Processes) \in Nat
    BY <1>3, <2>1, FS_Subset, FS_CardinalityType
  <2> QED
    BY <1>1, <2>2, ServerBounds DEF Limits, Table
<1>5. Cardinality({id \in Requests : request[id].slot}) <= 1
  <2> DEFINE S == {id \in Requests : request[id].slot}
  <2>1. \A a, b \in S : a = b
    BY <1>1 DEF Limits
  <2> SUFFICES Cardinality(S) <= 1
    OBVIOUS
  <2> HIDE DEF S
  <2>2. CASE S = {}
    <3>1. Cardinality(S) = 0
      BY <2>2, FS_EmptySet
    <3> QED
      BY <3>1
  <2>3. CASE S # {}
    <3>1. PICK a : S = {a}
      BY <2>1, <2>3
    <3>2. Cardinality({a}) = 1
      BY FS_Singleton
    <3> QED
      BY <3>1, <3>2
  <2> QED
    BY <2>2, <2>3
<1>6. client.shut \/ serve.at = "returned" => Goroutines = {} /\ active = {} /\ Alive = {}
  <2> SUFFICES ASSUME client.shut \/ serve.at = "returned"
               PROVE  Goroutines = {} /\ active = {} /\ Alive = {}
    OBVIOUS
  <2>1. Goroutines = {}
    BY <1>1 DEF QuietAfter
  <2>2. active = {}
    BY <1>1, <2>1 DEF Table, Goroutines
  <2> QED
    BY <1>3, <2>1, <2>2 DEF Processes
<1> QED
  BY <1>1, <1>2, <1>4, <1>5, <1>6 DEF RequestsAreServed, RequestsEndCleanly, Over

(* Every state of the helper is of its types.                              *)
THEOREM ServerTypeCorrect == ServerSpec => []ServerTypes
<1>1. ServerInv => ServerTypes
  BY DEF ServerInv
<1> QED
  BY <1>1, ServerInvHolds, PTL

(* The helper keeps its promise to both sides, whatever the numbers of     *)
(* requests, processes, tombstones and credit: a request is answered once, *)
(* last, and after its leading process, or after the whole group of a Bash *)
(* that was cancelled; no more requests and processes run and no more      *)
(* blobs are held than allowed; a shutdown is answered, and Serve returns, *)
(* when every request is over; and the loop ends with a protocol error for *)
(* no frame that only crossed an answer (server.go:139-231, :474-582).     *)
THEOREM RequestsServed == ServerSpec => []RequestsAreServed
  BY ServerInvHolds, ServerInvServes, PTL
=============================================================================
