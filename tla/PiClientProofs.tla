---------------------------- MODULE PiClientProofs ----------------------------
(***************************************************************************)
(* Proofs about PiClient, for any number of callers, any room in the pipe  *)
(* and any number of tombstones.  A request is in the table exactly while  *)
(* its answer can still come, each request is in one place of the way to   *)
(* Pi and back, and the tombstones are the last cancelled calls: these say *)
(* which answers find nobody, and what an exit of Pi leaves unanswered.    *)
(***************************************************************************)
EXTENDS PiClient, FiniteSetTheorems, TLAPS

(* The items of a sequence, and that none of a set is in it twice.         *)
Items(s) == {s[i] : i \in 1 .. Len(s)}
Once(s, S) == \A i, j \in 1 .. Len(s) : s[i] = s[j] /\ s[i] \in S => i = j

(* What is on its way to Pi, in Pi, or on its way back.                    *)
InPipes == Items(inbox) \cup working \cup Items(stdout)

(* How far the end of the client is: done is closed by the one goroutine   *)
(* that runs finish, before the table is taken; and Pi has exited with its *)
(* stdout drained when wait is past it, unless another end came first.     *)
Ended ==
  /\ done <=> finisher # NoOne
  /\ swept => done /\ pending = {}
  /\ sweep # {} => swept
  /\ at["read"] = "kill" => swept
  /\ at["read"] = "end" /\ ~swept => ~alive /\ stdout = <<>>
  /\ at["wait"] # "waiting" => ~alive /\ at["read"] = "end"
  /\ finisher = "wait" => at["wait"] # "waiting"

(* The right to send on a result channel is with the table, the reader or  *)
(* finish, never with two of them, and the channel is empty until one used *)
(* it.                                                                     *)
Matched ==
  /\ \A c \in pending : /\ pc[c] \in {"writing", "inWrite", "waiting"}
                        /\ result[c] = <<>> /\ delivering # c
  /\ \A c \in sweep : pc[c] # "idle" /\ result[c] = <<>> /\ delivering # c
  /\ delivering # NoOne <=> at["read"] = "deliver"
  /\ delivering # NoOne => pc[delivering] # "idle" /\ result[delivering] = <<>>
  /\ \A c \in Callers : /\ pc[c] = "idle" => result[c] = <<>>
                        /\ ret[c] # "none" <=> pc[c] = "returned"

(* A request is in one place on the way to Pi and back; while it is there, *)
(* and while it is being written, it is in the table, unless the client    *)
(* ends or its call was cancelled.                                         *)
Carried ==
  /\ Once(inbox, Callers) /\ Once(stdout, calls)
  /\ Items(inbox) \cap working = {} /\ Items(inbox) \cap Items(stdout) = {}
  /\ working \cap Items(stdout) = {}
  /\ \A o \in InPipes \cap Callers : pc[o] \in {"waiting", "returned"}
  /\ \A c \in InPipes \cap calls : done \/ c \in pending \/ ret[c] = "cancelled"
  /\ \A c \in calls : pc[c] \in {"writing", "inWrite"} => done \/ c \in pending
  /\ \A c \in pending : c \in InPipes \/ pc[c] \in {"writing", "inWrite"}

(* The tombstones are cancelled calls, in the order of their cancellation; *)
(* a request on its way without one gave it up to MaxAbandoned others.     *)
Tombs ==
  /\ Once(abandonedOrder, calls) /\ Items(abandonedOrder) = abandoned
  /\ abandoned \subseteq Cancelled
  /\ IsFiniteSet(abandoned) /\ Cardinality(abandoned) = Len(abandonedOrder)

Outnumbered ==
  /\ IsFiniteSet(Cancelled)
  /\ \A c \in InPipes \cap Cancelled :
       done \/ c \in abandoned \/ Cardinality(Cancelled \ {c}) >= MaxAbandoned

Inv ==
  /\ TypeOK /\ Ended /\ Matched /\ Carried /\ Tombs /\ Outnumbered
  /\ ExitSweepsOnlyUnanswered
-----------------------------------------------------------------------------
(* Sequences *)

(* A record put at the end of a pipe is the one record added.              *)
LEMMA ItemsOfAppend ==
  ASSUME NEW T, NEW s \in Seq(T), NEW e \in T
  PROVE  /\ Append(s, e) \in Seq(T) /\ Len(Append(s, e)) = Len(s) + 1 /\ Append(s, e) # <<>>
         /\ Items(Append(s, e)) = Items(s) \cup {e}
         /\ \A S : Once(s, S) /\ (e \notin S \/ e \notin Items(s)) => Once(Append(s, e), S)
BY DEF Items, Once

(* A record taken from the head of a pipe is the one record removed.       *)
LEMMA ItemsOfTail ==
  ASSUME NEW T, NEW s \in Seq(T), s # <<>>
  PROVE  /\ Head(s) \in T /\ Tail(s) \in Seq(T) /\ Len(Tail(s)) = Len(s) - 1
         /\ Items(s) = Items(Tail(s)) \cup {Head(s)}
         /\ \A S : Once(s, S) =>
              Once(Tail(s), S) /\ (Head(s) \in S => Head(s) \notin Items(Tail(s)))
<1>1. /\ Head(s) = s[1] /\ s[1] \in T /\ Tail(s) \in Seq(T) /\ Len(Tail(s)) = Len(s) - 1
      /\ Len(s) \in Nat /\ Len(s) >= 1
      /\ \A i \in 1 .. Len(s) - 1 : Tail(s)[i] = s[i + 1] /\ i + 1 \in 1 .. Len(s)
  <2>1. Len(s) \in Nat /\ Len(s) >= 1 /\ Head(s) = s[1] /\ s[1] \in T
    OBVIOUS
  <2>2. Tail(s) \in Seq(T) /\ Len(Tail(s)) = Len(s) - 1
    OBVIOUS
  <2>3. \A i \in 1 .. Len(s) - 1 : Tail(s)[i] = s[i + 1] /\ i + 1 \in 1 .. Len(s)
    BY <2>1
  <2> QED
    BY <2>1, <2>2, <2>3
<1>2. \A i \in 1 .. Len(s) : i = 1 \/ (i - 1 \in 1 .. Len(s) - 1 /\ s[i] = Tail(s)[i - 1])
  <2> SUFFICES ASSUME NEW i \in 1 .. Len(s), i # 1
               PROVE  i - 1 \in 1 .. Len(s) - 1 /\ s[i] = Tail(s)[i - 1]
    OBVIOUS
  <2>1. i - 1 \in 1 .. Len(s) - 1 /\ (i - 1) + 1 = i
    BY <1>1
  <2> QED
    BY <1>1, <2>1
<1>3. Items(s) = Items(Tail(s)) \cup {Head(s)}
  <2>1. /\ Items(s) = {s[i] : i \in 1 .. Len(s)}
        /\ Items(Tail(s)) = {Tail(s)[i] : i \in 1 .. Len(s) - 1}
    BY <1>1 DEF Items
  <2>2. ASSUME NEW i \in 1 .. Len(s) PROVE s[i] \in Items(Tail(s)) \cup {Head(s)}
    <3>1. CASE i = 1
      BY <1>1, <3>1
    <3>2. CASE i # 1
      BY <1>2, <2>1, <3>2, Zenon
    <3> QED
      BY <3>1, <3>2
  <2>3. ASSUME NEW i \in 1 .. Len(s) - 1 PROVE Tail(s)[i] \in Items(s)
    BY <1>1, <2>1, Zenon
  <2>4. Head(s) \in Items(s)
    <3>1. 1 \in 1 .. Len(s) /\ Head(s) = s[1]
      BY <1>1
    <3> QED
      BY <2>1, <3>1, Zenon
  <2> QED
    BY <2>1, <2>2, <2>3, <2>4, Zenon
<1>4. ASSUME NEW S, Once(s, S)
      PROVE  Once(Tail(s), S) /\ (Head(s) \in S => Head(s) \notin Items(Tail(s)))
  <2>1. ASSUME NEW i \in 1 .. Len(s) - 1, NEW j \in 1 .. Len(s) - 1,
               Tail(s)[i] = Tail(s)[j], Tail(s)[i] \in S
        PROVE  i = j
    <3>1. i + 1 \in 1 .. Len(s) /\ j + 1 \in 1 .. Len(s) /\ s[i + 1] = s[j + 1] /\ s[i + 1] \in S
      BY <1>1, <2>1
    <3>2. i + 1 = j + 1
      BY <1>4, <3>1 DEF Once
    <3> QED
      BY <3>2
  <2>2. ASSUME NEW i \in 1 .. Len(s) - 1, s[1] = Tail(s)[i], s[1] \in S PROVE FALSE
    <3>1. i + 1 \in 1 .. Len(s) /\ 1 \in 1 .. Len(s) /\ s[i + 1] = s[1] /\ i + 1 # 1
      BY <1>1, <2>2
    <3> QED
      BY <1>4, <2>2, <3>1 DEF Once
  <2> QED
    BY <1>1, <2>1, <2>2 DEF Items, Once
<1> QED
  BY <1>1, <1>3, <1>4

(* A queue of bounded length keeps the bound by giving up its head.        *)
LEMMA ItemsOfQueue ==
  ASSUME NEW T, NEW s \in Seq(T), NEW e \in T, NEW m \in Nat, Len(s) <= m
  PROVE  /\ Len(Append(s, e)) > m => /\ Tail(Append(s, e)) \in Seq(T)
                                     /\ Len(Tail(Append(s, e))) = Len(s)
         /\ ~(Len(Append(s, e)) > m) => Append(s, e) \in Seq(T) /\ Len(Append(s, e)) <= m
BY ItemsOfAppend, ItemsOfTail

(* The items of a sequence are in the set it is over, none if it is empty. *)
LEMMA ItemsOfSeq ==
  ASSUME NEW T, NEW s \in Seq(T)
  PROVE  Items(s) \subseteq T /\ (s = <<>> <=> Items(s) = {})
BY DEF Items

(* An empty sequence has no items.                                         *)
LEMMA ItemsOfEmpty == Items(<<>>) = {} /\ \A S : Once(<<>>, S)
BY DEF Items, Once
-----------------------------------------------------------------------------
(* Types *)

(* The initial values are well typed.                                      *)
LEMMA InitTypes == Init => TypeOK
<1> SUFFICES ASSUME Init PROVE TypeOK
  OBVIOUS
<1>1. at \in [Actors -> ActorLocations]
  BY DEF Init, Actors, ActorLocations
<1>2. /\ {done, swept, stdinOpen, alive, heldOpen} \subseteq BOOLEAN
      /\ finisher \in Actors \cup {NoOne}
  BY DEF Init
<1>3. /\ pc \in [Callers -> Locations] /\ ret \in [Callers -> Returns]
      /\ result \in [Callers -> {<<>>, <<"response">>, <<"closed">>}]
  BY DEF Init, Locations, Returns
<1> QED
  BY <1>1, <1>2, <1>3, BoundsAreNat DEF Init, TypeOK

(* The order of the tombstones keeps its bound.                            *)
LEMMA AbandonTypes ==
  ASSUME TypeOK, NEW c \in calls, Abandon(c)
  PROVE  abandonedOrder' \in Seq(calls) /\ Len(abandonedOrder') <= MaxAbandoned
<1>1. abandonedOrder \in Seq(calls) /\ Len(abandonedOrder) <= MaxAbandoned
  BY DEF TypeOK
<1>2. MaxAbandoned \in Nat
  BY BoundsAreNat
<1> DEFINE order == Append(abandonedOrder, c)
<1>3. /\ Len(order) > MaxAbandoned => Tail(order) \in Seq(calls) /\ Len(Tail(order)) = Len(abandonedOrder)
      /\ ~(Len(order) > MaxAbandoned) => order \in Seq(calls) /\ Len(order) <= MaxAbandoned
  BY <1>1, <1>2, ItemsOfQueue
<1>4. \/ abandonedOrder' = abandonedOrder
      \/ Len(order) > MaxAbandoned /\ abandonedOrder' = Tail(order)
      \/ ~(Len(order) > MaxAbandoned) /\ abandonedOrder' = order
  BY DEF Abandon, tableVars
<1> HIDE DEF order
<1> QED
  BY <1>1, <1>2, <1>3, <1>4

(* A step of a caller keeps the types: of the table and the tombstones, of *)
(* the pipe it writes, of its place and its result.                        *)
LEMMA CallerTypes ==
  ASSUME TypeOK, NEW o \in Callers, Caller(o)
  PROVE  TypeOK'
<1> USE NoOneIsNobody, BoundsAreNat DEF TypeOK, callVars, tableVars, closeVars, piVars
<1>1 CASE CallRegister(o) /\ o \in calls
  BY <1>1 DEF CallRegister, Return, Locations, Returns
<1>2 CASE SendStart(o)
  BY <1>2 DEF SendStart, Return, Locations, Returns
<1>3 CASE WriteLock(o)
  BY <1>3 DEF WriteLock, Locations
<1>4 CASE WriteDone(o)
  <2>1. inbox' \in Seq(Callers)
    BY <1>4 DEF WriteDone
  <2>2. pc' \in [Callers -> Locations] /\ ret' \in [Callers -> Returns]
    BY <1>4 DEF WriteDone, Return, Locations, Returns
  <2> QED
    BY <1>4, <2>1, <2>2 DEF WriteDone
<1>5 CASE WriteFails(o)
  BY <1>5 DEF WriteFails, Return, Locations, Returns
<1>6 CASE CallReceives(o)
  <2>1. Head(result[o]) \in Returns
    BY <1>6 DEF CallReceives, Returns
  <2> QED
    BY <1>6, <2>1 DEF CallReceives, Return, Locations
<1>7 CASE CallCancelled(o) /\ o \in calls
  <2>1. abandonedOrder' \in Seq(calls) /\ Len(abandonedOrder') <= MaxAbandoned
    BY <1>7, AbandonTypes DEF CallCancelled
  <2>2. abandoned' \subseteq calls /\ pending' \subseteq calls
    BY <1>7 DEF CallCancelled, Abandon
  <2> QED
    BY <1>7, <2>1, <2>2 DEF CallCancelled, Return, Locations, Returns
<1>8 CASE CallSeesDone(o)
  BY <1>8 DEF CallSeesDone, Return, Locations, Returns
<1> QED
  BY <1>1, <1>2, <1>3, <1>4, <1>5, <1>6, <1>7, <1>8 DEF Caller

(* A step of Close, of the reader, of wait or of finish keeps the types.   *)
LEMMA ActorTypes ==
  ASSUME TypeOK, Matched, Close \/ Closer \/ Reader \/ Waiter
  PROVE  TypeOK'
<1> USE NoOneIsNobody, RecordsAreNoCallers
    DEF TypeOK, callVars, tableVars, closeVars, piVars, Actors, ActorLocations
<1>1 CASE \E a \in Actors : Finish(a)
  <2>1. PICK a \in Actors : Finish(a)
    BY <1>1
  <2>2 CASE FinishSignal(a)
    BY <2>2 DEF FinishSignal
  <2>3 CASE FinishSweep(a)
    BY <2>3 DEF FinishSweep
  <2>4 CASE FinishLeave(a)
    BY <2>4 DEF FinishLeave, AfterFinish
  <2>5 CASE \E c \in calls : FinishNotify(a, c)
    BY <2>5 DEF FinishNotify
  <2> QED
    BY <2>1, <2>2, <2>3, <2>4, <2>5 DEF Finish
<1>2 CASE Close \/ CloseStdin
  BY <1>2 DEF Close, CloseStdin
<1>3 CASE Kill("close") \/ Kill("read")
  <2>1. alive' = FALSE /\ heldOpen' \in BOOLEAN
    BY <1>3 DEF Kill
  <2>2. at' \in [Actors -> ActorLocations]
    BY <1>3 DEF Kill
  <2>3. /\ UNCHANGED <<calls, callVars, tableVars, result, closeVars, delivering>>
        /\ UNCHANGED <<stdinOpen, inbox, working, stdout, noise, flagged>>
    BY <1>3 DEF Kill
  <2> QED
    BY <2>1, <2>2, <2>3
<1>4 CASE ReadResponse
  BY <1>4, ItemsOfTail DEF ReadResponse
<1>5 CASE Deliver
  BY <1>5 DEF Deliver, Matched
<1>6 CASE ReadOther
  BY <1>6, ItemsOfTail DEF ReadOther
<1>7 CASE ReadEOF \/ WaitExit
  BY <1>7 DEF ReadEOF, WaitExit
<1> QED
  BY <1>1, <1>2, <1>3, <1>4, <1>5, <1>6, <1>7 DEF Closer, Reader, Waiter

(* A step of Pi keeps the types.                                           *)
LEMMA PiTypes == ASSUME TypeOK, Pi PROVE TypeOK'
<1> USE BoundsAreNat DEF TypeOK, callVars, tableVars, closeVars
<1>1 CASE PiReads
  BY <1>1, ItemsOfTail DEF PiReads
<1>2 CASE PiExits \/ HolderExits
  BY <1>2 DEF PiExits, HolderExits
<1>3 CASE \E c \in calls : PiAnswers(c)
  BY <1>3 DEF PiAnswers
<1>4 CASE \E r \in {Noise, Overlong} : PiSpeaks(r)
  BY <1>4 DEF PiSpeaks
<1> QED
  BY <1>1, <1>2, <1>3, <1>4 DEF Pi
-----------------------------------------------------------------------------
(* The end of the client *)

(* The order in which the client ends is kept: a caller registers only     *)
(* while done is open, and Pi never starts again.                          *)
LEMMA EndedStep ==
  ASSUME TypeOK, Ended, Next
  PROVE  Ended'
<1>0. at \in [Actors -> ActorLocations] /\ finisher \in Actors \cup {NoOne} /\ NoOne \notin Actors
  BY NoOneIsNobody DEF TypeOK
<1> USE DEF Ended, callVars, tableVars, closeVars, piVars
<1>1 CASE \E o \in Callers : Caller(o)
  <2>1. PICK o \in Callers : Caller(o)
    BY <1>1
  <2>2. UNCHANGED <<done, finisher, sweep, swept, at, alive, stdout>>
    BY <2>1 DEF Caller, CallRegister, SendStart, WriteLock, WriteDone, WriteFails,
                CallReceives, CallCancelled, CallSeesDone
  <2>3. swept => pending' \subseteq pending
    BY <2>1 DEF Caller, CallRegister, SendStart, WriteLock, WriteDone, WriteFails,
                CallReceives, CallCancelled, Abandon, CallSeesDone
  <2> QED
    BY <2>2, <2>3
<1>2 CASE \E a \in Actors : Finish(a)
  <2>1. PICK a \in Actors : Finish(a)
    BY <1>2
  <2>2 CASE FinishSignal(a)
    BY <1>0, <2>2 DEF FinishSignal
  <2>3 CASE FinishSweep(a)
    BY <1>0, <2>3 DEF FinishSweep
  <2>4 CASE FinishLeave(a)
    BY <1>0, <2>4 DEF FinishLeave, AfterFinish, Actors
  <2>5 CASE \E c \in calls : FinishNotify(a, c)
    BY <2>5 DEF FinishNotify
  <2> QED
    BY <2>1, <2>2, <2>3, <2>4, <2>5 DEF Finish
<1>3 CASE Close \/ CloseStdin \/ Kill("close") \/ Kill("read")
  <2>1 CASE Close \/ CloseStdin
    BY <1>0, <2>1 DEF Close, CloseStdin, Actors
  <2>2. ASSUME NEW a \in {"close", "read"}, Kill(a) PROVE Ended'
    <3>1. /\ at[a] = "kill" /\ at' = [at EXCEPT ![a] = "end"] /\ alive' = FALSE
          /\ UNCHANGED <<done, finisher, sweep, swept, pending, stdout>>
      BY <2>2 DEF Kill
    <3> QED
      BY <1>0, <3>1 DEF Actors
  <2> QED
    BY <1>3, <2>1, <2>2
<1>4 CASE ReadResponse \/ Deliver \/ ReadOther
  BY <1>0, <1>4 DEF ReadResponse, Deliver, ReadOther, Actors
<1>5 CASE ReadEOF \/ WaitExit
  BY <1>0, <1>5 DEF ReadEOF, WaitExit, Actors
<1>6 CASE Pi
  <2>1. UNCHANGED <<done, finisher, sweep, swept, pending, at>> /\ (alive' => alive)
    BY <1>6 DEF Pi, PiReads, PiAnswers, PiSpeaks, PiExits, HolderExits
  <2>2. stdout' = stdout \/ alive
    BY <1>6 DEF Pi, PiReads, PiAnswers, PiSpeaks, PiExits, HolderExits
  <2> QED
    BY <2>1, <2>2
<1> QED
  BY <1>1, <1>2, <1>3, <1>4, <1>5, <1>6 DEF Next, Closer, Reader, Waiter, Actors
-----------------------------------------------------------------------------
(* Results *)

(* A caller leaves the table when it returns, and only a caller that waits *)
(* takes a result.                                                         *)
LEMMA CallerMatched ==
  ASSUME TypeOK, Matched, Ended, NEW o \in Callers, Caller(o)
  PROVE  Matched'
<1>0. /\ pc \in [Callers -> Locations] /\ ret \in [Callers -> Returns]
      /\ result \in [Callers -> {<<>>, <<"response">>, <<"closed">>}]
      /\ calls \subseteq Callers /\ pending \subseteq calls
      /\ sweep \subseteq Callers /\ delivering \in Callers \cup {NoOne} /\ NoOne \notin Callers
  BY NoOneIsNobody DEF TypeOK
<1> USE <1>0 DEF Matched, Ended, callVars, tableVars, closeVars, piVars
<1>1 CASE CallRegister(o)
  BY <1>1 DEF CallRegister, Return
<1>2 CASE SendStart(o) \/ WriteLock(o)
  BY <1>2 DEF SendStart, WriteLock, Return
<1>3 CASE WriteDone(o)
  <2>1 CASE o \in calls
    BY <1>3, <2>1 DEF WriteDone
  <2>2 CASE o \notin calls
    BY <1>3, <2>2, pending \subseteq calls DEF WriteDone, Return
  <2> QED
    BY <2>1, <2>2
<1>4 CASE WriteFails(o)
  BY <1>4 DEF WriteFails, Return
<1>5 CASE CallReceives(o)
  <2>1. Head(result[o]) \in {"response", "closed"}
    BY <1>5 DEF CallReceives
  <2> QED
    BY <1>5, <2>1 DEF CallReceives, Return
<1>6 CASE CallCancelled(o)
  <2>1. pending' = pending \ {o}
    BY <1>6 DEF CallCancelled, Abandon
  <2> QED
    BY <1>6, <2>1 DEF CallCancelled, Return
<1>7 CASE CallSeesDone(o)
  BY <1>7 DEF CallSeesDone, Return
<1> QED
  BY <1>1, <1>2, <1>3, <1>4, <1>5, <1>6, <1>7 DEF Caller

(* The reader takes a request out of the table before it sends, and finish *)
(* takes them all; so no channel is sent to twice.                         *)
LEMMA MatchedStep ==
  ASSUME TypeOK, Matched, Ended, Next
  PROVE  Matched'
<1>0. /\ at \in [Actors -> ActorLocations]
      /\ result \in [Callers -> {<<>>, <<"response">>, <<"closed">>}]
      /\ calls \subseteq Callers
      /\ pending \subseteq Callers /\ sweep \subseteq Callers /\ delivering \in Callers \cup {NoOne}
      /\ NoOne \notin Callers
  BY NoOneIsNobody DEF TypeOK
<1> USE <1>0 DEF Matched, callVars, tableVars, closeVars, piVars
<1>1 CASE \E o \in Callers : Caller(o)
  BY <1>1, CallerMatched
<1>2 CASE \E a \in Actors : Finish(a)
  <2>1. PICK a \in Actors : Finish(a)
    BY <1>2
  <2>2 CASE FinishSignal(a)
    BY <2>2 DEF FinishSignal
  <2>3 CASE FinishSweep(a)
    BY <2>3 DEF FinishSweep
  <2>4 CASE FinishLeave(a)
    BY <2>4 DEF FinishLeave, AfterFinish, Actors
  <2>5 CASE \E c \in calls : FinishNotify(a, c)
    BY <2>5 DEF FinishNotify, Ended
  <2> QED
    BY <2>1, <2>2, <2>3, <2>4, <2>5 DEF Finish
<1>3 CASE Close \/ CloseStdin \/ Kill("close") \/ Kill("read")
  BY <1>3 DEF Close, CloseStdin, Kill, Actors
<1>4 CASE ReadResponse
  <2>1. PICK c \in calls : c = Head(stdout)
    BY <1>4 DEF ReadResponse
  <2>2. UNCHANGED <<calls, callVars, result, sweep>> /\ pending' = pending \ {c}
    BY <1>4, <2>1 DEF ReadResponse
  <2>3. \/ UNCHANGED <<at, delivering>>
        \/ c \in pending /\ at' = [at EXCEPT !["read"] = "deliver"] /\ delivering' = c
    BY <1>4, <2>1 DEF ReadResponse
  <2>4. at["read"] = "reading" /\ (c \in pending => c \notin sweep)
    BY <1>4 DEF ReadResponse, Ended
  <2> QED
    BY <2>1, <2>2, <2>3, <2>4 DEF Actors
<1>5 CASE Deliver
  BY <1>5 DEF Deliver, Actors
<1>6 CASE ReadOther \/ ReadEOF \/ WaitExit
  BY <1>6 DEF ReadOther, ReadEOF, WaitExit, Actors
<1>7 CASE Pi
  BY <1>7 DEF Pi, PiReads, PiAnswers, PiSpeaks, PiExits, HolderExits
<1> QED
  BY <1>1, <1>2, <1>3, <1>4, <1>5, <1>6, <1>7 DEF Next, Closer, Reader, Waiter, Actors
-----------------------------------------------------------------------------
(* Requests on their way *)

(* The facts about types that the next steps need.                         *)
LEMMA PipeTypes ==
  ASSUME TypeOK
  PROVE  /\ pc \in [Callers -> Locations] /\ ret \in [Callers -> Returns]
         /\ calls \subseteq Callers /\ pending \subseteq calls /\ working \subseteq calls
         /\ inbox \in Seq(Callers) /\ stdout \in Seq(calls \cup {Noise, Overlong})
         /\ Items(inbox) \subseteq Callers
         /\ Items(stdout) \subseteq calls \cup {Noise, Overlong}
         /\ Items(stdout) \cap Callers \subseteq calls
BY ItemsOfSeq, RecordsAreNoCallers DEF TypeOK

(* A caller moves its request along, puts it into the pipe, or returns and *)
(* takes it out of the table.                                              *)
LEMMA CallerCarried ==
  ASSUME TypeOK, Matched, Carried, NEW o \in Callers, Caller(o)
  PROVE  Carried'
<1> USE PipeTypes DEF Carried, InPipes, callVars, tableVars, closeVars, piVars
<1>1 CASE CallRegister(o) /\ o \in calls
  BY <1>1 DEF CallRegister, Return
<1>2 CASE SendStart(o) /\ o \notin calls
  BY <1>2 DEF SendStart, Return
<1>3 CASE WriteLock(o)
  BY <1>3 DEF WriteLock
<1>4 CASE WriteDone(o)
  <2>1. /\ Items(inbox') = Items(inbox) \cup {o} /\ o \notin InPipes
        /\ Once(inbox', Callers)
    BY <1>4, ItemsOfAppend DEF WriteDone
  <2>2. UNCHANGED <<calls, pending, working, stdout, done>> /\ pc[o] = "inWrite"
    BY <1>4 DEF WriteDone
  <2>3. /\ o \in calls => ret' = ret /\ pc' = [pc EXCEPT ![o] = "waiting"]
        /\ o \notin calls => ret' = [ret EXCEPT ![o] = "written"] /\ pc' = [pc EXCEPT ![o] = "returned"]
    BY <1>4 DEF WriteDone, Return
  <2> QED
    BY <2>1, <2>2, <2>3
<1>5 CASE WriteFails(o)
  BY <1>5 DEF WriteFails, Return
<1>6 CASE CallReceives(o)
  BY <1>6 DEF CallReceives, Return, Matched
<1>7 CASE CallCancelled(o)
  <2>1. pending' = pending \ {o}
    BY <1>7 DEF CallCancelled, Abandon
  <2> QED
    BY <1>7, <2>1 DEF CallCancelled, Return
<1>8 CASE CallSeesDone(o)
  BY <1>8 DEF CallSeesDone, Return
<1> QED
  BY <1>1, <1>2, <1>3, <1>4, <1>5, <1>6, <1>7, <1>8 DEF Caller

(* Pi moves a request from one place to the next; the reader takes one off *)
(* the way and out of the table together.                                  *)
LEMMA CarriedStep ==
  ASSUME TypeOK, Matched, Ended, Carried, Next
  PROVE  Carried'
<1> USE PipeTypes DEF Carried, InPipes, callVars, tableVars, closeVars, piVars
<1>1 CASE \E o \in Callers : Caller(o)
  BY <1>1, CallerCarried
<1>2 CASE \E a \in Actors : Finish(a)
  <2>1. UNCHANGED <<calls, callVars, inbox, working, stdout>> /\ (done => done')
    BY <1>2 DEF Finish, FinishSignal, FinishSweep, FinishLeave, FinishNotify
  <2>2. pending' = pending \/ (done /\ pending' = {})
    <3>1. PICK a \in Actors : Finish(a)
      BY <1>2
    <3>2 CASE FinishSweep(a)
      BY <3>2, NoOneIsNobody DEF FinishSweep, Ended
    <3>3 CASE FinishSignal(a) \/ FinishLeave(a) \/ \E c \in calls : FinishNotify(a, c)
      BY <3>3 DEF FinishSignal, FinishLeave, FinishNotify
    <3> QED
      BY <3>1, <3>2, <3>3 DEF Finish
  <2> QED
    BY <2>1, <2>2
<1>3 CASE Close \/ CloseStdin \/ Kill("close") \/ Kill("read") \/ Deliver \/ ReadEOF \/ WaitExit
  <2>1. UNCHANGED <<calls, pc, ret, pending, done, inbox, working, stdout>>
    BY <1>3 DEF Close, CloseStdin, Kill, Deliver, ReadEOF, WaitExit
  <2> QED
    BY <2>1
<1>4 CASE ReadResponse \/ ReadOther
  <2>1. /\ stdout # <<>> /\ stdout' = Tail(stdout)
        /\ UNCHANGED <<calls, pc, ret, inbox, working, done>>
    BY <1>4 DEF ReadResponse, ReadOther
  <2>2. /\ Items(stdout) = Items(stdout') \cup {Head(stdout)} /\ Once(stdout', calls)
        /\ Head(stdout) \in calls => Head(stdout) \notin Items(stdout')
    BY <2>1, ItemsOfTail
  <2>3. \/ pending' = pending \ {Head(stdout)}
        \/ pending' = pending /\ Head(stdout) \notin calls
    BY <1>4, RecordsAreNoCallers DEF ReadResponse, ReadOther
  <2> QED
    BY <2>1, <2>2, <2>3
<1>5 CASE PiReads
  <2>1. /\ inbox # <<>> /\ inbox' = Tail(inbox) /\ working' = working \cup ({Head(inbox)} \cap calls)
        /\ UNCHANGED <<calls, pc, ret, pending, done, stdout>>
    BY <1>5 DEF PiReads
  <2>2. /\ Items(inbox) = Items(inbox') \cup {Head(inbox)} /\ Once(inbox', Callers)
        /\ Head(inbox) \in Callers /\ Head(inbox) \notin Items(inbox')
    BY <2>1, ItemsOfTail
  <2> QED
    BY <2>1, <2>2
<1>6 CASE \E c \in calls : PiAnswers(c)
  <2>1. PICK c \in calls : PiAnswers(c)
    BY <1>6
  <2>2. /\ c \in working /\ working' = working \ {c} /\ stdout' = Append(stdout, c)
        /\ UNCHANGED <<calls, pc, ret, pending, done, inbox>>
    BY <2>1 DEF PiAnswers
  <2>3. Items(stdout') = Items(stdout) \cup {c} /\ Once(stdout', calls)
    BY <2>2, ItemsOfAppend
  <2> QED
    BY <2>2, <2>3
<1>7 CASE \E r \in {Noise, Overlong} : PiSpeaks(r)
  <2>1. PICK r \in {Noise, Overlong} : PiSpeaks(r)
    BY <1>7
  <2>2. stdout' = Append(stdout, r) /\ UNCHANGED <<calls, pc, ret, pending, done, inbox, working>>
    BY <2>1 DEF PiSpeaks
  <2>3. Items(stdout') = Items(stdout) \cup {r} /\ Once(stdout', calls) /\ r \notin Callers
    BY <2>2, ItemsOfAppend, RecordsAreNoCallers
  <2> QED
    BY <2>2, <2>3
<1>8 CASE PiExits \/ HolderExits
  BY <1>8 DEF PiExits, HolderExits
<1> QED
  BY <1>1, <1>2, <1>3, <1>4, <1>5, <1>6, <1>7, <1>8 DEF Next, Closer, Reader, Waiter, Pi, Actors
-----------------------------------------------------------------------------
(* Tombstones *)

(* Only a cancellation makes a cancelled call or touches the tombstones.   *)
LEMMA CancelsOnly ==
  ASSUME TypeOK, Matched, Next, \A o \in calls : ~CallCancelled(o)
  PROVE  Cancelled' = Cancelled /\ UNCHANGED <<calls, abandoned, abandonedOrder>>
<1> USE DEF callVars, tableVars, closeVars, piVars
<1>1 CASE \E o \in Callers : Caller(o)
  <2>1. PICK o \in Callers : Caller(o)
    BY <1>1
  <2>2. UNCHANGED <<calls, abandoned, abandonedOrder>>
    BY <2>1 DEF Caller, CallRegister, SendStart, WriteLock, WriteDone, WriteFails,
                CallReceives, CallSeesDone
  <2>3. ret' = ret \/ \E v \in {"closed", "written", "writeError", "response"} :
                        ret[o] = "none" /\ ret' = [ret EXCEPT ![o] = v]
    <3>1. CallReceives(o) => Head(result[o]) \in {"closed", "response"}
      BY DEF CallReceives, TypeOK
    <3> QED
      BY <2>1, <3>1 DEF Caller, CallRegister, SendStart, WriteLock, WriteDone, WriteFails,
                        CallReceives, CallSeesDone, Return, Matched
  <2> QED
    BY <2>2, <2>3 DEF Cancelled, TypeOK
<1>2 CASE ~\E o \in Callers : Caller(o)
  BY <1>2 DEF Next, Close, Closer, Reader, Waiter, Pi, Finish, FinishSignal, FinishSweep,
              FinishLeave, FinishNotify, CloseStdin, Kill, ReadResponse, Deliver, ReadOther,
              ReadEOF, WaitExit, PiReads, PiAnswers, PiSpeaks, PiExits, HolderExits, Cancelled
<1> QED
  BY <1>1, <1>2

(* What a cancellation does to the tombstones of a client that still knows *)
(* the request: the new one is added, and one is given up if the bound is  *)
(* exceeded.                                                               *)
LEMMA AbandonEffect ==
  ASSUME TypeOK, Tombs, NEW c \in pending, c \notin abandoned, Abandon(c)
  PROVE  LET order == Append(abandonedOrder, c) IN
         /\ Len(order) = Len(abandonedOrder) + 1 /\ order \in Seq(calls) /\ order # <<>>
         /\ Items(order) = abandoned \cup {c} /\ Once(order, calls)
         /\ IsFiniteSet(Items(order)) /\ Cardinality(Items(order)) = Len(order)
         /\ Len(order) > MaxAbandoned =>
              abandonedOrder' = Tail(order) /\ abandoned' = Items(order) \ {Head(order)}
         /\ ~(Len(order) > MaxAbandoned) =>
              abandonedOrder' = order /\ abandoned' = Items(order)
<1>1. abandonedOrder \in Seq(calls) /\ c \in calls
  BY DEF TypeOK
<1>2. /\ Len(Append(abandonedOrder, c)) = Len(abandonedOrder) + 1
      /\ Append(abandonedOrder, c) \in Seq(calls) /\ Append(abandonedOrder, c) # <<>>
      /\ Items(Append(abandonedOrder, c)) = abandoned \cup {c}
      /\ Once(Append(abandonedOrder, c), calls)
  BY <1>1, ItemsOfAppend DEF Tombs
<1>3. /\ IsFiniteSet(abandoned \cup {c})
      /\ Cardinality(abandoned \cup {c}) = Len(abandonedOrder) + 1
  BY FS_AddElement DEF Tombs
<1> QED
  BY <1>2, <1>3 DEF Abandon

(* The tombstones stay the last cancelled calls.                           *)
LEMMA TombsStep ==
  ASSUME TypeOK, Matched, Tombs, Next
  PROVE  Tombs'
<1>1 CASE \A o \in calls : ~CallCancelled(o)
  BY <1>1, CancelsOnly DEF Tombs
<1>2 CASE \E o \in calls : CallCancelled(o)
  <2>1. PICK c \in calls : CallCancelled(c)
    BY <1>2
  <2>2. calls' = calls /\ Cancelled' = Cancelled \cup {c} /\ Abandon(c) /\ ret[c] = "none"
    BY <2>1 DEF CallCancelled, Return, Cancelled, TypeOK, Matched
  <2>3 CASE c \notin pending
    BY <2>2, <2>3 DEF Abandon, tableVars, Tombs
  <2>4 CASE c \in pending
    <3>1. c \notin abandoned
      BY <2>2 DEF Tombs, Cancelled
    <3> DEFINE order == Append(abandonedOrder, c)
    <3>2. /\ order \in Seq(calls) /\ order # <<>> /\ Len(order) \in Nat
          /\ Items(order) = abandoned \cup {c} /\ Once(order, calls)
          /\ IsFiniteSet(Items(order)) /\ Cardinality(Items(order)) = Len(order)
      BY <2>2, <2>4, <3>1, AbandonEffect, Len(abandonedOrder) \in Nat DEF TypeOK
    <3>3. /\ Len(order) > MaxAbandoned =>
               abandonedOrder' = Tail(order) /\ abandoned' = Items(order) \ {Head(order)}
          /\ ~(Len(order) > MaxAbandoned) =>
               abandonedOrder' = order /\ abandoned' = Items(order)
      BY <2>2, <2>4, <3>1, <3>2, AbandonEffect
    <3> HIDE DEF order
    <3>4. /\ Items(order) = Items(Tail(order)) \cup {Head(order)} /\ Len(Tail(order)) = Len(order) - 1
          /\ Once(Tail(order), calls) /\ Head(order) \in calls /\ Head(order) \notin Items(Tail(order))
      BY <3>2, ItemsOfTail
    <3>5. Items(Tail(order)) = Items(order) \ {Head(order)}
      BY <3>4
    <3>6. IsFiniteSet(Items(Tail(order))) /\ Cardinality(Items(Tail(order))) = Len(Tail(order))
      <4>1. /\ IsFiniteSet(Items(order) \ {Head(order)})
            /\ Cardinality(Items(order) \ {Head(order)}) = Cardinality(Items(order)) - 1
        BY <3>2, <3>4, FS_RemoveElement
      <4> QED
        BY <3>2, <3>4, <3>5, <4>1
    <3>7. Items(order) \subseteq Cancelled'
      BY <2>2, <3>2 DEF Tombs
    <3> QED
      BY <2>2, <3>2, <3>3, <3>4, <3>5, <3>6, <3>7 DEF Tombs
  <2> QED
    BY <2>3, <2>4
<1> QED
  BY <1>1, <1>2

(* A request on its way loses its tombstone only to MaxAbandoned others.   *)
LEMMA OutnumberedStep ==
  ASSUME TypeOK, Matched, Ended, Carried, Tombs, Outnumbered, Next
  PROVE  Outnumbered'
<1>0. calls' = calls /\ (done => done') /\ MaxAbandoned \in Nat
  <2>1 CASE \E o \in Callers : Caller(o)
    BY <2>1, BoundsAreNat DEF Caller, CallRegister, SendStart, WriteLock, WriteDone, WriteFails,
                CallReceives, CallCancelled, CallSeesDone, closeVars
  <2>2 CASE \E a \in Actors : Finish(a)
    BY <2>2, BoundsAreNat DEF Finish, FinishSignal, FinishSweep, FinishLeave, FinishNotify, closeVars
  <2>3 CASE Close \/ CloseStdin \/ Kill("close") \/ Kill("read") \/ ReadResponse \/ Deliver
            \/ ReadOther \/ ReadEOF \/ WaitExit
    <3>1. UNCHANGED <<calls, done>>
      BY <2>3 DEF Close, CloseStdin, Kill, ReadResponse, Deliver, ReadOther, ReadEOF,
                  WaitExit, closeVars
    <3> QED
      BY <3>1, BoundsAreNat
  <2>4 CASE Pi
    BY <2>4, BoundsAreNat DEF Pi, PiReads, PiAnswers, PiSpeaks, PiExits, HolderExits, closeVars
  <2> QED
    BY <2>1, <2>2, <2>3, <2>4 DEF Next, Closer, Reader, Waiter, Actors
<1>1. (InPipes' \cap calls) \subseteq InPipes \cup {c \in calls : ret'[c] = "none"}
  <2>1 CASE \E o \in Callers : WriteDone(o)
    <3>1. PICK o \in Callers : WriteDone(o)
      BY <2>1
    <3>2. Items(inbox') = Items(inbox) \cup {o} /\ UNCHANGED <<working, stdout>>
      BY <3>1, PipeTypes, ItemsOfAppend DEF WriteDone
    <3>3. o \in calls => ret'[o] = "none"
      BY <3>1 DEF WriteDone, Matched
    <3> QED
      BY <3>2, <3>3 DEF InPipes
  <2>2 CASE PiReads
    BY <2>2, PipeTypes, ItemsOfTail DEF PiReads, InPipes
  <2>3 CASE \E c \in calls : PiAnswers(c)
    BY <2>3, PipeTypes, ItemsOfAppend DEF PiAnswers, InPipes
  <2>4 CASE \E r \in {Noise, Overlong} : PiSpeaks(r)
    BY <2>4, PipeTypes, ItemsOfAppend, RecordsAreNoCallers DEF PiSpeaks, InPipes
  <2>5 CASE ReadResponse \/ ReadOther
    <3>1. stdout # <<>> /\ stdout' = Tail(stdout) /\ UNCHANGED <<inbox, working>>
      BY <2>5 DEF ReadResponse, ReadOther
    <3>2. Items(stdout') \subseteq Items(stdout)
      BY <3>1, PipeTypes, ItemsOfTail
    <3> QED
      BY <3>1, <3>2 DEF InPipes
  <2>6 CASE \E o \in Callers : Caller(o) /\ ~WriteDone(o)
    BY <2>6 DEF Caller, CallRegister, SendStart, WriteLock, WriteFails,
                CallReceives, CallCancelled, CallSeesDone, InPipes, piVars
  <2>7 CASE Close \/ CloseStdin \/ Kill("close") \/ Kill("read") \/ Deliver \/ ReadEOF \/ WaitExit
            \/ PiExits \/ HolderExits \/ \E a \in Actors : Finish(a)
    BY <2>7 DEF Close, CloseStdin, Kill, Deliver, ReadEOF, WaitExit, PiExits, HolderExits, Finish,
                FinishSignal, FinishSweep, FinishLeave, FinishNotify, InPipes, piVars
  <2> QED
    BY <2>1, <2>2, <2>3, <2>4, <2>5, <2>6, <2>7 DEF Next, Closer, Reader, Waiter, Pi, Actors
<1>2 CASE \A o \in calls : ~CallCancelled(o)
  <2>1. Cancelled' = Cancelled /\ abandoned' = abandoned
    BY <1>2, CancelsOnly
  <2>2. InPipes' \cap Cancelled' \subseteq InPipes \cap Cancelled
    BY <1>0, <1>1, <2>1 DEF Cancelled
  <2> QED
    BY <1>0, <2>1, <2>2 DEF Outnumbered
<1>3 CASE \E o \in calls : CallCancelled(o)
  <2>1. PICK o \in calls : CallCancelled(o)
    BY <1>3
  <2>2. /\ Cancelled' = Cancelled \cup {o} /\ Abandon(o) /\ ret[o] = "none"
        /\ InPipes' = InPipes /\ done' = done
    BY <2>1 DEF CallCancelled, Return, Cancelled, TypeOK, Matched, InPipes, piVars, closeVars
  <2>3. IsFiniteSet(Cancelled')
    BY <2>2, FS_AddElement DEF Outnumbered
  <2>4. ASSUME NEW c \in InPipes \cap Cancelled', ~done, c \notin abandoned'
        PROVE  Cardinality(Cancelled' \ {c}) >= MaxAbandoned
    <3>1. IsFiniteSet(Cancelled' \ {c}) /\ Cardinality(Cancelled' \ {c}) \in Nat
      BY <2>3, FS_RemoveElement, FS_CardinalityType
    <3>2 CASE c \in Cancelled /\ c \notin abandoned
      <4>1. Cancelled \ {c} \subseteq Cancelled' \ {c}
        BY <2>2
      <4>2. Cardinality(Cancelled \ {c}) <= Cardinality(Cancelled' \ {c})
        BY <3>1, <4>1, FS_Subset
      <4>3. Cardinality(Cancelled \ {c}) \in Nat /\ Cardinality(Cancelled \ {c}) >= MaxAbandoned
        BY <2>4, <3>1, <3>2, <4>1, FS_Subset, FS_CardinalityType DEF Outnumbered
      <4> QED
        BY <1>0, <3>1, <4>2, <4>3
    <3>3 CASE c \in abandoned \/ c \notin Cancelled
      <4>1. o \in pending
        BY <2>2, <2>4, <3>3 DEF Carried, Abandon, tableVars, Cancelled
      <4>2. o \notin abandoned
        BY <2>2 DEF Tombs, Cancelled
      <4> DEFINE order == Append(abandonedOrder, o)
      <4>3. /\ Len(order) \in Nat /\ order \in Seq(calls) /\ order # <<>>
            /\ Items(order) = abandoned \cup {o}
            /\ IsFiniteSet(Items(order)) /\ Cardinality(Items(order)) = Len(order)
        BY <2>2, <4>1, <4>2, AbandonEffect
      <4>4. /\ Len(order) > MaxAbandoned => abandoned' = Items(order) \ {Head(order)}
            /\ ~(Len(order) > MaxAbandoned) => abandoned' = Items(order)
        BY <2>2, <4>1, <4>2, AbandonEffect
      <4> HIDE DEF order
      <4>5. c \in Items(order)
        BY <2>2, <2>4, <3>3, <4>3
      <4>6. Len(order) > MaxAbandoned /\ c = Head(order)
        BY <2>4, <4>4, <4>5
      <4>7. Cardinality(Items(order) \ {c}) = Len(order) - 1
        BY <4>3, <4>5, FS_RemoveElement
      <4>8. Items(order) \ {c} \subseteq Cancelled' \ {c}
        BY <2>2, <4>3 DEF Tombs
      <4>9. Cardinality(Items(order) \ {c}) <= Cardinality(Cancelled' \ {c})
        BY <3>1, <4>8, FS_Subset
      <4> QED
        BY <1>0, <3>1, <4>3, <4>6, <4>7, <4>9
    <3> QED
      BY <3>2, <3>3
  <2> QED
    BY <2>2, <2>3, <2>4 DEF Outnumbered
<1> QED
  BY <1>2, <1>3
-----------------------------------------------------------------------------
(* The exit of Pi *)

(* When wait takes the table, Pi is gone and stdout is drained: what is in *)
(* the table is still in Pi, on the way to it, or being written.  After    *)
(* that nothing moves, and a call that was being written fails.            *)
LEMMA ExitStep ==
  ASSUME TypeOK, Matched, Ended, Carried, ExitSweepsOnlyUnanswered, Next
  PROVE  ExitSweepsOnlyUnanswered'
<1> DEFINE Out == {"writeError", "cancelled", "closed"}
<1>0. /\ sweep \subseteq calls /\ calls \subseteq Callers /\ NoOne \notin Actors
      /\ pc \in [Callers -> Locations] /\ ret \in [Callers -> Returns]
  BY NoOneIsNobody DEF TypeOK
<1>1 CASE \E a \in Actors : FinishSweep(a)
  <2>1. /\ UNCHANGED <<finisher, inbox, working, pc, ret>> /\ sweep' = pending
        /\ finisher \in Actors /\ at[finisher] = "finish" /\ ~swept
    BY <1>1 DEF FinishSweep, callVars, piVars
  <2>2. finisher = "wait" => stdout = <<>>
    BY <2>1 DEF Ended
  <2>3. finisher = "wait" => Items(stdout) = {}
    BY <2>2, ItemsOfEmpty
  <2> QED
    BY <2>1, <2>3 DEF ExitSweepsOnlyUnanswered, Carried, InPipes, Items
<1>2 CASE ~\E a \in Actors : FinishSweep(a)
  <2>1. sweep' \subseteq sweep /\ (finisher' = finisher \/ sweep = {})
    <3>1 CASE \E o \in Callers : Caller(o)
      BY <3>1 DEF Caller, CallRegister, SendStart, WriteLock, WriteDone, WriteFails,
                  CallReceives, CallCancelled, CallSeesDone, closeVars
    <3>2 CASE \E a \in Actors : Finish(a)
      BY <1>2, <3>2 DEF Finish, FinishSignal, FinishLeave, FinishNotify, Ended, closeVars
    <3>3 CASE Close \/ CloseStdin \/ Kill("close") \/ Kill("read") \/ ReadResponse \/ Deliver
              \/ ReadOther \/ ReadEOF \/ WaitExit
      <4>1. UNCHANGED <<sweep, finisher>>
        BY <3>3 DEF Close, CloseStdin, Kill, ReadResponse, Deliver, ReadOther, ReadEOF,
                    WaitExit, closeVars
      <4> QED
        BY <4>1
    <3>4 CASE Pi
      BY <3>4 DEF Pi, PiReads, PiAnswers, PiSpeaks, PiExits, HolderExits, closeVars
    <3> QED
      BY <3>1, <3>2, <3>3, <3>4 DEF Next, Closer, Reader, Waiter, Actors
  <2>2. finisher = "wait" => ~alive
    BY DEF Ended
  <2>3. ~alive => UNCHANGED <<inbox, working>>
    <3>1 CASE \E o \in Callers : Caller(o)
      BY <3>1 DEF Caller, CallRegister, SendStart, WriteLock, WriteDone, WriteFails,
                  CallReceives, CallCancelled, CallSeesDone, piVars
    <3>2 CASE \E a \in Actors : Finish(a)
      BY <3>2 DEF Finish, FinishSignal, FinishSweep, FinishLeave, FinishNotify, piVars
    <3>3 CASE Close \/ CloseStdin \/ Kill("close") \/ Kill("read") \/ ReadResponse \/ Deliver
              \/ ReadOther \/ ReadEOF \/ WaitExit
      BY <3>3 DEF Close, CloseStdin, Kill, ReadResponse, Deliver, ReadOther, ReadEOF, WaitExit, piVars
    <3>4 CASE Pi
      BY <3>4 DEF Pi, PiReads, PiAnswers, PiSpeaks, PiExits, HolderExits
    <3> QED
      BY <3>1, <3>2, <3>3, <3>4 DEF Next, Closer, Reader, Waiter, Actors
  <2>4. ASSUME NEW c \in calls
        PROVE  /\ ret[c] \in Out => ret'[c] \in Out
               /\ pc[c] \in {"writing", "inWrite"} /\ ~alive =>
                    pc'[c] \in {"writing", "inWrite"} \/ ret'[c] \in Out
    <3>1 CASE \E o \in Callers : Caller(o)
      BY <1>0, <3>1 DEF Caller, CallRegister, SendStart, WriteLock, WriteDone, WriteFails,
                        CallReceives, CallCancelled, CallSeesDone, Return, Matched
    <3>2 CASE ~\E o \in Callers : Caller(o)
      <4>1. UNCHANGED <<pc, ret>>
        BY <3>2 DEF Next, Close, Closer, Reader, Waiter, Pi, Finish, FinishSignal, FinishSweep,
                    FinishLeave, FinishNotify, CloseStdin, Kill, ReadResponse, Deliver, ReadOther,
                    ReadEOF, WaitExit, PiReads, PiAnswers, PiSpeaks, PiExits, HolderExits, callVars
      <4> QED
        BY <4>1
    <3> QED
      BY <3>1, <3>2
  <2> HIDE DEF Out
  <2> QED
    BY <1>0, <2>1, <2>2, <2>3, <2>4 DEF ExitSweepsOnlyUnanswered, Out
<1> QED
  BY <1>1, <1>2
-----------------------------------------------------------------------------
(* The theorems *)

(* The invariant holds at the start.                                       *)
LEMMA InvInit == Init => Inv
<1> SUFFICES ASSUME Init PROVE Inv
  OBVIOUS
<1>1. TypeOK
  BY InitTypes
<1>2. Items(inbox) = {} /\ Items(stdout) = {} /\ Items(abandonedOrder) = {}
  BY ItemsOfEmpty DEF Init
<1>3. Ended /\ Matched /\ ExitSweepsOnlyUnanswered
  <2>1. /\ at["read"] = "reading" /\ at["wait"] = "waiting" /\ ~done /\ finisher = NoOne
        /\ sweep = {} /\ ~swept /\ pending = {} /\ delivering = NoOne
    BY DEF Init
  <2>2. finisher # "wait"
    BY <2>1, NoOneIsNobody DEF Actors
  <2>3. \A c \in Callers : pc[c] = "idle" /\ ret[c] = "none" /\ result[c] = <<>>
    BY DEF Init
  <2> QED
    BY <2>1, <2>2, <2>3 DEF Ended, Matched, ExitSweepsOnlyUnanswered
<1>4. Cancelled = {} /\ InPipes = {}
  BY <1>1, <1>2 DEF Init, Cancelled, InPipes, TypeOK
<1>5. Carried
  BY <1>2, <1>4, ItemsOfEmpty DEF Init, Carried, TypeOK
<1>6. Tombs /\ Outnumbered
  BY <1>2, <1>4, FS_EmptySet, ItemsOfEmpty DEF Init, Tombs, Outnumbered
<1> QED
  BY <1>1, <1>3, <1>5, <1>6 DEF Inv

(* Every step keeps the invariant.                                         *)
LEMMA InvStep == Inv /\ [Next]_vars => Inv'
<1> SUFFICES ASSUME Inv, [Next]_vars PROVE Inv'
  OBVIOUS
<1>1 CASE Next
  <2>1. TypeOK'
    <3>1. (\E o \in Callers : Caller(o)) \/ Close \/ Closer \/ Reader \/ Waiter \/ Pi
      BY <1>1 DEF Next
    <3> QED
      BY <3>1, CallerTypes, ActorTypes, PiTypes DEF Inv
  <2> QED
    BY <1>1, <2>1, EndedStep, MatchedStep, CarriedStep, TombsStep, OutnumberedStep, ExitStep DEF Inv
<1>2 CASE UNCHANGED vars
  <2> USE <1>2 DEF vars, callVars, tableVars, closeVars, piVars
  <2>1. TypeOK' /\ Ended' /\ Matched' /\ ExitSweepsOnlyUnanswered'
    BY DEF Inv, TypeOK, Ended, Matched, ExitSweepsOnlyUnanswered
  <2>2. InPipes' = InPipes /\ Cancelled' = Cancelled
    BY DEF InPipes, Cancelled
  <2>3. Carried' /\ Tombs' /\ Outnumbered'
    BY <2>2 DEF Inv, Carried, Tombs, Outnumbered
  <2> QED
    BY <2>1, <2>3 DEF Inv
<1> QED
  BY <1>1, <1>2

(* Every reachable state satisfies the invariant.                          *)
LEMMA InvHolds == Spec => []Inv
<1> QED
  BY InvInit, InvStep, PTL DEF Spec

(* Whatever closes the client and whenever, and however many calls are in  *)
(* flight: no goroutine that sends a result blocks in the send, no call is *)
(* left in the table once finish took it, and an exit of Pi is reported    *)
(* only to calls that Pi had not answered.                                 *)
THEOREM CallsAreAccounted == Spec => []CallsAreAccountedFor
<1>1. Inv => CallsAreAccountedFor
  BY DEF Inv, CallsAreAccountedFor, SendersNeverBlock, NothingLeftPending, Ended, Matched
<1> QED
  BY <1>1, InvHolds, PTL

(* An answer is reported as a protocol error only by a client that ends or *)
(* if at least MaxAbandoned other calls were cancelled too.                *)
THEOREM LateAnswersAreDropped == Spec => LateAnswersAreSilent
<1> DEFINE Justified(c) == \/ done
                           \/ c \in Cancelled /\ Cardinality(Cancelled \ {c}) >= MaxAbandoned
<1>1. ASSUME Inv, [Next]_vars, NEW c \in flagged' \ flagged
      PROVE  Justified(c)
  <2>1. ReadResponse
    <3>1. flagged' # flagged
      BY <1>1
    <3>2. Next
      BY <1>1, <3>1 DEF vars
    <3> QED
      BY <3>1, <3>2
         DEF Next, Caller, CallRegister, SendStart, WriteLock, WriteDone, WriteFails,
             CallReceives, CallCancelled, CallSeesDone, Close, Closer, Reader, Waiter, Pi, Finish,
             FinishSignal, FinishSweep, FinishLeave, FinishNotify, CloseStdin, Kill, Deliver,
             ReadOther, ReadEOF, WaitExit, PiReads, PiAnswers, PiSpeaks, PiExits, HolderExits
  <2>2. c = Head(stdout) /\ c \in calls /\ c \notin abandoned /\ c \notin pending /\ stdout # <<>>
    BY <1>1, <2>1 DEF ReadResponse
  <2>3. c \in InPipes
    BY <1>1, <2>2, PipeTypes, ItemsOfTail DEF InPipes, Inv
  <2> QED
    BY <1>1, <2>2, <2>3 DEF Inv, Carried, Outnumbered, Cancelled
<1>2. Inv /\ [Next]_vars =>
        [\A c \in flagged' \ flagged :
           \/ done
           \/ c \in Cancelled /\ Cardinality(Cancelled \ {c}) >= MaxAbandoned]_vars
  BY <1>1
<1> QED
  BY <1>2, InvHolds, PTL DEF Spec, LateAnswersAreSilent
=============================================================================
