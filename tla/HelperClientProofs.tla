-------------------------- MODULE HelperClientProofs --------------------------
(***************************************************************************)
(* Proofs about the client of a running helper (HelperClient), for any     *)
(* number of requests of every kind, any credit and any size of the table. *)
(*                                                                         *)
(* That a request is ended once rests on where the right to end it is: in  *)
(* its entry, with stopTransport, in the frame the reader holds, or in its *)
(* channel, and every step hands it on.  That giving up harms nobody rests *)
(* on the entries: until the transport stops, whatever the helper works on *)
(* and whatever it has sent still has one.  The bound of the credit rests  *)
(* on counting the data frames on their way to the consumer.               *)
(***************************************************************************)
EXTENDS HelperClient, FiniteSetTheorems, FunctionTheorems, SequenceTheorems,
        TLAPS

Places == {"idle", "entering", "registered", "requested", "starting", "waiting",
           "crediting", "cancelling", "settling", "closing", "closed", "draining",
           "stopping", "resuming", "returned"}
Values == {"none", "answer", "failed", "refused", "cancelled"}
Kinds == {"accepted", "data", "final"}
Results == Kinds \cup {"err"}
Frames == [id : Requests, kind : Kinds]

ClientTypes ==
  /\ made \in Mixes
  /\ at \in [Requests -> Places] /\ ret \in [Requests -> Values]
  /\ cancelled \in SUBSET Streams
  /\ channel \in [Requests -> Seq(Results)] /\ \A r \in Requests : Len(channel[r]) <= 2
  /\ pending \in SUBSET Requests /\ IsFiniteSet(pending) /\ Cardinality(pending) <= MaxPending
  /\ shutdown \in BOOLEAN /\ transportErr \in BOOLEAN
  /\ once \in Requests \cup {Reader, NoOne, "done"} /\ sweep \in SUBSET Requests
  /\ reader \in {"reading", "delivering", "stopping", "ended"}
  /\ held \in Frames \cup {NoFrame}
  /\ killed \in BOOLEAN /\ running \in BOOLEAN /\ stdinOpen \in BOOLEAN
  /\ wire \in Seq(Frames)
  /\ helper \in [Requests -> {"idle", "unread", "active", "accepted", "answered"}]
  /\ credit \in [Requests -> Nat] /\ sent \in [Requests -> 0..Chunks]

(* What only a stopped transport has.                                      *)
Stopped ==
  /\ transportErr <=> once # NoOne
  /\ transportErr => pending = {}
  /\ sweep # {} => transportErr
  /\ \A r \in Requests : \A i \in DOMAIN channel[r] : channel[r][i] = "err" => transportErr
  /\ reader \in {"stopping", "ended"} => ~running \/ transportErr
  /\ reader = "delivering" <=> held # NoFrame

(* Where a request of which kind can be, and how far its helper then is.   *)
Placed ==
  \A r \in Requests :
    /\ at[r] \in {"idle", "entering"} =>
         helper[r] = "idle" /\ channel[r] = <<>> /\ r \notin pending /\ r \notin sweep
    /\ at[r] = "registered" => helper[r] = "idle" /\ (r \in pending \/ transportErr)
    /\ at[r] \in {"requested", "starting", "crediting", "draining"} => r \in Streams
    /\ at[r] = "stopping" /\ r \in Calls => helper[r] = "idle"
    /\ at[r] \in {"entering", "closing", "closed"} => r = Bye

(* The helper has sent a frame of this kind for the request.               *)
Sent(r, kind) ==
  IF kind = "final" THEN helper[r] = "answered"
                    ELSE helper[r] \in {"accepted", "answered"} /\ r \in Streams

(* Frames and results are what the helper has sent.                        *)
Carried ==
  /\ \A i \in DOMAIN wire : Sent(wire[i].id, wire[i].kind)
  /\ held # NoFrame => Sent(held.id, held.kind)
  /\ \A r \in Requests : \A i \in DOMAIN channel[r] :
       channel[r][i] = "err" \/ Sent(r, channel[r][i])
  /\ \A r \in Requests : helper[r] = "accepted" => r \in Streams

(* What the helper works on and what it has sent has its entry, and a last *)
(* frame is the last.                                                      *)
Watched ==
  /\ ~transportErr => \A i \in DOMAIN wire : wire[i].id \in pending
  /\ \A i, j \in DOMAIN wire : i < j /\ wire[i].kind = "final" => wire[j].id # wire[i].id
  /\ \A r \in Requests : Active(r) /\ ~transportErr => r \in pending

Ended(r) == \E i \in DOMAIN channel[r] : channel[r][i] \in Outcomes

(* The right to end a request is in one place.                             *)
Once ==
  \A r \in Requests :
    /\ r \in pending => r \notin sweep
    /\ r \in pending \cup sweep => held # Frame(r, "final") /\ ~Ended(r)
    /\ held = Frame(r, "final") => ~Ended(r)
    /\ \A i, j \in DOMAIN channel[r] :
         channel[r][i] \in Outcomes /\ channel[r][j] \in Outcomes => i = j

(* A plain call that failed will get no answer.                            *)
Answers ==
  \A r \in Calls : at[r] = "returned" /\ ret[r] = "failed" =>
    /\ ~Contains(channel[r], "final")
    /\ \/ reader = "ended" \/ helper[r] = "idle"
       \/ r \notin pending /\ held # Frame(r, "final")

Count(s, e) == Cardinality({i \in DOMAIN s : s[i] = e})
One(b) == IF b THEN 1 ELSE 0

(* The data frames of a request between the helper and its consumer.       *)
OnTheWay(r) ==
  Count(wire, Frame(r, "data")) + One(held = Frame(r, "data"))
    + Count(channel[r], "data") + One(at[r] = "crediting")

(* Credit is what the window has left.                                     *)
Credited ==
  \A r \in Requests :
    /\ credit[r] + OnTheWay(r) <= Window
    /\ at[r] \in {"idle", "entering", "registered", "requested"} => credit[r] = 0 /\ sent[r] = 0
    /\ sent[r] = 0 => OnTheWay(r) = 0

CInv ==
  /\ ClientTypes /\ Stopped /\ Placed /\ Carried /\ Watched /\ Once /\ Answers
  /\ NothingRunsUnwatched /\ Credited

-----------------------------------------------------------------------------
(* Sequences and counting                                                  *)

(* A count is a natural number, and nothing is counted in what is empty.   *)
LEMMA CountNat ==
  ASSUME NEW S, NEW s \in Seq(S), NEW e
  PROVE  /\ IsFiniteSet({i \in DOMAIN s : s[i] = e}) /\ Count(s, e) \in Nat
         /\ (Count(s, e) = 0 <=> \A i \in DOMAIN s : s[i] # e)
<1> DEFINE P == {i \in DOMAIN s : s[i] = e}
<1>1. IsFiniteSet(1..Len(s))
  BY FS_Interval
<1>2. P \in SUBSET (1..Len(s))
  OBVIOUS
<1>3. IsFiniteSet(P)
  BY <1>1, <1>2, FS_Subset
<1>4. Cardinality(P) \in Nat /\ (Cardinality(P) = 0 <=> P = {})
  BY <1>3, FS_CardinalityType, FS_EmptySet
<1>5. P = {} <=> \A i \in DOMAIN s : s[i] # e
  OBVIOUS
<1> QED
  BY <1>3, <1>4, <1>5 DEF Count

(* What is appended is counted too.                                        *)
LEMMA CountAppend ==
  ASSUME NEW S, NEW s \in Seq(S), NEW x \in S, NEW e
  PROVE  Count(Append(s, x), e) = Count(s, e) + One(x = e)
<1> DEFINE t == Append(s, x)
           n == Len(s) + 1
           P == {i \in DOMAIN s : s[i] = e}
           Q == {i \in DOMAIN t : t[i] = e}
<1>1. DOMAIN t = (DOMAIN s) \cup {n} /\ t[n] = x /\ \A i \in DOMAIN s : t[i] = s[i]
  OBVIOUS
<1>2. n \notin DOMAIN s
  OBVIOUS
<1>3. IsFiniteSet(P) /\ Cardinality(P) \in Nat
  BY CountNat, FS_CardinalityType
<1>4. CASE x = e
  <2>1. Q = P \cup {n} /\ n \notin P
    BY <1>1, <1>2, <1>4
  <2> HIDE DEF P, Q, n
  <2>2. Cardinality(Q) = Cardinality(P) + 1
    BY <2>1, <1>3, FS_AddElement
  <2> QED
    BY <2>2, <1>4 DEF Count, One, P, Q
<1>5. CASE x # e
  <2>1. Q = P
    BY <1>1, <1>2, <1>5
  <2>2. Count(t, e) = Cardinality(P) /\ Count(s, e) = Cardinality(P) /\ One(x = e) = 0
    BY <2>1, <1>5 DEF Count, One
  <2> HIDE DEF P, Q, t
  <2> QED
    BY <2>2, <1>3 DEF t
<1> QED
  BY <1>4, <1>5

(* What is taken from the front is counted no longer.                      *)
LEMMA CountTail ==
  ASSUME NEW S, NEW s \in Seq(S), s # <<>>, NEW e
  PROVE  Count(s, e) = Count(Tail(s), e) + One(Head(s) = e)
<1> DEFINE t == Tail(s)
           P == {i \in DOMAIN s : s[i] = e}
           Q == {i \in DOMAIN t : t[i] = e}
           R == P \ {1}
           f == [i \in Q |-> i + 1]
<1>1. /\ t \in Seq(S) /\ Len(t) = Len(s) - 1 /\ DOMAIN t = 1..Len(t) /\ DOMAIN s = 1..Len(s)
      /\ Len(s) \in Nat /\ Len(s) # 0
      /\ \A i \in DOMAIN t : t[i] = s[i + 1]
      /\ Head(s) = s[1] /\ 1 \in DOMAIN s
  OBVIOUS
<1>2. IsFiniteSet(P) /\ IsFiniteSet(Q)
  <2>1. s \in Seq(S) /\ t \in Seq(S)
    BY <1>1
  <2> HIDE DEF t
  <2>2. IsFiniteSet(P)
    BY <2>1, CountNat
  <2>3. IsFiniteSet(Q)
    BY <2>1, CountNat
  <2> QED
    BY <2>2, <2>3
<1>3. Cardinality(P) \in Nat /\ Cardinality(Q) \in Nat
  <2> HIDE DEF P, Q
  <2> QED
    BY <1>2, FS_CardinalityType
<1>4. f \in Bijection(Q, R)
  <2> HIDE DEF t
  <2>1. \A i \in Q : i + 1 \in R
    BY <1>1
  <2>2. \A j \in R : j - 1 \in Q /\ f[j - 1] = j
    BY <1>1
  <2>3. f \in [Q -> R]
    BY <2>1
  <2>4. \A i, j \in Q : f[i] = f[j] => i = j
    BY <1>1
  <2> HIDE DEF f, Q, R
  <2> QED
    BY <2>2, <2>3, <2>4, Fun_IsBij
<1>5. Cardinality(R) = Cardinality(Q)
  <2> HIDE DEF f, Q, R
  <2> QED
    BY <1>2, <1>4, FS_Bijection DEF ExistsBijection
<1>6. Cardinality(R) = IF 1 \in P THEN Cardinality(P) - 1 ELSE Cardinality(P)
  <2> HIDE DEF P
  <2> QED
    BY <1>2, FS_RemoveElement
<1>7. 1 \in P <=> Head(s) = e
  BY <1>1
<1>8. Count(s, e) = Cardinality(P) /\ Count(Tail(s), e) = Cardinality(Q)
  BY DEF Count
<1>9. One(Head(s) = e) = IF 1 \in P THEN 1 ELSE 0
  BY <1>7 DEF One
<1> HIDE DEF P, Q, R
<1> QED
  BY <1>3, <1>5, <1>6, <1>8, <1>9

(* A prefix counts no more.                                                *)
LEMMA CountPrefix ==
  ASSUME NEW S, NEW s \in Seq(S), NEW n \in 0..Len(s), NEW e
  PROVE  /\ SubSeq(s, 1, n) \in Seq(S) /\ Count(SubSeq(s, 1, n), e) <= Count(s, e)
         /\ \A i \in DOMAIN SubSeq(s, 1, n) : i \in DOMAIN s /\ SubSeq(s, 1, n)[i] = s[i]
<1> DEFINE t == SubSeq(s, 1, n)
           P == {i \in DOMAIN s : s[i] = e}
           Q == {i \in DOMAIN t : t[i] = e}
<1>1. t \in Seq(S) /\ \A i \in DOMAIN t : i \in DOMAIN s /\ t[i] = s[i]
  OBVIOUS
<1>2. IsFiniteSet(P)
  BY CountNat
<1>3. Q \in SUBSET P
  BY <1>1
<1> HIDE DEF t
<1>4. Cardinality(Q) <= Cardinality(P)
  <2> HIDE DEF P, Q
  <2> QED
    BY <1>2, <1>3, FS_Subset
<1> QED
  BY <1>1, <1>4 DEF Count, t

-----------------------------------------------------------------------------
(* What the invariant says of the property                                 *)

(* A set without two elements has at most one.                             *)
LEMMA AtMostOne ==
  ASSUME NEW S, \A x, y \in S : x = y
  PROVE  IsFiniteSet(S) /\ Cardinality(S) \in Nat /\ Cardinality(S) <= 1
         /\ (S = {} => Cardinality(S) = 0)
<1>1. CASE S = {}
  BY <1>1, FS_EmptySet
<1>2. CASE S # {}
  <2>1. PICK x \in S : TRUE
    BY <1>2
  <2>2. S = {x}
    BY <2>1
  <2>3. IsFiniteSet(S) /\ Cardinality(S) = 1
    BY <2>2, FS_Singleton
  <2> QED
    BY <1>2, <2>3
<1> QED
  BY <1>1, <1>2

(* The invariant bounds what the type invariant of the runs bounds.        *)
LEMMA TypesAreOK == CInv => TypeOK
<1> SUFFICES ASSUME CInv PROVE TypeOK
  OBVIOUS
<1>1. \A r \in Requests : channel[r] \in BoundedSeq({"accepted", "data", "final", "err"}, 2)
  <2> TAKE r \in Requests
  <2>1. channel[r] \in Seq(Results) /\ Len(channel[r]) <= 2
    BY DEF CInv, ClientTypes
  <2>2. Results = {"accepted", "data", "final", "err"}
    BY DEF Results, Kinds
  <2> DEFINE s == channel[r]
             n == Len(s)
  <2>3. s \in Seq(Results) /\ n <= 2
    BY <2>1
  <2> HIDE DEF s
  <2>4. n \in Nat /\ s \in [1..n -> Results]
    <3>1. s \in Seq(Results)
      BY <2>3
    <3> QED
      BY ONLY <3>1, LenProperties, Zenon
  <2>5. s \in UNION {[1..m -> Results] : m \in 0..2}
    <3> HIDE DEF n
    <3>1. n \in 0..2
      BY <2>3, <2>4
    <3> QED
      BY <2>4, <3>1
  <2> QED
    BY <2>2, <2>5 DEF BoundedSeq, SeqOf, s
<1>2. \A r \in Requests : credit[r] \in 0..(Window + Chunks) /\ sent[r] \in 0..Chunks
  <2> TAKE r \in Requests
  <2>1. credit[r] \in Nat /\ sent[r] \in 0..Chunks
    BY DEF CInv, ClientTypes
  <2>2. OnTheWay(r) \in Nat
    <3>1. wire \in Seq(Frames) /\ channel[r] \in Seq(Results)
      BY DEF CInv, ClientTypes
    <3>2. Count(wire, Frame(r, "data")) \in Nat /\ Count(channel[r], "data") \in Nat
      BY <3>1, CountNat
    <3>3. One(held = Frame(r, "data")) \in Nat /\ One(at[r] = "crediting") \in Nat
      BY DEF One
    <3> QED
      BY <3>2, <3>3 DEF OnTheWay
  <2>3. credit[r] + OnTheWay(r) <= Window
    BY DEF CInv, Credited
  <2>4. Window \in Nat /\ Chunks \in Nat
    BY ClientBounds
  <2> QED
    BY <2>1, <2>2, <2>3, <2>4
<1>3. held.id \in Requests \cup {NoOne}
  BY DEF CInv, ClientTypes, Frames, NoFrame, Frame
<1> QED
  BY <1>1, <1>2, <1>3 DEF CInv, ClientTypes, TypeOK, Places, Values

(* The invariant leaves a request one end.                                 *)
LEMMA EndsAreOne == CInv => OneOutcome
<1> SUFFICES ASSUME CInv, NEW r \in Requests
             PROVE  Cardinality({x \in {"entry", "sweep", "held"} :
                                   CASE x = "entry" -> r \in pending
                                     [] x = "sweep" -> r \in sweep
                                     [] x = "held" -> held = Frame(r, "final")})
                      + Cardinality({i \in DOMAIN channel[r] : channel[r][i] \in Outcomes}) <= 1
  BY DEF OneOutcome
<1> DEFINE S == {x \in {"entry", "sweep", "held"} :
                   CASE x = "entry" -> r \in pending
                     [] x = "sweep" -> r \in sweep
                     [] x = "held" -> held = Frame(r, "final")}
           E == {i \in DOMAIN channel[r] : channel[r][i] \in Outcomes}
<1>1. /\ "entry" \in S <=> r \in pending
      /\ "sweep" \in S <=> r \in sweep
      /\ "held" \in S <=> held = Frame(r, "final")
      /\ S \subseteq {"entry", "sweep", "held"}
  OBVIOUS
<1>2. /\ r \in pending => r \notin sweep
      /\ r \in pending \cup sweep => held # Frame(r, "final") /\ ~Ended(r)
      /\ held = Frame(r, "final") => ~Ended(r)
      /\ \A i, j \in E : i = j
  BY DEF CInv, Once
<1>3. E # {} => Ended(r)
  BY DEF Ended
<1> HIDE DEF S, E
<1>4. \A x, y \in S : x = y
  BY <1>1, <1>2
<1>5. S # {} => E = {}
  BY <1>1, <1>2, <1>3
<1>6. /\ Cardinality(S) \in Nat /\ Cardinality(S) <= 1 /\ (S = {} => Cardinality(S) = 0)
      /\ Cardinality(E) \in Nat /\ Cardinality(E) <= 1 /\ (E = {} => Cardinality(E) = 0)
  BY <1>2, <1>4, AtMostOne
<1>7. Cardinality(S) + Cardinality(E) <= 1
  BY <1>5, <1>6
<1> QED
  BY <1>7 DEF S, E

(* The invariant is as strong as the property the runs check.              *)
LEMMA InvImplies == CInv => RequestsEndOnce
<1> SUFFICES ASSUME CInv PROVE RequestsEndOnce
  OBVIOUS
<1>1. TypeOK /\ OneOutcome
  BY TypesAreOK, EndsAreOne
<1>2. CancelIsHarmless
  BY DEF CInv, Stopped, CancelIsHarmless
<1>3. AnswersAreReturned
  BY DEF CInv, Answers, AnswersAreReturned
<1> QED
  BY <1>1, <1>2, <1>3 DEF CInv, RequestsEndOnce

-----------------------------------------------------------------------------
(* Steps of the goroutine of a request that touch only where it is and its *)
(* channel                                                                 *)

Others == <<made, pending, sweep, once, transportErr, reader, held, running, wire, helper,
            credit, sent>>

Moved(r) ==
  /\ at' \in [Requests -> Places] /\ ret' \in [Requests -> Values]
  /\ \A q \in Requests : q # r => at'[q] = at[q] /\ ret'[q] = ret[q]
  /\ cancelled' \in SUBSET Streams /\ shutdown' \in BOOLEAN /\ stdinOpen' \in BOOLEAN
  /\ killed' \in BOOLEAN /\ (killed => killed')
  /\ UNCHANGED Others

Taken(r) == channel[r] # <<>> /\ channel' = [channel EXCEPT ![r] = Tail(@)]

(* What the goroutine may do next there.                                   *)
Allowed(r) ==
  /\ at'[r] \notin {"idle", "registered", "requested"}
  /\ at'[r] = "entering" => at[r] = "idle" /\ r = Bye
  /\ at'[r] \in {"starting", "draining"} => r \in Streams
  /\ at'[r] = "stopping" /\ r \in Calls => helper[r] = "idle"
  /\ at'[r] \in {"closing", "closed"} => r = Bye
  /\ at'[r] = "crediting" => r \in Streams /\ Taken(r) /\ Head(channel[r]) = "data"
  /\ r \in Calls /\ at'[r] = "returned" /\ ret'[r] = "failed" =>
       /\ ~Contains(channel'[r], "final")
       /\ \/ reader = "ended" \/ helper[r] = "idle"
          \/ r \notin pending /\ held # Frame(r, "final")
  /\ at'[r] = "returned" /\ Active(r) /\ running => killed' \/ transportErr

(* What taking a result leaves of a channel.                               *)
LEMMA TakenLeaves ==
  ASSUME CInv, NEW r \in Requests, Taken(r)
  PROVE  /\ channel' \in [Requests -> Seq(Results)]
         /\ \A q \in Requests : Len(channel'[q]) <= 2
         /\ \A q \in Requests : q # r => channel'[q] = channel[q]
         /\ \A i \in DOMAIN channel'[r] :
              i \in Nat /\ i + 1 \in DOMAIN channel[r] /\ channel'[r][i] = channel[r][i + 1]
         /\ Count(channel[r], "data") = Count(channel'[r], "data") + One(Head(channel[r]) = "data")
         /\ Count(channel'[r], "data") \in Nat
         /\ 1 \in DOMAIN channel[r] /\ Head(channel[r]) = channel[r][1]
         /\ Head(channel[r]) \in Results
<1> DEFINE s == channel[r]
           t == Tail(s)
<1>1. channel \in [Requests -> Seq(Results)] /\ \A q \in Requests : Len(channel[q]) <= 2
  BY DEF CInv, ClientTypes
<1>2. s \in Seq(Results) /\ s # <<>> /\ channel' = [channel EXCEPT ![r] = t]
  BY <1>1 DEF Taken
<1> HIDE DEF s
<1>3. /\ t \in Seq(Results) /\ Len(t) = Len(s) - 1 /\ Len(s) \in Nat
      /\ \A i \in DOMAIN t : i \in Nat /\ i + 1 \in DOMAIN s /\ t[i] = s[i + 1]
      /\ 1 \in DOMAIN s /\ Head(s) = s[1] /\ Head(s) \in Results
  BY <1>2
<1>4. Count(s, "data") = Count(t, "data") + One(Head(s) = "data")
  BY <1>2, CountTail
<1> HIDE DEF t
<1>5. Count(t, "data") \in Nat
  BY <1>3, CountNat
<1>6. channel'[r] = t /\ \A q \in Requests : q # r => channel'[q] = channel[q]
  BY <1>1, <1>2
<1>7. Len(t) <= 2
  BY <1>1, <1>3 DEF s
<1>8. channel' \in [Requests -> Seq(Results)] /\ \A q \in Requests : Len(channel'[q]) <= 2
  BY <1>1, <1>2, <1>3, <1>6, <1>7
<1> QED
  BY <1>3, <1>4, <1>5, <1>6, <1>8 DEF s

(* Taking results only makes a channel less.                               *)
LEMMA ChannelShrinks ==
  ASSUME CInv, NEW r \in Requests, Taken(r) \/ channel' = channel, NEW q \in Requests
  PROVE  /\ channel' \in [Requests -> Seq(Results)] /\ Len(channel'[q]) <= 2
         /\ \A i \in DOMAIN channel'[q] :
              \E j \in DOMAIN channel[q] : channel'[q][i] = channel[q][j]
         /\ \A i, j \in DOMAIN channel'[q] : i # j =>
              \E k, l \in DOMAIN channel[q] :
                k # l /\ channel'[q][i] = channel[q][k] /\ channel'[q][j] = channel[q][l]
         /\ channel[q] = <<>> => channel'[q] = <<>>
         /\ Count(channel'[q], "data") \in Nat
         /\ Count(channel'[q], "data") <= Count(channel[q], "data")
         /\ Ended(q)' => Ended(q)
<1>1. channel \in [Requests -> Seq(Results)] /\ Len(channel[q]) <= 2
  BY DEF CInv, ClientTypes
<1>2. Count(channel[q], "data") \in Nat
  BY <1>1, CountNat
<1>3. CASE channel'[q] = channel[q] /\ channel' = channel
  BY <1>1, <1>2, <1>3 DEF Ended
<1>4. CASE q # r /\ Taken(r)
  <2>1. channel' \in [Requests -> Seq(Results)] /\ channel'[q] = channel[q]
    BY <1>4, TakenLeaves
  <2> QED
    BY <1>1, <1>2, <2>1 DEF Ended
<1>5. CASE q = r /\ Taken(r)
  <2>1. /\ channel' \in [Requests -> Seq(Results)] /\ Len(channel'[q]) <= 2
        /\ \A i \in DOMAIN channel'[q] :
             i \in Nat /\ i + 1 \in DOMAIN channel[q] /\ channel'[q][i] = channel[q][i + 1]
        /\ Count(channel[q], "data") = Count(channel'[q], "data") + One(Head(channel[q]) = "data")
        /\ Count(channel'[q], "data") \in Nat
    BY <1>5, TakenLeaves
  <2>2. \A i, j \in DOMAIN channel'[q] : i # j =>
          i + 1 # j + 1 /\ i + 1 \in DOMAIN channel[q] /\ j + 1 \in DOMAIN channel[q]
    BY <2>1
  <2>3. Ended(q)' => Ended(q)
    BY <2>1 DEF Ended
  <2>4. Count(channel'[q], "data") <= Count(channel[q], "data")
    BY <2>1 DEF One
  <2>5. channel[q] # <<>>
    BY <1>5 DEF Taken
  <2>6. \A i, j \in DOMAIN channel'[q] : i # j =>
              \E k, l \in DOMAIN channel[q] :
                k # l /\ channel'[q][i] = channel[q][k] /\ channel'[q][j] = channel[q][l]
    BY <2>1, <2>2
  <2> QED
    BY <2>1, <2>3, <2>4, <2>5, <2>6
<1> QED
  BY <1>3, <1>4, <1>5

(* Such a step keeps the types and what only a stopped transport has.      *)
LEMMA MovedKeepsTypes ==
  ASSUME CInv, NEW r \in Requests, Moved(r), Taken(r) \/ channel' = channel
  PROVE  ClientTypes' /\ Stopped' /\ Carried' /\ Watched' /\ Once'
<1>1. \A q \in Requests :
        /\ channel' \in [Requests -> Seq(Results)] /\ Len(channel'[q]) <= 2
        /\ \A i \in DOMAIN channel'[q] :
             \E j \in DOMAIN channel[q] : channel'[q][i] = channel[q][j]
        /\ \A i, j \in DOMAIN channel'[q] : i # j =>
             \E k, l \in DOMAIN channel[q] :
               k # l /\ channel'[q][i] = channel[q][k] /\ channel'[q][j] = channel[q][l]
        /\ Ended(q)' => Ended(q)
  BY ChannelShrinks
<1>2. UNCHANGED Others
  BY DEF Moved
<1>3. ClientTypes'
  <2>1. channel' \in [Requests -> Seq(Results)] /\ \A q \in Requests : Len(channel'[q]) <= 2
    BY <1>1
  <2>2. made \in Mixes
    BY DEF CInv, ClientTypes
  <2> QED
    BY <1>2, <2>1 DEF CInv, ClientTypes, Moved, Others
<1>4. Stopped'
  BY <1>1, <1>2 DEF CInv, Stopped, Others
<1>5. Carried'
  <2>1. \A q \in Requests : \A i \in DOMAIN channel'[q] :
          channel'[q][i] = "err" \/ Sent(q, channel'[q][i])
    BY <1>1 DEF CInv, Carried
  <2> QED
    BY <1>2, <2>1 DEF CInv, Carried, Sent, Others
<1>6. Watched'
  BY <1>2 DEF CInv, Watched, Active, Others
<1>7. Once'
  <2> SUFFICES ASSUME NEW q \in Requests
               PROVE  /\ q \in pending => q \notin sweep
                      /\ q \in pending \cup sweep => held # Frame(q, "final") /\ ~Ended(q)'
                      /\ held = Frame(q, "final") => ~Ended(q)'
                      /\ \A i, j \in DOMAIN channel'[q] :
                           channel'[q][i] \in Outcomes /\ channel'[q][j] \in Outcomes => i = j
    BY <1>2 DEF Once, Others
  <2>1. /\ q \in pending => q \notin sweep
        /\ q \in pending \cup sweep => held # Frame(q, "final") /\ ~Ended(q)
        /\ held = Frame(q, "final") => ~Ended(q)
        /\ \A i, j \in DOMAIN channel[q] :
             channel[q][i] \in Outcomes /\ channel[q][j] \in Outcomes => i = j
    BY DEF CInv, Once
  <2>2. \A i, j \in DOMAIN channel'[q] :
          channel'[q][i] \in Outcomes /\ channel'[q][j] \in Outcomes => i = j
    BY <1>1, <2>1
  <2>3. Ended(q)' => Ended(q)
    BY <1>1
  <2> QED
    BY <2>1, <2>2, <2>3
<1> QED
  BY <1>3, <1>4, <1>5, <1>6, <1>7

(* And where it is allowed to go, the rest.                                *)
LEMMA MovedKeepsPlaces ==
  ASSUME CInv, NEW r \in Requests, Moved(r), Taken(r) \/ channel' = channel, Allowed(r)
  PROVE  Placed' /\ Answers' /\ NothingRunsUnwatched' /\ Credited'
<1>1. UNCHANGED Others
  BY DEF Moved
<1>2. \A q \in Requests : q # r => at'[q] = at[q] /\ ret'[q] = ret[q] /\ channel'[q] = channel[q]
  BY TakenLeaves DEF Moved
<1>3. Placed'
  <2>1. \A q \in Requests : q # r =>
          /\ at'[q] \in {"idle", "entering"} =>
               helper[q] = "idle" /\ channel'[q] = <<>> /\ q \notin pending /\ q \notin sweep
          /\ at'[q] = "registered" => helper[q] = "idle" /\ (q \in pending \/ transportErr)
          /\ at'[q] \in {"requested", "starting", "crediting", "draining"} => q \in Streams
          /\ at'[q] = "stopping" /\ q \in Calls => helper[q] = "idle"
          /\ at'[q] \in {"entering", "closing", "closed"} => q = Bye
    BY <1>2 DEF CInv, Placed
  <2>2. /\ at'[r] \in {"idle", "entering"} =>
             helper[r] = "idle" /\ channel'[r] = <<>> /\ r \notin pending /\ r \notin sweep
        /\ at'[r] = "registered" => helper[r] = "idle" /\ (r \in pending \/ transportErr)
        /\ at'[r] \in {"requested", "starting", "crediting", "draining"} => r \in Streams
        /\ at'[r] = "stopping" /\ r \in Calls => helper[r] = "idle"
        /\ at'[r] \in {"entering", "closing", "closed"} => r = Bye
    BY DEF CInv, Placed, Allowed, Taken
  <2> QED
    BY <1>1, <2>1, <2>2 DEF Placed, Others
<1>4. Answers'
  <2>1. \A q \in Calls : q # r => (at'[q] = "returned" /\ ret'[q] = "failed" =>
          /\ ~Contains(channel'[q], "final")
          /\ \/ reader = "ended" \/ helper[q] = "idle"
             \/ q \notin pending /\ held # Frame(q, "final"))
    BY <1>2 DEF CInv, Answers, Requests
  <2>2. r \in Calls => (at'[r] = "returned" /\ ret'[r] = "failed" =>
          /\ ~Contains(channel'[r], "final")
          /\ \/ reader = "ended" \/ helper[r] = "idle"
             \/ r \notin pending /\ held # Frame(r, "final"))
    BY DEF Allowed
  <2> QED
    BY <1>1, <2>1, <2>2 DEF Answers, Others
<1>5. NothingRunsUnwatched'
  <2>1. \A q \in Requests : q # r /\ at'[q] = "returned" /\ Active(q) /\ running =>
          killed' \/ transportErr
    BY <1>2 DEF CInv, NothingRunsUnwatched, Moved
  <2>2. at'[r] = "returned" /\ Active(r) /\ running => killed' \/ transportErr
    BY <1>1 DEF Allowed, Others
  <2> QED
    BY <1>1, <2>1, <2>2 DEF NothingRunsUnwatched, Active, Others
<1>6. Credited'
  <2> SUFFICES ASSUME NEW q \in Requests
               PROVE  /\ credit[q] + OnTheWay(q)' <= Window
                      /\ at'[q] \in {"idle", "entering", "registered", "requested"} =>
                           credit[q] = 0 /\ sent[q] = 0
                      /\ sent[q] = 0 => OnTheWay(q)' = 0
    BY <1>1 DEF Credited, Others
  <2>1. /\ credit[q] + OnTheWay(q) <= Window
        /\ at[q] \in {"idle", "entering", "registered", "requested"} => credit[q] = 0 /\ sent[q] = 0
        /\ sent[q] = 0 => OnTheWay(q) = 0
    BY DEF CInv, Credited
  <2>2. at'[q] \in {"idle", "entering", "registered", "requested"} =>
          at[q] \in {"idle", "entering", "registered", "requested"}
    BY <1>2 DEF Allowed
  <2> DEFINE w == Count(wire, Frame(q, "data"))
             h == One(held = Frame(q, "data"))
             c == Count(channel[q], "data")
             d == Count(channel[q], "data")'
             a == One(at[q] = "crediting")
             b == One(at[q] = "crediting")'
  <2>3. credit[q] \in Nat /\ w \in Nat /\ c \in Nat /\ d \in Nat /\ d <= c
    <3>1. channel[q] \in Seq(Results) /\ wire \in Seq(Frames) /\ credit[q] \in Nat
      BY DEF CInv, ClientTypes
    <3>2. w \in Nat /\ c \in Nat
      BY <3>1, CountNat
    <3>3. Count(channel[q], "data")' \in Nat /\ Count(channel[q], "data")' <= c
      BY ChannelShrinks
    <3> QED
      BY <3>1, <3>2, <3>3
  <2>4. h \in Nat /\ a \in Nat /\ b \in Nat
    BY DEF One
  <2>5. d + b <= c + a
    <3>1. CASE at'[q] = "crediting" /\ at[q] # "crediting"
      <4>1. q = r /\ Taken(r) /\ Head(channel[r]) = "data"
        BY <1>2, <3>1 DEF Allowed
      <4>2. c = Count(channel[q], "data")' + One(Head(channel[r]) = "data")
        BY <4>1, TakenLeaves
      <4>3. c = d + 1 /\ b = 1
        BY <3>1, <4>1, <4>2 DEF One
      <4> QED
        BY <2>3, <2>4, <4>3
    <3>2. CASE at'[q] = "crediting" => at[q] = "crediting"
      <4>1. b <= a
        BY <3>2 DEF One
      <4> QED
        BY <2>3, <2>4, <4>1
    <3> QED
      BY <3>1, <3>2
  <2>6. OnTheWay(q) = w + h + c + a /\ OnTheWay(q)' = w + h + d + b
    BY <1>1 DEF OnTheWay, Others
  <2>7. Window \in Nat
    BY ClientBounds
  <2> HIDE DEF w, h, c, d, a, b
  <2> QED
    BY <2>1, <2>2, <2>3, <2>4, <2>5, <2>6, <2>7
<1> QED
  BY <1>3, <1>4, <1>5, <1>6

(* So such a step keeps the invariant.                                     *)
LEMMA MovedKeeps ==
  ASSUME CInv, NEW r \in Requests, Moved(r), Taken(r) \/ channel' = channel, Allowed(r)
  PROVE  CInv'
BY MovedKeepsTypes, MovedKeepsPlaces DEF CInv

(* Going to a place changes nobody else's.                                 *)
LEMMA GoesTo ==
  ASSUME CInv, NEW r \in Requests, NEW p \in Places, NEW v \in Values
  PROVE  /\ Goto(r, p) =>
              /\ at' \in [Requests -> Places] /\ ret' \in [Requests -> Values]
              /\ at'[r] = p /\ ret'[r] = ret[r]
              /\ \A q \in Requests : q # r => at'[q] = at[q] /\ ret'[q] = ret[q]
         /\ Return(r, v) =>
              /\ at' \in [Requests -> Places] /\ ret' \in [Requests -> Values]
              /\ at'[r] = "returned" /\ ret'[r] = v
              /\ \A q \in Requests : q # r => at'[q] = at[q] /\ ret'[q] = ret[q]
<1>1. at \in [Requests -> Places] /\ ret \in [Requests -> Values]
  BY DEF CInv, ClientTypes
<1>2. "returned" \in Places
  BY DEF Places
<1> QED
  BY <1>1, <1>2 DEF Goto, Return

(* A step of one goroutine that leaves the rest is a move.                 *)
LEMMA MovedBy ==
  ASSUME CInv, NEW r \in Requests, NEW p \in Places, NEW v \in Values,
         Goto(r, p) \/ Return(r, v),
         UNCHANGED cancelled \/ (r \in Streams /\ cancelled' = cancelled \cup {r}),
         UNCHANGED shutdown \/ shutdown' = TRUE, UNCHANGED stdinOpen \/ stdinOpen' = FALSE,
         UNCHANGED killed \/ killed' = (killed \/ r = Bye),
         UNCHANGED Others
  PROVE  Moved(r)
<1>1. /\ cancelled \in SUBSET Streams /\ shutdown \in BOOLEAN /\ stdinOpen \in BOOLEAN
      /\ killed \in BOOLEAN
  BY DEF CInv, ClientTypes
<1>2. /\ at' \in [Requests -> Places] /\ ret' \in [Requests -> Values]
      /\ \A q \in Requests : q # r => at'[q] = at[q] /\ ret'[q] = ret[q]
  BY GoesTo
<1>3. /\ cancelled' \in SUBSET Streams /\ shutdown' \in BOOLEAN /\ stdinOpen' \in BOOLEAN
      /\ killed' \in BOOLEAN /\ (killed => killed')
  BY <1>1
<1> QED
  BY <1>2, <1>3 DEF Moved

(* What the first result of a channel tells.                               *)
LEMMA FirstTells ==
  ASSUME CInv, NEW r \in Requests, channel[r] # <<>>
  PROVE  /\ Head(channel[r]) \in Results
         /\ Head(channel[r]) = "err" => transportErr
         /\ Head(channel[r]) = "final" => ~Active(r)
         /\ Head(channel[r]) \in Outcomes =>
              /\ r \notin pending /\ held # Frame(r, "final")
              /\ Taken(r) => ~Contains(channel'[r], "final")
<1> DEFINE s == channel[r]
<1>1. s \in Seq(Results) /\ s # <<>>
  BY DEF CInv, ClientTypes
<1>2. 1 \in DOMAIN s /\ Head(s) = s[1] /\ Head(s) \in Results
  <2> HIDE DEF s
  <2> QED
    BY <1>1
<1>3. Head(s) = "err" => transportErr
  BY <1>2 DEF CInv, Stopped
<1>4. Head(s) = "final" => ~Active(r)
  BY <1>2 DEF CInv, Carried, Sent, Active
<1>5. ASSUME Head(s) \in Outcomes
      PROVE  /\ r \notin pending /\ held # Frame(r, "final")
             /\ Taken(r) => ~Contains(channel'[r], "final")
  <2>1. Ended(r)
    BY <1>2, <1>5 DEF Ended
  <2>2. r \notin pending /\ held # Frame(r, "final")
    BY <2>1 DEF CInv, Once
  <2>3. ASSUME Taken(r), Contains(channel'[r], "final") PROVE FALSE
    <3>1. channel' \in [Requests -> Seq(Results)]
      BY <2>3, TakenLeaves
    <3>2. PICK i \in DOMAIN channel'[r] : channel'[r][i] = "final"
      BY <2>3, <3>1 DEF Contains
    <3>3. i \in Nat /\ i # 0 /\ i + 1 \in DOMAIN s /\ s[i + 1] = "final"
      <4>1. i \in Nat /\ i + 1 \in DOMAIN s /\ s[i + 1] = "final"
        BY <2>3, <3>2, TakenLeaves
      <4>2. i \in 1..Len(channel'[r])
        BY <3>1, <3>2
      <4> QED
        BY <4>1, <4>2
    <3>4. i + 1 = 1
      BY <1>2, <1>5, <3>3 DEF CInv, Once, Outcomes
    <3> QED
      BY <3>3, <3>4
  <2> QED
    BY <2>2, <2>3
<1> QED
  BY <1>2, <1>3, <1>4, <1>5

(* Whoever has lost its entry is not worked on, or the transport stops;    *)
(* the same is true when the reader has ended.                             *)
LEMMA NoEntry ==
  ASSUME CInv, NEW r \in Requests
  PROVE  /\ r \notin pending => ~Active(r) \/ transportErr
         /\ reader = "ended" => ~running \/ transportErr
         /\ once = "done" => transportErr
BY KindsAreDisjoint DEF CInv, Watched, Stopped

-----------------------------------------------------------------------------
(* Making a request and closing the helper                                 *)

(* A refused request returns.                                              *)
LEMMA RefusedKeeps ==
  ASSUME CInv, NEW r \in Requests, Register(r), pending' = pending
  PROVE  CInv'
<1>1. CASE Fail(r, "refused")
  <2>1. Moved(r) /\ channel' = channel
    BY <1>1, MovedBy DEF Register, Fail, Places, Values, Others, stopVars, helperVars
  <2>2. at'[r] = "returned" /\ ret'[r] = "refused"
    BY <1>1, GoesTo DEF Fail, Places, Values
  <2>3. ~Active(r)
    BY DEF CInv, Placed, Register, Active
  <2> QED
    BY <2>1, <2>2, <2>3, MovedKeeps DEF Allowed
<1>2. CASE ~Fail(r, "refused")
  <2>1. pending' = pending \cup {r} /\ r \in made
    BY <1>2 DEF Register
  <2>2. r \notin pending
    BY DEF CInv, Placed, Register
  <2> QED
    BY <2>1, <2>2
<1> QED
  BY <1>1, <1>2

(* The shutdown is announced, closes stdin and comes back.                 *)
LEMMA ShutdownKeeps ==
  ASSUME CInv, Shutdown \/ CloseStdin \/ ProcessGone \/ ShutdownTimesOut
  PROVE  CInv'
<1>1. Bye \in Requests /\ Bye \notin Calls /\ Bye \notin Streams
  BY KindsAreDisjoint DEF Requests, Streams
<1>2. {"entering", "closed"} \subseteq Places /\ {"answer", "failed"} \subseteq Values
  BY DEF Places, Values
<1>3. CASE Shutdown
  <2>1. Moved(Bye) /\ channel' = channel /\ at[Bye] = "idle"
    BY <1>1, <1>2, <1>3, MovedBy
    DEF Shutdown, Others, stopVars, helperVars, procVars, Values
  <2>2. at'[Bye] = "entering"
    BY <1>1, <1>2, <1>3, GoesTo DEF Shutdown
  <2> QED
    BY <1>1, <2>1, <2>2, MovedKeeps DEF Allowed
<1>4. CASE CloseStdin
  <2>1. Moved(Bye) /\ channel' = channel
    BY <1>1, <1>2, <1>4, MovedBy DEF CloseStdin, Others, stopVars, helperVars
  <2>2. at'[Bye] = "closed"
    BY <1>1, <1>2, <1>4, GoesTo DEF CloseStdin
  <2> QED
    BY <1>1, <2>1, <2>2, MovedKeeps DEF Allowed
<1>5. CASE ProcessGone
  <2>1. Moved(Bye) /\ channel' = channel /\ ~running
    BY <1>1, <1>2, <1>5, MovedBy DEF ProcessGone, Others, stopVars, helperVars, procVars
  <2>2. at'[Bye] = "returned"
    BY <1>1, <1>2, <1>5, GoesTo DEF ProcessGone
  <2> QED
    BY <1>1, <2>1, <2>2, MovedKeeps DEF Allowed
<1>6. CASE ShutdownTimesOut
  <2>1. Moved(Bye) /\ channel' = channel /\ killed'
    BY <1>1, <1>2, <1>6, MovedBy DEF ShutdownTimesOut, Fail, Others, stopVars, helperVars
  <2>2. at'[Bye] = "returned"
    BY <1>1, <1>2, <1>6, GoesTo DEF ShutdownTimesOut, Fail
  <2> QED
    BY <1>1, <2>1, <2>2, MovedKeeps DEF Allowed
<1> QED
  BY <1>3, <1>4, <1>5, <1>6

-----------------------------------------------------------------------------
(* Plain calls                                                             *)

(* A request whose frame cannot be written meets the broken pipe.          *)
LEMMA WriteFailsKeeps ==
  ASSUME CInv, NEW r \in Requests, ~CanWrite,
         WriteRequest(r) \/ OpenCredit(r) \/ ReturnCredit(r)
  PROVE  CInv'
<1>1. Goto(r, "stopping") /\ channel' = channel
      /\ UNCHANGED <<cancelled, shutdown, procVars, Others>>
  <2>1. CASE WriteRequest(r)
    BY <2>1 DEF WriteRequest, Others, stopVars, procVars
  <2>2. CASE OpenCredit(r)
    BY <2>2 DEF OpenCredit, Others, stopVars, procVars
  <2>3. CASE ReturnCredit(r)
    BY <2>3 DEF ReturnCredit, Others, stopVars, procVars
  <2> QED
    BY <2>1, <2>2, <2>3
<1>2. "stopping" \in Places /\ "none" \in Values
  BY DEF Places, Values
<1>3. Moved(r)
  BY <1>1, <1>2, MovedBy DEF procVars
<1>4. at'[r] = "stopping"
  BY <1>1, <1>2, GoesTo
<1>5. r \in Calls => helper[r] = "idle"
  <2>1. at[r] \in {"registered", "requested", "crediting"}
    BY DEF WriteRequest, OpenCredit, ReturnCredit
  <2>2. r \in Calls => r \notin Streams
    BY KindsAreDisjoint DEF Streams
  <2> QED
    BY <2>1, <2>2 DEF CInv, Placed
<1> QED
  BY <1>1, <1>3, <1>4, <1>5, MovedKeeps DEF Allowed

(* The first result ends a call, or starts the end of the shutdown.        *)
LEMMA SettleKeeps ==
  ASSUME CInv, NEW r \in Requests, r \notin Streams, Taken(r), Settle(r),
         UNCHANGED <<cancelled, shutdown, stdinOpen, Others>>
  PROVE  CInv'
<1>1. {"closing"} \subseteq Places /\ {"answer", "failed"} \subseteq Values
  BY DEF Places, Values
<1>2. channel[r] # <<>>
  BY DEF Taken
<1>3. CASE Head(channel[r]) = "final" /\ r = Bye
  <2>1. Goto(r, "closing") /\ killed' = killed
    BY <1>3 DEF Settle
  <2>2. Moved(r) /\ at'[r] = "closing"
    BY <1>1, <2>1, MovedBy, GoesTo
  <2> QED
    BY <1>3, <2>2, MovedKeeps DEF Allowed
<1>4. CASE Head(channel[r]) = "final" /\ r # Bye
  <2>1. Return(r, "answer") /\ killed' = killed
    BY <1>4 DEF Settle
  <2>2. Moved(r) /\ at'[r] = "returned" /\ ret'[r] = "answer"
    BY <1>1, <2>1, MovedBy, GoesTo
  <2>3. ~Active(r)
    BY <1>2, <1>4, FirstTells
  <2> QED
    BY <2>2, <2>3, MovedKeeps DEF Allowed
<1>5. CASE Head(channel[r]) # "final"
  <2>1. Return(r, "failed") /\ killed' = (killed \/ r = Bye)
    BY <1>5 DEF Settle, Fail
  <2>2. Moved(r) /\ at'[r] = "returned"
    BY <1>1, <2>1, MovedBy, GoesTo
  <2>3. Head(channel[r]) = "err"
    <3>1. Head(channel[r]) \in Results
      BY <1>2, FirstTells
    <3>2. Head(channel[r]) \notin {"accepted", "data"}
      <4>1. channel[r] \in Seq(Results)
        BY DEF CInv, ClientTypes
      <4>2. 1 \in DOMAIN channel[r] /\ channel[r][1] = Head(channel[r])
        BY <1>2, <4>1
      <4> QED
        BY <4>2 DEF CInv, Carried, Sent
    <3> QED
      BY <1>5, <3>1, <3>2 DEF Results, Kinds
  <2>4. /\ r \notin pending /\ held # Frame(r, "final") /\ ~Contains(channel'[r], "final")
        /\ transportErr' = transportErr /\ transportErr
    BY <1>2, <2>3, FirstTells DEF Outcomes, Others
  <2> QED
    BY <2>2, <2>4, MovedKeeps DEF Allowed
<1> QED
  BY <1>3, <1>4, <1>5

(* A call waits for its result or for the end of the reader.               *)
LEMMA OutcomeKeeps ==
  ASSUME CInv, NEW r \in Requests, TakeOutcome(r) \/ ReaderGone(r)
  PROVE  CInv'
<1>1. CASE TakeOutcome(r)
  <2>1. /\ Taken(r) /\ r \notin Streams /\ Settle(r)
        /\ UNCHANGED <<cancelled, shutdown, stdinOpen, Others>>
    BY <1>1 DEF TakeOutcome, Taken, Others, stopVars, helperVars
  <2> QED
    BY <2>1, SettleKeeps
<1>2. CASE ReaderGone(r) /\ channel[r] # <<>>
  <2>1. /\ Taken(r) /\ r \notin Streams /\ Settle(r)
        /\ UNCHANGED <<cancelled, shutdown, stdinOpen, Others>>
    BY <1>2 DEF ReaderGone, Taken, Others, stopVars, helperVars
  <2> QED
    BY <2>1, SettleKeeps
<1>3. CASE ReaderGone(r) /\ channel[r] = <<>>
  <2>1. /\ Return(r, "failed") /\ killed' = (killed \/ r = Bye) /\ channel' = channel
        /\ UNCHANGED <<cancelled, shutdown, stdinOpen, Others>> /\ reader = "ended"
    BY <1>3 DEF ReaderGone, Fail, Others, stopVars, helperVars
  <2>2. Moved(r) /\ at'[r] = "returned"
    <3>1. "failed" \in Values /\ "idle" \in Places
      BY DEF Values, Places
    <3> QED
      BY <2>1, <3>1, MovedBy, GoesTo
  <2>3. ~Contains(channel'[r], "final")
    <3>1. 1..Len(channel'[r]) = {}
      BY <1>3, <2>1
    <3> QED
      BY <3>1 DEF Contains
  <2>4. ~running \/ transportErr
    BY <2>1, NoEntry
  <2> QED
    BY <2>1, <2>2, <2>3, <2>4, MovedKeeps DEF Allowed
<1> QED
  BY <1>1, <1>2, <1>3

(* A call gives up, or says so to the helper.                              *)
LEMMA GivingUpKeeps ==
  ASSUME CInv, NEW r \in Requests, ContextEnds(r) \/ WriteCancel(r)
  PROVE  CInv'
<1>1. /\ UNCHANGED <<cancelled, shutdown, stdinOpen, Others>> /\ channel' = channel
      /\ \/ \E p \in {"cancelling", "settling", "resuming"} : Goto(r, p) /\ killed' = killed
         \/ r = Bye /\ Return(r, "cancelled") /\ killed' = (killed \/ r = Bye)
  <2>1. CASE ContextEnds(r)
    BY <2>1 DEF ContextEnds, Fail, Others, stopVars, helperVars
  <2>2. CASE WriteCancel(r)
    BY <2>2 DEF WriteCancel, Fail, Others, stopVars, helperVars
  <2> QED
    BY <2>1, <2>2
<1>2. {"cancelling", "settling", "resuming"} \subseteq Places /\ {"none", "cancelled"} \subseteq Values
  BY DEF Places, Values
<1>3. ASSUME NEW p \in {"cancelling", "settling", "resuming"}, Goto(r, p), killed' = killed
      PROVE  CInv'
  <2>1. Moved(r) /\ at'[r] = p
    <3>1. p \in Places
      BY <1>2
    <3> QED
      BY <1>1, <1>2, <1>3, <3>1, MovedBy, GoesTo
  <2> QED
    BY <1>1, <2>1, MovedKeeps DEF Allowed
<1>4. CASE r = Bye /\ Return(r, "cancelled") /\ killed' = (killed \/ r = Bye)
  <2>1. Moved(r) /\ at'[r] = "returned" /\ ret'[r] = "cancelled" /\ killed'
    <3>1. "idle" \in Places
      BY DEF Places
    <3> QED
      BY <1>1, <1>2, <1>4, <3>1, MovedBy, GoesTo
  <2> QED
    BY <1>1, <2>1, MovedKeeps DEF Allowed
<1> QED
  BY <1>1, <1>3, <1>4

-----------------------------------------------------------------------------
(* Streams                                                                 *)

(* A consumer takes one result.                                            *)
LEMMA TakingKeeps ==
  ASSUME CInv, NEW r \in Streams, Consume(r) \/ TerminalStarts(r)
  PROVE  CInv'
<1>1. r \in Requests /\ r \notin Calls /\ r # Bye
  BY KindsAreDisjoint DEF Streams, Requests
<1>2. /\ UNCHANGED <<cancelled, shutdown, procVars, Others>> /\ channel[r] # <<>>
      /\ channel' = [channel EXCEPT ![r] = Tail(@)]
      /\ \/ Goto(r, "waiting")
         \/ Head(channel[r]) = "data" /\ Goto(r, "crediting")
         \/ Head(channel[r]) = "final" /\ Return(r, "answer")
         \/ Head(channel[r]) = "err" /\ Return(r, "failed")
  <2>1. CASE Consume(r)
    BY <2>1 DEF Consume, Take, End, Others, stopVars, procVars, helperVars
  <2>2. CASE TerminalStarts(r)
    BY <2>2 DEF TerminalStarts, Take, End, Others, stopVars, procVars, helperVars
  <2> QED
    BY <2>1, <2>2
<1>3. Taken(r)
  BY <1>2 DEF Taken
<1>4. {"waiting", "crediting"} \subseteq Places /\ {"answer", "failed"} \subseteq Values
  BY DEF Places, Values
<1>5. CASE Goto(r, "waiting")
  <2>1. Moved(r) /\ at'[r] = "waiting"
    BY <1>1, <1>2, <1>4, <1>5, MovedBy, GoesTo DEF procVars
  <2> QED
    BY <1>1, <1>3, <2>1, MovedKeeps DEF Allowed
<1>6. CASE Head(channel[r]) = "data" /\ Goto(r, "crediting")
  <2>1. Moved(r) /\ at'[r] = "crediting"
    BY <1>1, <1>2, <1>4, <1>6, MovedBy, GoesTo DEF procVars
  <2> QED
    BY <1>1, <1>3, <1>6, <2>1, MovedKeeps DEF Allowed
<1>7. ASSUME NEW v \in {"answer", "failed"}, Head(channel[r]) \in Outcomes, Return(r, v)
      PROVE  CInv'
  <2>1. Moved(r) /\ at'[r] = "returned"
    BY <1>1, <1>2, <1>4, <1>7, MovedBy, GoesTo DEF procVars
  <2>2. ~Active(r) \/ transportErr
    BY <1>1, <1>2, <1>7, FirstTells DEF Outcomes
  <2> QED
    BY <1>1, <1>3, <2>1, <2>2, MovedKeeps DEF Allowed
<1> QED
  BY <1>2, <1>5, <1>6, <1>7 DEF Outcomes

(* A stream is cancelled, or finds the reader gone.                        *)
LEMMA LeavingKeeps ==
  ASSUME CInv, NEW r \in Requests,
         CancelStream(r) \/ StreamReaderGone(r) \/ CancelStartup(r)
  PROVE  CInv'
<1>1. r \in Streams
  BY DEF CancelStream, StreamReaderGone, CancelStartup, CInv, Placed
<1>2. r \notin Calls /\ r # Bye
  BY <1>1, KindsAreDisjoint DEF Streams
<1>3. {"waiting", "stopping", "resuming", "draining"} \subseteq Places
      /\ {"failed", "cancelled"} \subseteq Values
  BY DEF Places, Values
<1>4. CASE CancelStream(r)
  <2>1. PICK p \in {"waiting", "stopping", "resuming"} : Goto(r, p)
    BY <1>4 DEF CancelStream
  <2>2. /\ UNCHANGED <<shutdown, procVars, Others>> /\ channel' = channel
        /\ cancelled' = cancelled \cup {r}
    BY <1>4 DEF CancelStream, Others, stopVars, procVars, helperVars
  <2>3. Moved(r) /\ at'[r] = p
    BY <1>1, <1>3, <2>1, <2>2, MovedBy, GoesTo DEF procVars
  <2> QED
    BY <1>2, <2>2, <2>3, MovedKeeps DEF Allowed
<1>5. CASE StreamReaderGone(r)
  <2>1. /\ UNCHANGED <<cancelled, shutdown, procVars, Others>> /\ channel' = channel
        /\ Return(r, "failed") /\ reader = "ended"
    BY <1>5 DEF StreamReaderGone, Others, stopVars, procVars, helperVars
  <2>2. Moved(r) /\ at'[r] = "returned"
    BY <1>3, <2>1, MovedBy, GoesTo DEF procVars
  <2>3. ~running \/ transportErr
    BY <2>1, NoEntry
  <2> QED
    BY <1>2, <2>1, <2>2, <2>3, MovedKeeps DEF Allowed
<1>6. CASE CancelStartup(r)
  <2>1. /\ UNCHANGED <<cancelled, shutdown, procVars, Others>> /\ channel' = channel
        /\ at' = [at EXCEPT ![r] = "draining"] /\ ret' = [ret EXCEPT ![r] = "cancelled"]
    BY <1>6 DEF CancelStartup, Others, stopVars, procVars, helperVars
  <2>2. at \in [Requests -> Places] /\ ret \in [Requests -> Values]
    BY DEF CInv, ClientTypes
  <2>3. /\ at' \in [Requests -> Places] /\ ret' \in [Requests -> Values] /\ at'[r] = "draining"
        /\ \A q \in Requests : q # r => at'[q] = at[q] /\ ret'[q] = ret[q]
    BY <1>3, <2>1, <2>2
  <2>4. Moved(r)
    BY <2>1, <2>3 DEF Moved, procVars, CInv, ClientTypes
  <2> QED
    BY <1>1, <1>2, <2>1, <2>3, <2>4, MovedKeeps DEF Allowed
<1> QED
  BY <1>4, <1>5, <1>6

(* What is left of a cancelled start is taken until its end.               *)
LEMMA DrainKeeps ==
  ASSUME CInv, NEW r \in Requests, Drain(r)
  PROVE  CInv'
<1>1. r \in Streams
  BY DEF Drain, CInv, Placed
<1>2. r \notin Calls /\ r # Bye
  BY <1>1, KindsAreDisjoint DEF Streams
<1>3. {"draining", "returned"} \subseteq Places /\ "none" \in Values
  BY DEF Places, Values
<1>4. UNCHANGED <<cancelled, shutdown, procVars, Others>>
  BY DEF Drain, Others, stopVars, procVars, helperVars
<1>5. CASE Taken(r) /\ Goto(r, IF Head(channel[r]) \in Outcomes THEN "returned" ELSE "draining")
  <2> DEFINE p == IF Head(channel[r]) \in Outcomes THEN "returned" ELSE "draining"
  <2>1. p \in Places
    BY <1>3
  <2>2. Moved(r) /\ at'[r] = p
    <3> HIDE DEF p
    <3>1. Goto(r, p)
      BY <1>5 DEF p
    <3> QED
      BY <1>3, <1>4, <2>1, <3>1, MovedBy, GoesTo DEF procVars
  <2>3. at'[r] = "returned" => ~Active(r) \/ transportErr
    BY <1>4, <1>5, <2>2, FirstTells DEF Outcomes, Taken
  <2> QED
    BY <1>1, <1>2, <1>5, <2>2, <2>3, MovedKeeps DEF Allowed
<1>6. CASE reader = "ended" /\ Goto(r, "returned") /\ channel' = channel
  <2>1. Moved(r) /\ at'[r] = "returned"
    BY <1>3, <1>4, <1>6, MovedBy, GoesTo DEF procVars
  <2>2. ~running \/ transportErr
    BY <1>4, <1>6, NoEntry
  <2> QED
    BY <1>2, <1>6, <2>1, <2>2, MovedKeeps DEF Allowed
<1> QED
  BY <1>5, <1>6 DEF Drain, Take, Taken

-----------------------------------------------------------------------------
(* Steps that touch the table, the helper or the credit                    *)

(* The data on its way is counted in natural numbers.                      *)
LEMMA WayNat ==
  ASSUME CInv, NEW q \in Requests
  PROVE  /\ Count(wire, Frame(q, "data")) \in Nat /\ Count(channel[q], "data") \in Nat
         /\ One(held = Frame(q, "data")) \in Nat /\ One(at[q] = "crediting") \in Nat
         /\ OnTheWay(q) \in Nat /\ credit[q] \in Nat /\ Window \in Nat
<1>1. channel[q] \in Seq(Results) /\ wire \in Seq(Frames) /\ credit[q] \in Nat
  BY DEF CInv, ClientTypes
<1>2. Count(wire, Frame(q, "data")) \in Nat /\ Count(channel[q], "data") \in Nat
  BY <1>1, CountNat
<1>3. One(held = Frame(q, "data")) \in Nat /\ One(at[q] = "crediting") \in Nat
  BY DEF One
<1> QED
  BY <1>1, <1>2, <1>3, ClientBounds DEF OnTheWay

(* A step that leaves the frames and results, and who is about to return   *)
(* credit, leaves what is on its way.                                      *)
LEMMA WaySame ==
  ASSUME NEW q \in Requests, UNCHANGED <<wire, held, channel>>,
         at'[q] = "crediting" <=> at[q] = "crediting"
  PROVE  OnTheWay(q)' = OnTheWay(q)
<1>1. One(at[q] = "crediting")' = One(at[q] = "crediting")
  BY DEF One
<1> QED
  BY <1>1 DEF OnTheWay

(* A request enters the table.                                             *)
LEMMA EnteredKeeps ==
  ASSUME CInv, NEW r \in Requests, Register(r), pending' # pending
  PROVE  CInv'
<1>1. /\ ~transportErr /\ ~(Cardinality(pending) >= MaxPending)
      /\ pending' = pending \cup {r} /\ Goto(r, "registered")
      /\ UNCHANGED <<made, cancelled, channel, shutdown, stopVars, reader, held, procVars, wire,
                     helperVars>>
  BY DEF Register, procVars
<1>2. at[r] \in {"idle", "entering"}
  BY DEF Register
<1>3. /\ at' \in [Requests -> Places] /\ at'[r] = "registered" /\ ret' = ret
      /\ \A q \in Requests : q # r => at'[q] = at[q]
  <2>1. "registered" \in Places /\ "none" \in Values
    BY DEF Places, Values
  <2> QED
    BY <1>1, <2>1, GoesTo DEF Goto
<1>4. helper[r] = "idle" /\ channel[r] = <<>> /\ r \notin pending /\ r \notin sweep
  BY <1>2 DEF CInv, Placed
<1>5. ClientTypes'
  <2>1. IsFiniteSet(pending') /\ Cardinality(pending') <= MaxPending /\ pending' \in SUBSET Requests
    <3>1. pending \in SUBSET Requests /\ IsFiniteSet(pending)
      BY DEF CInv, ClientTypes
    <3>2. Cardinality(pending) \in Nat /\ MaxPending \in Nat
      BY <3>1, FS_CardinalityType, ClientBounds
    <3>3. IsFiniteSet(pending') /\ Cardinality(pending') = Cardinality(pending) + 1
      BY <1>1, <1>4, <3>1, FS_AddElement
    <3> QED
      BY <1>1, <3>1, <3>2, <3>3
  <2> QED
    BY <1>1, <1>3, <2>1 DEF CInv, ClientTypes, stopVars, procVars, helperVars
<1>6. Stopped'
  BY <1>1 DEF CInv, Stopped, stopVars, procVars
<1>7. Placed'
  BY <1>1, <1>3, <1>4 DEF CInv, Placed, stopVars, helperVars
<1>8. Carried'
  BY <1>1 DEF CInv, Carried, Sent, helperVars
<1>9. Watched'
  BY <1>1 DEF CInv, Watched, Active, stopVars, helperVars
<1>10. Once'
  <2>1. ~Ended(r) /\ held # Frame(r, "final")
    BY <1>4 DEF CInv, Carried, Sent, Ended, Frame, NoFrame
  <2>2. \A q \in Requests : Ended(q)' <=> Ended(q)
    BY <1>1 DEF Ended
  <2> QED
    BY <1>1, <1>4, <2>1, <2>2 DEF CInv, Once, stopVars
<1>11. Answers'
  BY <1>1, <1>3 DEF CInv, Answers, helperVars, Requests
<1>12. NothingRunsUnwatched'
  BY <1>1, <1>3 DEF CInv, NothingRunsUnwatched, Active, stopVars, procVars, helperVars
<1>13. Credited'
  <2>1. \A q \in Requests : OnTheWay(q)' = OnTheWay(q)
    BY <1>1, <1>2, <1>3, WaySame
  <2>2. \A q \in Requests : at'[q] \in {"idle", "entering", "registered", "requested"} =>
          at[q] \in {"idle", "entering", "registered", "requested"}
    BY <1>2, <1>3
  <2> QED
    BY <1>1, <2>1, <2>2 DEF CInv, Credited, helperVars
<1> QED
  BY <1>5, <1>6, <1>7, <1>8, <1>9, <1>10, <1>11, <1>12, <1>13 DEF CInv

(* What the frames and the results are.                                    *)
LEMMA Contents ==
  ASSUME CInv
  PROVE  /\ \A i \in DOMAIN wire : wire[i].id \in Requests /\ wire[i].kind \in Kinds
         /\ held # NoFrame => held.id \in Requests /\ held.kind \in Kinds
         /\ \A q \in Requests : \A i \in DOMAIN channel[q] : channel[q][i] \in Results
<1>1. wire \in Seq(Frames) /\ held \in Frames \cup {NoFrame} /\ channel \in [Requests -> Seq(Results)]
  BY DEF CInv, ClientTypes
<1>2. ASSUME NEW f \in Frames PROVE f.id \in Requests /\ f.kind \in Kinds
  BY DEF Frames
<1>3. \A i \in DOMAIN wire : wire[i] \in Frames
  BY <1>1
<1>4. ASSUME NEW q \in Requests, NEW i \in DOMAIN channel[q] PROVE channel[q][i] \in Results
  <2> DEFINE s == channel[q]
  <2>1. s \in Seq(Results) /\ i \in DOMAIN s
    BY <1>1, <1>4
  <2> HIDE DEF s
  <2>2. s[i] \in Results
    BY <2>1
  <2> QED
    BY <2>2 DEF s
<1> QED
  BY <1>1, <1>2, <1>3, <1>4

(* A frame that was sent stays sent, and so do the frames and results.     *)
LEMMA SentStay ==
  ASSUME CInv, UNCHANGED <<wire, held, channel>>,
         \A q \in Requests : \A k \in Kinds : Sent(q, k) => Sent(q, k)',
         \A q \in Requests : helper'[q] = "accepted" => q \in Streams
  PROVE  Carried'
<1>1. \A i \in DOMAIN wire : Sent(wire[i].id, wire[i].kind)'
  BY Contents DEF CInv, Carried
<1>2. held # NoFrame => Sent(held.id, held.kind)'
  BY Contents DEF CInv, Carried
<1>3. \A q \in Requests : \A i \in DOMAIN channel[q] :
        channel[q][i] = "err" \/ Sent(q, channel[q][i])'
  BY Contents DEF CInv, Carried, Results
<1> QED
  BY <1>1, <1>2, <1>3 DEF Carried, Sent

(* A request is written to the helper.                                     *)
LEMMA WrittenKeeps ==
  ASSUME CInv, NEW r \in Requests, WriteRequest(r), CanWrite
  PROVE  CInv'
<1> DEFINE p == IF r \in Streams THEN "requested" ELSE "waiting"
           h == IF helper[Bye] = "idle" THEN "active" ELSE "unread"
<1>1. /\ Goto(r, p) /\ helper' = [helper EXCEPT ![r] = h] /\ at[r] = "registered"
      /\ UNCHANGED <<made, cancelled, channel, pending, shutdown, stopVars, reader,
                     held, procVars, wire, credit, sent>>
  BY DEF WriteRequest
<1>2. p \in Places /\ "none" \in Values /\ p \in {"requested", "waiting"}
      /\ (p = "requested" => r \in Streams)
  BY DEF Places, Values
<1>3. h \in {"active", "unread"}
  OBVIOUS
<1> HIDE DEF p, h
<1>4. /\ at' \in [Requests -> Places] /\ at'[r] = p /\ ret' = ret
      /\ \A q \in Requests : q # r => at'[q] = at[q]
  BY <1>1, <1>2, GoesTo DEF Goto
<1>5. helper[r] = "idle" /\ (r \in pending \/ transportErr)
  BY <1>1 DEF CInv, Placed
<1>6. /\ helper' \in [Requests -> {"idle", "unread", "active", "accepted", "answered"}]
      /\ helper'[r] = h /\ \A q \in Requests : q # r => helper'[q] = helper[q]
  BY <1>1, <1>3 DEF CInv, ClientTypes
<1>7. \A q \in Requests : \A k \in Kinds : Sent(q, k) => Sent(q, k)'
  BY <1>5, <1>6 DEF Sent
<1>8. ClientTypes'
  BY <1>1, <1>4, <1>6 DEF CInv, ClientTypes, stopVars, procVars
<1>9. Stopped'
  BY <1>1 DEF CInv, Stopped, stopVars, procVars
<1>10. Placed'
  BY <1>1, <1>2, <1>4, <1>6 DEF CInv, Placed, stopVars
<1>11. Carried'
  <2>1. \A q \in Requests : helper'[q] = "accepted" => q \in Streams
    BY <1>3, <1>6 DEF CInv, Carried
  <2> QED
    BY <1>1, <1>7, <2>1, SentStay
<1>12. Watched'
  BY <1>1, <1>5, <1>6 DEF CInv, Watched, Active, stopVars
<1>13. Once'
  BY <1>1 DEF CInv, Once, Ended, stopVars
<1>14. Answers'
  BY <1>1, <1>2, <1>4, <1>6 DEF CInv, Answers, Requests
<1>15. NothingRunsUnwatched'
  BY <1>1, <1>2, <1>4, <1>6 DEF CInv, NothingRunsUnwatched, Active, stopVars, procVars
<1>16. Credited'
  <2>1. \A q \in Requests : OnTheWay(q)' = OnTheWay(q)
    BY <1>1, <1>2, <1>4, WaySame
  <2>2. \A q \in Requests : at'[q] \in {"idle", "entering", "registered", "requested"} =>
          at[q] \in {"idle", "entering", "registered", "requested"}
    BY <1>1, <1>2, <1>4
  <2> QED
    BY <1>1, <2>1, <2>2 DEF CInv, Credited
<1> QED
  BY <1>8, <1>9, <1>10, <1>11, <1>12, <1>13, <1>14, <1>15, <1>16 DEF CInv

(* The credit of a stream is opened, and returned for what was consumed.   *)
LEMMA CreditKeeps ==
  ASSUME CInv, NEW r \in Requests, OpenCredit(r) \/ ReturnCredit(r), CanWrite
  PROVE  CInv'
<1>1. PICK p \in {"starting", "waiting"}, n \in Nat :
        /\ Goto(r, p) /\ (p = "starting" => r \in Streams) /\ credit' = [credit EXCEPT ![r] = n]
        /\ \/ at[r] = "requested" /\ n = Window
           \/ at[r] = "crediting" /\ n = credit[r] + 1
        /\ UNCHANGED <<made, cancelled, channel, pending, shutdown, stopVars, reader,
                       held, procVars, wire, helper, sent>>
  <2>1. Window \in Nat /\ credit \in [Requests -> Nat]
    BY ClientBounds DEF CInv, ClientTypes
  <2>2. CASE OpenCredit(r)
    BY <2>1, <2>2 DEF OpenCredit, Streams
  <2>3. CASE ReturnCredit(r)
    <3>1. credit' = [credit EXCEPT ![r] = credit[r] + 1] /\ credit[r] + 1 \in Nat
      BY <2>1, <2>3 DEF ReturnCredit
    <3> QED
      BY <2>3, <3>1 DEF ReturnCredit
  <2> QED
    BY <2>2, <2>3
<1>2. p \in Places /\ "none" \in Values
  BY DEF Places, Values
<1>3. /\ at' \in [Requests -> Places] /\ at'[r] = p /\ ret' = ret
      /\ \A q \in Requests : q # r => at'[q] = at[q]
  BY <1>1, <1>2, GoesTo DEF Goto
<1>4. credit' \in [Requests -> Nat] /\ credit'[r] = n /\ \A q \in Requests : q # r => credit'[q] = credit[q]
  BY <1>1 DEF CInv, ClientTypes
<1>5. ClientTypes'
  BY <1>1, <1>3, <1>4 DEF CInv, ClientTypes, stopVars, procVars
<1>6. Stopped'
  BY <1>1 DEF CInv, Stopped, stopVars, procVars
<1>7. Placed'
  BY <1>1, <1>3 DEF CInv, Placed, stopVars
<1>8. Carried' /\ Watched' /\ Once'
  BY <1>1 DEF CInv, Carried, Sent, Watched, Active, Once, Ended, stopVars
<1>9. Answers'
  BY <1>1, <1>3 DEF CInv, Answers, Requests
<1>10. NothingRunsUnwatched'
  BY <1>1, <1>3 DEF CInv, NothingRunsUnwatched, Active, stopVars, procVars
<1>11. Credited'
  <2> SUFFICES ASSUME NEW q \in Requests
               PROVE  /\ credit'[q] + OnTheWay(q)' <= Window
                      /\ at'[q] \in {"idle", "entering", "registered", "requested"} =>
                           credit'[q] = 0 /\ sent[q] = 0
                      /\ sent[q] = 0 => OnTheWay(q)' = 0
    BY <1>1 DEF Credited
  <2>1. /\ credit[q] + OnTheWay(q) <= Window
        /\ at[q] \in {"idle", "entering", "registered", "requested"} => credit[q] = 0 /\ sent[q] = 0
        /\ sent[q] = 0 => OnTheWay(q) = 0
    BY DEF CInv, Credited
  <2>2. CASE q # r
    <3>1. OnTheWay(q)' = OnTheWay(q)
      BY <1>1, <1>3, <2>2, WaySame
    <3> QED
      BY <1>3, <1>4, <2>1, <2>2, <3>1
  <2>3. CASE q = r /\ at[r] = "requested"
    <3>1. OnTheWay(q)' = OnTheWay(q)
      BY <1>1, <1>3, <2>3, WaySame
    <3>2. OnTheWay(q) = 0
      BY <2>1, <2>3
    <3>3. credit'[q] = Window /\ Window \in Nat
      BY <1>1, <1>4, <2>3, ClientBounds
    <3> QED
      BY <1>3, <2>3, <3>1, <3>2, <3>3
  <2>4. CASE q = r /\ at[r] = "crediting"
    <3>1. OnTheWay(q) = OnTheWay(q)' + 1 /\ OnTheWay(q)' \in Nat
      <4> DEFINE w == Count(wire, Frame(q, "data"))
                 h == One(held = Frame(q, "data"))
                 c == Count(channel[q], "data")
      <4>1. w \in Nat /\ h \in Nat /\ c \in Nat
        BY WayNat
      <4>2. OnTheWay(q) = w + h + c + 1
        BY <2>4 DEF OnTheWay, One
      <4>3. OnTheWay(q)' = w + h + c + 0
        BY <1>1, <1>3, <2>4 DEF OnTheWay, One
      <4> HIDE DEF w, h, c
      <4> QED
        BY <4>1, <4>2, <4>3
    <3>2. credit'[q] = credit[q] + 1 /\ credit[q] \in Nat /\ Window \in Nat
      BY <1>1, <1>4, <2>4, WayNat
    <3>3. sent[q] # 0
      BY <2>1, <3>1
    <3>4. at'[q] \notin {"idle", "entering", "registered", "requested"}
      BY <1>3, <2>4
    <3> QED
      BY <2>1, <3>1, <3>2, <3>3, <3>4
  <2> QED
    BY <1>1, <2>2, <2>3, <2>4
<1> QED
  BY <1>5, <1>6, <1>7, <1>8, <1>9, <1>10, <1>11 DEF CInv

-----------------------------------------------------------------------------
(* stopTransport                                                           *)

(* Who can be in it.                                                       *)
LEMMA StoppersAre ==
  ASSUME NEW a \in Stoppers
  PROVE  /\ a # NoOne /\ a # "done" /\ a \in Requests \cup {Reader}
         /\ a = Reader => reader = "stopping"
         /\ a # Reader => a \in Requests /\ at[a] \in {"stopping", "resuming"}
BY KindsAreDisjoint DEF Stoppers, Requests, Streams

(* All entries are taken.                                                  *)
LEMMA BeginKeeps ==
  ASSUME CInv, NEW a, StopBegin(a)
  PROVE  CInv'
<1>1. /\ once' = a /\ transportErr' = TRUE /\ sweep' = pending /\ pending' = {}
      /\ UNCHANGED <<made, callVars, channel, shutdown, reader, held, procVars, wire, helperVars>>
      /\ a # NoOne /\ a \in Requests \cup {Reader}
  BY StoppersAre DEF StopBegin
<1>2. ClientTypes'
  <2>1. IsFiniteSet({}) /\ Cardinality({}) <= MaxPending
    BY FS_EmptySet, ClientBounds
  <2> QED
    BY <1>1, <2>1 DEF CInv, ClientTypes, callVars, procVars, helperVars
<1>3. Stopped'
  BY <1>1 DEF CInv, Stopped, procVars
<1>4. Placed'
  BY <1>1 DEF CInv, Placed, callVars, helperVars
<1>5. Carried' /\ Watched'
  BY <1>1 DEF CInv, Carried, Sent, Watched, Active, helperVars
<1>6. Once'
  BY <1>1 DEF CInv, Once, Ended
<1>7. Answers' /\ NothingRunsUnwatched'
  BY <1>1 DEF CInv, Answers, NothingRunsUnwatched, Active, callVars, procVars, helperVars
<1>8. Credited'
  <2>1. \A q \in Requests : OnTheWay(q)' = OnTheWay(q)
    BY <1>1, WaySame DEF callVars
  <2> QED
    BY <1>1, <2>1 DEF CInv, Credited, callVars, helperVars
<1> QED
  BY <1>2, <1>3, <1>4, <1>5, <1>6, <1>7, <1>8 DEF CInv

(* What a result adds to a channel.                                        *)
LEMMA AppendAdds ==
  ASSUME CInv, NEW r \in Requests, NEW e \in Results, Len(channel[r]) < 2,
         channel' = [channel EXCEPT ![r] = Append(@, e)]
  PROVE  /\ channel' \in [Requests -> Seq(Results)]
         /\ \A q \in Requests : Len(channel'[q]) <= 2
         /\ \A q \in Requests : q # r => channel'[q] = channel[q]
         /\ \A i \in DOMAIN channel'[r] :
              \/ i \in DOMAIN channel[r] /\ channel'[r][i] = channel[r][i]
              \/ i = Len(channel[r]) + 1 /\ channel'[r][i] = e
         /\ channel'[r] # <<>>
         /\ Count(channel'[r], "data") = Count(channel[r], "data") + One(e = "data")
<1> DEFINE s == channel[r]
           t == Append(s, e)
<1>1. channel \in [Requests -> Seq(Results)] /\ \A q \in Requests : Len(channel[q]) <= 2
  BY DEF CInv, ClientTypes
<1>2. s \in Seq(Results) /\ channel' = [channel EXCEPT ![r] = t] /\ Len(s) < 2
  BY <1>1
<1> HIDE DEF s
<1>3. /\ t \in Seq(Results) /\ Len(t) = Len(s) + 1 /\ Len(s) \in Nat /\ t # <<>>
      /\ \A i \in DOMAIN t : \/ i \in DOMAIN s /\ t[i] = s[i]
                             \/ i = Len(s) + 1 /\ t[i] = e
  BY <1>2
<1>4. Count(t, "data") = Count(s, "data") + One(e = "data")
  BY <1>2, CountAppend
<1> HIDE DEF t
<1>5. channel'[r] = t /\ \A q \in Requests : q # r => channel'[q] = channel[q]
  BY <1>1, <1>2
<1>6. Len(t) <= 2
  BY <1>2, <1>3
<1>7. channel' \in [Requests -> Seq(Results)] /\ \A q \in Requests : Len(channel'[q]) <= 2
  BY <1>1, <1>2, <1>3, <1>5, <1>6
<1> QED
  BY <1>3, <1>4, <1>5, <1>7 DEF s

(* An entry that was taken is told the error.                              *)
LEMMA NotifyKeeps ==
  ASSUME CInv, NEW r \in Requests, StopNotify(r)
  PROVE  CInv'
<1>1. /\ r \in sweep /\ sweep' = sweep \ {r} /\ Len(channel[r]) < 2
      /\ channel' = [channel EXCEPT ![r] = Append(@, "err")]
      /\ UNCHANGED <<made, callVars, pending, shutdown, transportErr, once, reader,
                     held, procVars, wire, helperVars>>
  BY DEF StopNotify
<1>2. /\ channel' \in [Requests -> Seq(Results)]
      /\ \A q \in Requests : Len(channel'[q]) <= 2
      /\ \A q \in Requests : q # r => channel'[q] = channel[q]
      /\ \A i \in DOMAIN channel'[r] :
           \/ i \in DOMAIN channel[r] /\ channel'[r][i] = channel[r][i]
           \/ i = Len(channel[r]) + 1 /\ channel'[r][i] = "err"
      /\ channel'[r] # <<>>
      /\ Count(channel'[r], "data") = Count(channel[r], "data") + One("err" = "data")
  <2>1. "err" \in Results
    BY DEF Results
  <2> HIDE DEF StopNotify
  <2> QED
    BY <1>1, <2>1, AppendAdds
<1>3. /\ transportErr /\ r \notin pending /\ held # Frame(r, "final") /\ ~Ended(r)
  BY <1>1 DEF CInv, Stopped, Once
<1>4. ClientTypes'
  BY <1>1, <1>2 DEF CInv, ClientTypes, callVars, procVars, helperVars
<1>5. Stopped'
  <2>1. transportErr' = transportErr /\ pending' = pending /\ sweep' \subseteq sweep
    BY <1>1
  <2> QED
    BY <1>1, <1>3, <2>1 DEF CInv, Stopped, procVars
<1>6. Placed'
  BY <1>1, <1>2 DEF CInv, Placed, callVars, helperVars
<1>7. Carried'
  <2>1. \A q \in Requests : \A i \in DOMAIN channel'[q] :
          channel'[q][i] = "err" \/ Sent(q, channel'[q][i])
    BY <1>2 DEF CInv, Carried
  <2> QED
    BY <1>1, <2>1 DEF CInv, Carried, Sent, helperVars
<1>8. Watched'
  BY <1>1 DEF CInv, Watched, Active, helperVars
<1>9. Once'
  <2>1. \A q \in Requests : q # r => (Ended(q)' <=> Ended(q))
    BY <1>2 DEF Ended
  <2>2. \A i, j \in DOMAIN channel'[r] :
          channel'[r][i] \in Outcomes /\ channel'[r][j] \in Outcomes => i = j
    BY <1>2, <1>3 DEF Ended
  <2> QED
    BY <1>1, <1>2, <1>3, <2>1, <2>2 DEF CInv, Once
<1>10. Answers'
  <2>1. \A q \in Calls : ~Contains(channel[q], "final") => ~Contains(channel'[q], "final")
    <3> SUFFICES ASSUME NEW q \in Calls, Contains(channel'[q], "final")
                 PROVE  Contains(channel[q], "final")
      OBVIOUS
    <3>1. q \in Requests /\ channel[q] \in Seq(Results) /\ channel'[q] \in Seq(Results)
      <4>1. q \in Requests
        BY DEF Requests
      <4> QED
        BY <1>2, <4>1 DEF CInv, ClientTypes
    <3>2. PICK i \in DOMAIN channel'[q] : channel'[q][i] = "final"
      BY <3>1 DEF Contains
    <3>3. i \in DOMAIN channel[q] /\ channel[q][i] = "final"
      BY <1>2, <3>1, <3>2
    <3> QED
      BY <3>1, <3>3 DEF Contains
  <2> QED
    BY <1>1, <2>1 DEF CInv, Answers, callVars, helperVars
<1>11. NothingRunsUnwatched'
  BY <1>1 DEF CInv, NothingRunsUnwatched, Active, callVars, procVars, helperVars
<1>12. Credited'
  <2>1. \A q \in Requests : OnTheWay(q)' = OnTheWay(q)
    <3> TAKE q \in Requests
    <3>1. Count(channel'[q], "data") = Count(channel[q], "data")
      <4>1. Count(channel[r], "data") + One("err" = "data") = Count(channel[r], "data")
        BY WayNat DEF One
      <4> QED
        BY <1>2, <4>1
    <3> QED
      BY <1>1, <3>1 DEF OnTheWay, callVars
  <2> QED
    BY <1>1, <2>1 DEF CInv, Credited, callVars, helperVars
<1> QED
  BY <1>4, <1>5, <1>6, <1>7, <1>8, <1>9, <1>10, <1>11, <1>12 DEF CInv

(* The process is cancelled, by the end of the sweep or by its owner.      *)
LEMMA PutDownKeeps ==
  ASSUME CInv, StopEnd \/ Kill
  PROVE  CInv'
<1>1. /\ UNCHANGED <<made, callVars, channel, pending, shutdown, transportErr, sweep, reader,
                     held, running, stdinOpen, wire, helperVars>>
      /\ killed' = TRUE
      /\ once' = once \/ (once # NoOne /\ once' = "done")
  BY StoppersAre DEF StopEnd, Kill, stopVars
<1>2. ClientTypes'
  BY <1>1 DEF CInv, ClientTypes, callVars, helperVars
<1>3. Stopped'
  BY <1>1, KindsAreDisjoint DEF CInv, Stopped
<1>4. Placed'
  BY <1>1 DEF CInv, Placed, callVars, helperVars
<1>5. Carried' /\ Watched' /\ Once'
  BY <1>1 DEF CInv, Carried, Sent, Watched, Active, Once, Ended, helperVars
<1>6. Answers' /\ NothingRunsUnwatched'
  BY <1>1 DEF CInv, Answers, NothingRunsUnwatched, Active, callVars, helperVars
<1>7. Credited'
  <2>1. \A q \in Requests : OnTheWay(q)' = OnTheWay(q)
    BY <1>1, WaySame DEF callVars
  <2> QED
    BY <1>1, <2>1 DEF CInv, Credited, callVars, helperVars
<1> QED
  BY <1>2, <1>3, <1>4, <1>5, <1>6, <1>7 DEF CInv

(* The reader ends.                                                        *)
LEMMA ReaderEndsKeeps ==
  ASSUME CInv,
         \/ ReadFails
         \/ StopReturn(Reader)
  PROVE  CInv'
<1>1. /\ UNCHANGED <<made, callVars, channel, pending, shutdown, stopVars, held, running,
                     stdinOpen, wire, helperVars>>
      /\ killed' \in BOOLEAN /\ (killed => killed')
      /\ reader # "ended" => reader \in {"reading", "stopping"}
      /\ reader # "delivering" /\ reader' \in {"stopping", "ended"}
      /\ (reader = "ended" => reader' = "ended")
      /\ ~running \/ transportErr
  <2>1. CASE ReadFails
    BY <2>1 DEF ReadFails, procVars, CInv, ClientTypes
  <2>2. CASE StopReturn(Reader)
    <3>1. reader = "stopping" /\ transportErr
      <4>1. Reader \in Stoppers /\ once = "done"
        BY <2>2 DEF StopReturn
      <4>2. transportErr
        BY <4>1, KindsAreDisjoint DEF CInv, Stopped
      <4> QED
        BY <4>1, <4>2, StoppersAre
    <3>2. /\ reader' = "ended" /\ UNCHANGED <<at, ret>> /\ killed' = (killed \/ Reader = Bye)
          /\ UNCHANGED <<made, cancelled, channel, pending, shutdown, stopVars, held,
                         running, stdinOpen, wire, helperVars>>
      BY <2>2 DEF StopReturn
    <3>3. killed' \in BOOLEAN /\ (killed => killed')
      BY <3>2 DEF CInv, ClientTypes
    <3> QED
      BY <3>1, <3>2, <3>3 DEF callVars
  <2> QED
    BY <2>1, <2>2
<1>2. ClientTypes'
  BY <1>1 DEF CInv, ClientTypes, callVars, stopVars, helperVars
<1>3. Stopped'
  BY <1>1 DEF CInv, Stopped, stopVars
<1>4. Placed'
  BY <1>1 DEF CInv, Placed, callVars, stopVars, helperVars
<1>5. Carried' /\ Watched' /\ Once'
  BY <1>1 DEF CInv, Carried, Sent, Watched, Active, Once, Ended, stopVars, helperVars
<1>6. Answers' /\ NothingRunsUnwatched'
  BY <1>1 DEF CInv, Answers, NothingRunsUnwatched, Active, callVars, stopVars, helperVars
<1>7. Credited'
  <2>1. \A q \in Requests : OnTheWay(q)' = OnTheWay(q)
    BY <1>1, WaySame DEF callVars
  <2> QED
    BY <1>1, <2>1 DEF CInv, Credited, callVars, helperVars
<1> QED
  BY <1>2, <1>3, <1>4, <1>5, <1>6, <1>7 DEF CInv

(* A goroutine comes back from stopTransport.                              *)
LEMMA StopReturnKeeps ==
  ASSUME CInv, NEW r \in Requests, StopReturn(r)
  PROVE  CInv'
<1>1. r # Reader /\ at[r] \in {"stopping", "resuming"} /\ transportErr
  BY StoppersAre, NoEntry, KindsAreDisjoint DEF StopReturn, Requests, Streams
<1>2. /\ channel' = channel /\ UNCHANGED <<cancelled, shutdown, stdinOpen, Others>>
      /\ killed' = (killed \/ r = Bye)
      /\ \/ \E p \in {"settling", "waiting"} : Goto(r, p)
         \/ \E v \in {"failed", "cancelled"} :
              Return(r, v) /\ (v = "failed" => at[r] = "stopping")
  BY <1>1 DEF StopReturn, Others, stopVars, helperVars
<1>3. {"settling", "waiting"} \subseteq Places /\ {"failed", "cancelled"} \subseteq Values
  BY DEF Places, Values
<1>4. ASSUME NEW p \in {"settling", "waiting"}, Goto(r, p)
      PROVE  CInv'
  <2>1. Moved(r) /\ at'[r] = p
    <3>1. p \in Places /\ "failed" \in Values
      BY <1>3
    <3> QED
      BY <1>2, <1>4, <3>1, MovedBy, GoesTo
  <2> QED
    BY <1>2, <2>1, MovedKeeps DEF Allowed
<1>5. ASSUME NEW v \in {"failed", "cancelled"}, Return(r, v), v = "failed" => at[r] = "stopping"
      PROVE  CInv'
  <2>1. Moved(r) /\ at'[r] = "returned" /\ ret'[r] = v
    <3>1. v \in Values /\ "settling" \in Places
      BY <1>3
    <3> QED
      BY <1>2, <1>5, <3>1, MovedBy, GoesTo
  <2>2. r \in Calls /\ v = "failed" => helper[r] = "idle" /\ ~Contains(channel'[r], "final")
    <3> SUFFICES ASSUME r \in Calls, v = "failed"
                 PROVE  helper[r] = "idle" /\ ~Contains(channel[r], "final")
      BY <1>2
    <3>1. helper[r] = "idle"
      BY <1>5 DEF CInv, Placed
    <3>2. channel[r] \in Seq(Results)
      BY DEF CInv, ClientTypes
    <3>3. \A i \in DOMAIN channel[r] : channel[r][i] # "final"
      BY <3>1 DEF CInv, Carried, Sent
    <3> QED
      BY <3>1, <3>2, <3>3 DEF Contains
  <2> QED
    BY <1>1, <1>2, <2>1, <2>2, MovedKeeps DEF Allowed
<1> QED
  BY <1>2, <1>4, <1>5

-----------------------------------------------------------------------------
(* The reader                                                              *)

(* The first frame and the rest of the wire.                               *)
LEMMA WireTail ==
  ASSUME CInv, wire # <<>>
  PROVE  /\ Tail(wire) \in Seq(Frames) /\ Head(wire) \in Frames
         /\ 1 \in DOMAIN wire /\ Head(wire) = wire[1]
         /\ \A i \in DOMAIN Tail(wire) :
              i \in Nat /\ 1 < i + 1 /\ i + 1 \in DOMAIN wire /\ Tail(wire)[i] = wire[i + 1]
         /\ \A e : Count(wire, e) = Count(Tail(wire), e) + One(Head(wire) = e)
         /\ \A e : Count(Tail(wire), e) \in Nat
<1>1. wire \in Seq(Frames)
  BY DEF CInv, ClientTypes
<1> DEFINE rest == Tail(wire)
<1>2. /\ rest \in Seq(Frames) /\ Head(wire) \in Frames /\ 1 \in DOMAIN wire /\ Head(wire) = wire[1]
      /\ \A i \in DOMAIN rest :
           i \in Nat /\ i + 1 \in DOMAIN wire /\ rest[i] = wire[i + 1]
  BY <1>1
<1>3. ASSUME NEW e PROVE Count(wire, e) = Count(rest, e) + One(Head(wire) = e)
  BY <1>1, CountTail
<1> HIDE DEF rest
<1>4. ASSUME NEW e PROVE Count(rest, e) \in Nat
  BY <1>2, CountNat
<1>5. \A i \in DOMAIN rest : 1 < i + 1
  <2> TAKE i \in DOMAIN rest
  <2>1. i \in 1..Len(rest)
    BY <1>2
  <2> QED
    BY <2>1
<1> QED
  BY <1>2, <1>3, <1>4, <1>5 DEF rest

(* A frame whose entry is gone stops the reader.                           *)
LEMMA UnknownKeeps ==
  ASSUME CInv, ReadFrame, transportErr
  PROVE  CInv'
<1>1. /\ wire # <<>> /\ wire' = Tail(wire) /\ reader = "reading" /\ reader' = "stopping"
      /\ pending = {} /\ pending' = {} /\ held' = held
      /\ UNCHANGED <<made, callVars, channel, shutdown, stopVars, procVars, helperVars>>
  BY DEF ReadFrame, CInv, Stopped
<1>2. /\ wire' \in Seq(Frames)
      /\ \A i \in DOMAIN wire' :
           i \in Nat /\ i + 1 \in DOMAIN wire /\ wire'[i] = wire[i + 1]
      /\ \A e : Count(wire, e) = Count(wire', e) + One(Head(wire) = e)
      /\ \A e : Count(wire', e) \in Nat
  BY <1>1, WireTail
<1>3. ClientTypes'
  BY <1>1, <1>2 DEF CInv, ClientTypes, callVars, stopVars, procVars, helperVars
<1>4. Stopped'
  BY <1>1 DEF CInv, Stopped, stopVars, procVars
<1>5. Placed'
  BY <1>1 DEF CInv, Placed, callVars, stopVars, helperVars
<1>6. Carried'
  BY <1>1, <1>2 DEF CInv, Carried, Sent, helperVars
<1>7. Watched'
  <2>1. \A i, j \in DOMAIN wire' : i < j => i + 1 < j + 1
    BY <1>2
  <2>2. transportErr' = transportErr
    BY <1>1 DEF stopVars
  <2> QED
    BY <1>2, <2>1, <2>2 DEF CInv, Watched, Active
<1>8. Once'
  BY <1>1 DEF CInv, Once, Ended, stopVars
<1>9. Answers' /\ NothingRunsUnwatched'
  BY <1>1 DEF CInv, Answers, NothingRunsUnwatched, Active, callVars, stopVars, procVars, helperVars
<1>10. Credited'
  <2> SUFFICES ASSUME NEW q \in Requests
               PROVE  OnTheWay(q)' \in Nat /\ OnTheWay(q)' <= OnTheWay(q)
    <3>1. credit' = credit /\ sent' = sent /\ at' = at
      BY <1>1 DEF callVars, helperVars
    <3>2. \A q \in Requests : OnTheWay(q)' \in Nat /\ OnTheWay(q)' <= OnTheWay(q)
      OBVIOUS
    <3>3. \A q \in Requests : OnTheWay(q) \in Nat /\ credit[q] \in Nat /\ Window \in Nat
      BY WayNat
    <3>4. \A q \in Requests :
            /\ credit[q] + OnTheWay(q)' <= Window
            /\ sent[q] = 0 => OnTheWay(q)' = 0
      BY <3>2, <3>3 DEF CInv, Credited
    <3> QED
      BY <3>1, <3>4 DEF CInv, Credited
  <2> DEFINE w == Count(wire, Frame(q, "data"))
             v == Count(wire', Frame(q, "data"))
             h == One(held = Frame(q, "data"))
             c == Count(channel[q], "data")
             a == One(at[q] = "crediting")
  <2>1. w \in Nat /\ v \in Nat /\ h \in Nat /\ c \in Nat /\ a \in Nat /\ v <= w
    <3>1. One(Head(wire) = Frame(q, "data")) \in {0, 1}
      BY DEF One
    <3> QED
      BY <1>2, <3>1, WayNat
  <2>2. OnTheWay(q) = w + h + c + a /\ OnTheWay(q)' = v + h + c + a
    BY <1>1 DEF OnTheWay, callVars
  <2> HIDE DEF w, v, h, c, a
  <2> QED
    BY <2>1, <2>2
<1> QED
  BY <1>3, <1>4, <1>5, <1>6, <1>7, <1>8, <1>9, <1>10 DEF CInv

(* A frame whose entry is there is held for its channel, and a last frame  *)
(* takes the entry along.                                                  *)
LEMMA HoldKeeps ==
  ASSUME CInv, ReadFrame, ~transportErr
  PROVE  CInv'
<1> DEFINE f == Head(wire)
<1>1. /\ f \in Frames /\ 1 \in DOMAIN wire /\ f = wire[1] /\ wire' \in Seq(Frames)
      /\ \A i \in DOMAIN wire' :
           i \in Nat /\ 1 < i + 1 /\ i + 1 \in DOMAIN wire /\ wire'[i] = wire[i + 1]
      /\ \A e : Count(wire, e) = Count(wire', e) + One(f = e)
      /\ \A e : Count(wire', e) \in Nat
  BY WireTail DEF ReadFrame
<1>2. f.id \in Requests /\ f.kind \in Kinds /\ f = Frame(f.id, f.kind) /\ f # NoFrame
  <2> HIDE DEF f
  <2>1. f.id \in Requests /\ f.kind \in Kinds /\ f = [id |-> f.id, kind |-> f.kind]
    BY <1>1 DEF Frames
  <2>2. NoOne \notin Requests
    BY KindsAreDisjoint DEF Requests, Streams
  <2> QED
    BY <2>1, <2>2 DEF Frame, NoFrame
<1>3. f.id \in pending /\ sweep = {} /\ held = NoFrame
  BY <1>1 DEF CInv, Watched, Stopped, ReadFrame
<1>4. /\ reader = "reading" /\ reader' = "delivering" /\ held' = f
      /\ pending' = IF f.kind = "final" THEN pending \ {f.id} ELSE pending
      /\ UNCHANGED <<made, callVars, channel, shutdown, stopVars, procVars, helperVars>>
  BY <1>3 DEF ReadFrame
<1>5. Sent(f.id, f.kind)
  BY <1>1 DEF CInv, Carried
<1>6. \A i, j \in DOMAIN wire' : i < j => i + 1 < j + 1
  BY <1>1
<1>7. f.kind = "final" => \A i \in DOMAIN wire' : wire'[i].id # f.id
  BY <1>1 DEF CInv, Watched
<1> HIDE DEF f
<1>8. f.kind = "final" => helper[f.id] = "answered"
  BY <1>5 DEF Sent
<1>9. ClientTypes'
  <2>1. pending' \in SUBSET Requests /\ IsFiniteSet(pending') /\ Cardinality(pending') <= MaxPending
    <3>1. pending \in SUBSET Requests /\ IsFiniteSet(pending) /\ Cardinality(pending) <= MaxPending
      BY DEF CInv, ClientTypes
    <3>2. Cardinality(pending) \in Nat /\ MaxPending \in Nat
      BY <3>1, FS_CardinalityType, ClientBounds
    <3>3. IsFiniteSet(pending \ {f.id}) /\ Cardinality(pending \ {f.id}) = Cardinality(pending) - 1
      BY <1>3, <3>1, FS_RemoveElement
    <3>4. CASE f.kind = "final"
      BY <1>4, <3>1, <3>2, <3>3, <3>4
    <3>5. CASE f.kind # "final"
      BY <1>4, <3>1, <3>5
    <3> QED
      BY <3>4, <3>5
  <2> QED
    BY <1>1, <1>4, <2>1 DEF CInv, ClientTypes, callVars, stopVars, procVars, helperVars
<1>10. Stopped'
  BY <1>2, <1>4 DEF CInv, Stopped, stopVars, procVars
<1>11. Placed'
  <2>1. \A q \in Requests : at[q] = "registered" => (q \in pending' \/ transportErr)
    BY <1>4, <1>8 DEF CInv, Placed
  <2>2. \A q \in Requests : q \notin pending => q \notin pending'
    BY <1>4
  <2> QED
    BY <1>4, <2>1, <2>2 DEF CInv, Placed, callVars, stopVars, helperVars
<1>12. Carried'
  <2>1. \A i \in DOMAIN wire' : Sent(wire'[i].id, wire'[i].kind)
    BY <1>1 DEF CInv, Carried
  <2> QED
    BY <1>4, <1>5, <2>1 DEF CInv, Carried, Sent, helperVars
<1>13. Watched'
  <2>1. \A i \in DOMAIN wire' : wire'[i].id \in pending'
    <3>1. \A i \in DOMAIN wire' : wire'[i].id \in pending
      BY <1>1 DEF CInv, Watched
    <3> QED
      BY <1>4, <1>7, <3>1
  <2>2. \A i, j \in DOMAIN wire' : i < j /\ wire'[i].kind = "final" => wire'[j].id # wire'[i].id
    BY <1>1, <1>6 DEF CInv, Watched
  <2>3. \A q \in Requests : Active(q) => q \in pending'
    <3>1. \A q \in Requests : Active(q) => q \in pending
      BY DEF CInv, Watched
    <3> QED
      BY <1>4, <1>8, <3>1 DEF Active
  <2> QED
    BY <1>4, <2>1, <2>2, <2>3 DEF Watched, Active, helperVars
<1>14. Once'
  <2> SUFFICES ASSUME NEW q \in Requests
               PROVE  /\ q \in pending' => q \notin sweep
                      /\ q \in pending' \cup sweep => f # Frame(q, "final") /\ ~Ended(q)
                      /\ f = Frame(q, "final") => ~Ended(q)
                      /\ \A i, j \in DOMAIN channel[q] :
                           channel[q][i] \in Outcomes /\ channel[q][j] \in Outcomes => i = j
    BY <1>4 DEF Once, Ended, stopVars
  <2>1. f = Frame(q, "final") => f.id = q /\ f.kind = "final"
    BY DEF Frame
  <2>2. q \in pending => ~Ended(q)
    BY DEF CInv, Once
  <2>3. \A i, j \in DOMAIN channel[q] :
          channel[q][i] \in Outcomes /\ channel[q][j] \in Outcomes => i = j
    BY DEF CInv, Once
  <2> QED
    BY <1>3, <1>4, <2>1, <2>2, <2>3
<1>15. Answers'
  <2>1. \A q \in Requests : q \notin pending => q \notin pending' /\ f # Frame(q, "final")
    BY <1>3, <1>4 DEF Frame
  <2>2. \A q \in Calls : q \in Requests
    BY DEF Requests
  <2> QED
    BY <1>4, <2>1, <2>2 DEF CInv, Answers, callVars, helperVars
<1>16. NothingRunsUnwatched'
  BY <1>4 DEF CInv, NothingRunsUnwatched, Active, callVars, stopVars, procVars, helperVars
<1>17. Credited'
  <2>1. \A q \in Requests : OnTheWay(q)' = OnTheWay(q)
    <3> TAKE q \in Requests
    <3> DEFINE v == Count(wire', Frame(q, "data"))
               g == One(f = Frame(q, "data"))
               c == Count(channel[q], "data")
               a == One(at[q] = "crediting")
    <3>1. v \in Nat /\ g \in Nat /\ c \in Nat /\ a \in Nat
      <4>1. g \in Nat
        BY DEF One
      <4> QED
        BY <1>1, <4>1, WayNat
    <3>2. Count(wire, Frame(q, "data")) = v + g
      BY <1>1
    <3>3. One(held = Frame(q, "data")) = 0
      BY <1>3 DEF One, Frame, NoFrame
    <3>4. OnTheWay(q) = (v + g) + 0 + c + a
      BY <3>2, <3>3 DEF OnTheWay
    <3>5. OnTheWay(q)' = v + g + c + a
      BY <1>4 DEF OnTheWay, callVars
    <3> HIDE DEF v, g, c, a
    <3> QED
      BY <3>1, <3>4, <3>5
  <2> QED
    BY <1>4, <2>1 DEF CInv, Credited, callVars, helperVars
<1> QED
  BY <1>9, <1>10, <1>11, <1>12, <1>13, <1>14, <1>15, <1>16, <1>17 DEF CInv

(* The frame held goes to its channel.                                     *)
LEMMA DeliverKeeps ==
  ASSUME CInv, Deliver
  PROVE  CInv'
<1> DEFINE r == held.id
           k == held.kind
<1>1. /\ reader = "delivering" /\ Len(channel[r]) < 2
      /\ channel' = [channel EXCEPT ![r] = Append(@, k)]
      /\ reader' = "reading" /\ held' = NoFrame
      /\ UNCHANGED <<made, callVars, pending, shutdown, stopVars, procVars, wire, helperVars>>
  BY DEF Deliver
<1>2. held # NoFrame /\ r \in Requests /\ k \in Kinds /\ held = Frame(r, k)
  <2>1. held # NoFrame /\ held \in Frames
    BY <1>1 DEF CInv, Stopped, ClientTypes
  <2> QED
    BY <2>1 DEF Frames, Frame
<1>3. Sent(r, k)
  BY <1>2 DEF CInv, Carried
<1>4. k = "final" => r \notin pending /\ r \notin sweep /\ ~Ended(r)
  BY <1>2 DEF CInv, Once
<1> HIDE DEF r, k
<1>5. /\ channel' \in [Requests -> Seq(Results)]
      /\ \A q \in Requests : Len(channel'[q]) <= 2
      /\ \A q \in Requests : q # r => channel'[q] = channel[q]
      /\ \A i \in DOMAIN channel'[r] :
           \/ i \in DOMAIN channel[r] /\ channel'[r][i] = channel[r][i]
           \/ i = Len(channel[r]) + 1 /\ channel'[r][i] = k
      /\ channel'[r] # <<>>
      /\ Count(channel'[r], "data") = Count(channel[r], "data") + One(k = "data")
  <2>1. k \in Results
    BY <1>2 DEF Results
  <2>2. r \in Requests
    BY <1>2
  <2>3. Len(channel[r]) < 2 /\ channel' = [channel EXCEPT ![r] = Append(@, k)]
    BY <1>1
  <2> QED
    BY <2>1, <2>2, <2>3, AppendAdds
<1>6. ClientTypes'
  <2>1. NoFrame \in Frames \cup {NoFrame}
    OBVIOUS
  <2> QED
    BY <1>1, <1>5, <2>1 DEF CInv, ClientTypes, callVars, stopVars, procVars, helperVars
<1>7. Stopped'
  <2>1. \A q \in Requests : \A i \in DOMAIN channel'[q] : channel'[q][i] = "err" => transportErr
    BY <1>2, <1>5 DEF CInv, Stopped, Kinds
  <2> QED
    BY <1>1, <2>1 DEF CInv, Stopped, stopVars, procVars
<1>8. Placed'
  <2>1. at[r] \notin {"idle", "entering"}
    BY <1>2, <1>3 DEF CInv, Placed, Sent, Kinds
  <2>2. \A q \in Requests : at[q] \in {"idle", "entering"} => channel'[q] = <<>>
    BY <1>5, <2>1 DEF CInv, Placed
  <2> QED
    BY <1>1, <2>2 DEF CInv, Placed, callVars, stopVars, helperVars
<1>9. Carried'
  <2>1. \A q \in Requests : \A i \in DOMAIN channel'[q] :
          channel'[q][i] = "err" \/ Sent(q, channel'[q][i])
    BY <1>3, <1>5 DEF CInv, Carried
  <2> QED
    BY <1>1, <2>1 DEF CInv, Carried, Sent, helperVars
<1>10. Watched'
  BY <1>1 DEF CInv, Watched, Active, stopVars, helperVars
<1>11. Once'
  <2> SUFFICES ASSUME NEW q \in Requests
               PROVE  /\ q \in pending => q \notin sweep
                      /\ q \in pending \cup sweep => ~Ended(q)'
                      /\ \A i, j \in DOMAIN channel'[q] :
                           channel'[q][i] \in Outcomes /\ channel'[q][j] \in Outcomes => i = j
    <3>1. \A q \in Requests : NoFrame # Frame(q, "final")
      BY DEF NoFrame, Frame
    <3> QED
      BY <1>1, <3>1 DEF Once, stopVars
  <2>1. /\ q \in pending => q \notin sweep
        /\ q \in pending \cup sweep => ~Ended(q)
        /\ \A i, j \in DOMAIN channel[q] :
             channel[q][i] \in Outcomes /\ channel[q][j] \in Outcomes => i = j
    BY DEF CInv, Once
  <2>2. CASE q # r
    BY <1>5, <2>1, <2>2 DEF Ended
  <2>3. CASE q = r /\ k = "final"
    <3>1. \A i \in DOMAIN channel[r] : channel[r][i] \notin Outcomes
      BY <1>4, <2>3 DEF Ended
    <3> QED
      BY <1>4, <1>5, <2>1, <2>3, <3>1
  <2>4. CASE q = r /\ k # "final"
    <3>1. k \notin Outcomes
      BY <1>2, <2>4 DEF Outcomes, Kinds
    <3> QED
      BY <1>5, <2>1, <2>4, <3>1 DEF Ended
  <2> QED
    BY <2>2, <2>3, <2>4
<1>12. Answers'
  <2> SUFFICES ASSUME NEW q \in Calls, at[q] = "returned", ret[q] = "failed"
               PROVE  /\ ~Contains(channel'[q], "final")
                      /\ \/ reader' = "ended" \/ helper[q] = "idle"
                         \/ q \notin pending /\ held' # Frame(q, "final")
    BY <1>1 DEF Answers, callVars, helperVars
  <2>1. q \in Requests
    BY DEF Requests
  <2>2. /\ ~Contains(channel[q], "final")
        /\ helper[q] = "idle" \/ (q \notin pending /\ held # Frame(q, "final"))
    BY <1>1 DEF CInv, Answers
  <2>3. ~(q = r /\ k = "final")
    BY <1>2, <1>3, <2>2 DEF Sent
  <2>4. ASSUME Contains(channel'[q], "final") PROVE FALSE
    <3>1. channel[q] \in Seq(Results) /\ channel'[q] \in Seq(Results)
      BY <1>5, <2>1 DEF CInv, ClientTypes
    <3>2. PICK i \in DOMAIN channel'[q] : channel'[q][i] = "final"
      BY <2>4, <3>1 DEF Contains
    <3>3. i \in DOMAIN channel[q] /\ channel[q][i] = "final"
      BY <1>5, <2>1, <2>3, <3>2
    <3> QED
      BY <2>2, <3>1, <3>3 DEF Contains
  <2>5. NoFrame # Frame(q, "final")
    BY DEF NoFrame, Frame
  <2> QED
    BY <1>1, <2>2, <2>4, <2>5
<1>13. NothingRunsUnwatched'
  BY <1>1 DEF CInv, NothingRunsUnwatched, Active, callVars, stopVars, procVars, helperVars
<1>14. Credited'
  <2>1. \A q \in Requests : OnTheWay(q)' = OnTheWay(q)
    <3> TAKE q \in Requests
    <3> DEFINE w == Count(wire, Frame(q, "data"))
               c == Count(channel[q], "data")
               a == One(at[q] = "crediting")
               g == One(held = Frame(q, "data"))
    <3>1. w \in Nat /\ c \in Nat /\ a \in Nat /\ g \in Nat
      BY WayNat
    <3>2. One(held = Frame(q, "data"))' = 0
      BY <1>1 DEF One, Frame, NoFrame
    <3>3. Count(channel'[q], "data") = c + g
      <4>1. CASE q = r
        <5>1. held = Frame(q, "data") <=> k = "data"
          BY <1>2, <4>1 DEF Frame
        <5>2. One(k = "data") = g
          BY <5>1 DEF One
        <5> QED
          BY <1>5, <4>1, <5>2
      <4>2. CASE q # r
        <5>1. held # Frame(q, "data")
          BY <1>2, <4>2 DEF Frame
        <5>2. g = 0
          BY <5>1 DEF One
        <5>3. channel'[q] = channel[q]
          BY <1>5, <4>2
        <5> QED
          BY <3>1, <5>2, <5>3
      <4> QED
        BY <4>1, <4>2
    <3>4. OnTheWay(q) = w + g + c + a
      BY DEF OnTheWay
    <3>5. OnTheWay(q)' = w + 0 + (c + g) + a
      BY <1>1, <3>2, <3>3 DEF OnTheWay, callVars
    <3> HIDE DEF w, c, a, g
    <3> QED
      BY <3>1, <3>4, <3>5
  <2> QED
    BY <1>1, <2>1 DEF CInv, Credited, callVars, helperVars
<1> QED
  BY <1>6, <1>7, <1>8, <1>9, <1>10, <1>11, <1>12, <1>13, <1>14 DEF CInv

-----------------------------------------------------------------------------
(* The helper                                                              *)

(* The process ends, with what of the wire is lost.                        *)
LEMMA ExitKeeps ==
  ASSUME CInv, Exit
  PROVE  CInv'
<1>1. PICK n \in 0..Len(wire) : wire' = SubSeq(wire, 1, n)
  BY DEF Exit
<1>2. /\ running' = FALSE
      /\ UNCHANGED <<made, callVars, channel, pending, shutdown, stopVars, reader,
                     held, killed, stdinOpen, helperVars>>
  BY DEF Exit
<1>3. wire \in Seq(Frames)
  BY DEF CInv, ClientTypes
<1>4. /\ wire' \in Seq(Frames) /\ \A e : Count(wire', e) <= Count(wire, e)
      /\ \A i \in DOMAIN wire' : i \in DOMAIN wire /\ wire'[i] = wire[i]
  BY <1>1, <1>3, CountPrefix
<1>5. ClientTypes'
  BY <1>2, <1>4 DEF CInv, ClientTypes, callVars, stopVars, helperVars
<1>6. Stopped'
  BY <1>2 DEF CInv, Stopped, stopVars
<1>7. Placed'
  BY <1>2 DEF CInv, Placed, callVars, stopVars, helperVars
<1>8. Carried'
  BY <1>2, <1>4 DEF CInv, Carried, Sent, helperVars
<1>9. Watched'
  <2>1. ~transportErr => \A i \in DOMAIN wire' : wire'[i].id \in pending
    BY <1>4 DEF CInv, Watched
  <2>2. \A i, j \in DOMAIN wire' : i < j /\ wire'[i].kind = "final" => wire'[j].id # wire'[i].id
    BY <1>4 DEF CInv, Watched
  <2> QED
    BY <1>2, <2>1, <2>2 DEF CInv, Watched, Active, stopVars, helperVars
<1>10. Once'
  BY <1>2 DEF CInv, Once, Ended, stopVars
<1>11. Answers' /\ NothingRunsUnwatched'
  BY <1>2 DEF CInv, Answers, NothingRunsUnwatched, Active, callVars, stopVars, helperVars
<1>12. Credited'
  <2>1. \A q \in Requests : OnTheWay(q)' \in Nat /\ OnTheWay(q)' <= OnTheWay(q)
    <3> TAKE q \in Requests
    <3> DEFINE w == Count(wire, Frame(q, "data"))
               v == Count(wire', Frame(q, "data"))
               h == One(held = Frame(q, "data"))
               c == Count(channel[q], "data")
               a == One(at[q] = "crediting")
    <3>1. w \in Nat /\ v \in Nat /\ h \in Nat /\ c \in Nat /\ a \in Nat /\ v <= w
      BY <1>4, CountNat, WayNat
    <3>2. OnTheWay(q) = w + h + c + a /\ OnTheWay(q)' = v + h + c + a
      BY <1>2 DEF OnTheWay, callVars
    <3> HIDE DEF w, v, h, c, a
    <3> QED
      BY <3>1, <3>2
  <2>2. \A q \in Requests : OnTheWay(q) \in Nat /\ credit[q] \in Nat /\ Window \in Nat
    BY WayNat
  <2>3. \A q \in Requests :
          /\ credit[q] + OnTheWay(q)' <= Window
          /\ sent[q] = 0 => OnTheWay(q)' = 0
    BY <2>1, <2>2 DEF CInv, Credited
  <2> QED
    BY <1>2, <2>3 DEF CInv, Credited, callVars, helperVars
<1> QED
  BY <1>5, <1>6, <1>7, <1>8, <1>9, <1>10, <1>11, <1>12 DEF CInv

(* The helper sends a frame for a request it works on.                     *)
LEMMA HelperKeeps ==
  ASSUME CInv, NEW r \in Requests, HelperStep(r)
  PROVE  CInv'
<1>1. PICK k \in Kinds, n \in {"accepted", "answered"} :
        /\ wire' = Append(wire, Frame(r, k)) /\ helper' = [helper EXCEPT ![r] = n]
        /\ Active(r) /\ (k = "final" <=> n = "answered") /\ (k # "final" => r \in Streams)
        /\ \/ k # "data" /\ credit' = credit /\ sent' = sent
           \/ /\ k = "data" /\ credit[r] > 0 /\ sent[r] < Chunks
              /\ credit' = [credit EXCEPT ![r] = @ - 1] /\ sent' = [sent EXCEPT ![r] = @ + 1]
  <2>1. helper \in [Requests -> {"idle", "unread", "active", "accepted", "answered"}]
    BY DEF CInv, ClientTypes
  <2>2. CASE /\ r \in Streams /\ helper[r] = "active"
             /\ helper' = [helper EXCEPT ![r] = "accepted"]
             /\ Send(r, "accepted") /\ UNCHANGED <<credit, sent>>
    BY <2>2 DEF Send, Active, Kinds
  <2>3. CASE /\ helper[r] = "accepted" /\ credit[r] > 0 /\ sent[r] < Chunks
             /\ credit' = [credit EXCEPT ![r] = @ - 1]
             /\ sent' = [sent EXCEPT ![r] = @ + 1]
             /\ Send(r, "data") /\ UNCHANGED helper
    <3>1. helper' = [helper EXCEPT ![r] = "accepted"]
      BY <2>1, <2>3
    <3>2. r \in Streams
      BY <2>3 DEF CInv, Carried
    <3> QED
      BY <2>3, <3>1, <3>2 DEF Send, Active, Kinds
  <2>4. CASE /\ Active(r)
             /\ helper' = [helper EXCEPT ![r] = "answered"]
             /\ Send(r, "final") /\ UNCHANGED <<credit, sent>>
    BY <2>4 DEF Send, Kinds
  <2> QED
    BY <2>2, <2>3, <2>4 DEF HelperStep
<1>2. UNCHANGED <<made, callVars, channel, pending, shutdown, stopVars, reader, held, procVars>>
  BY DEF HelperStep
<1>3. /\ helper' \in [Requests -> {"idle", "unread", "active", "accepted", "answered"}]
      /\ helper'[r] = n /\ \A q \in Requests : q # r => helper'[q] = helper[q]
  BY <1>1 DEF CInv, ClientTypes
<1> DEFINE f == Frame(r, k)
<1>4. f \in Frames /\ f.id = r /\ f.kind = k
  BY DEF Frames, Frame
<1>5. /\ wire \in Seq(Frames) /\ wire' \in Seq(Frames) /\ Len(wire) \in Nat
      /\ \A i \in DOMAIN wire' :
           \/ i \in DOMAIN wire /\ wire'[i] = wire[i]
           \/ i = Len(wire) + 1 /\ wire'[i] = f
      /\ \A i \in DOMAIN wire : i \in Nat /\ i < Len(wire) + 1
  <2>1. wire \in Seq(Frames) /\ wire' = Append(wire, f)
    BY <1>1 DEF CInv, ClientTypes
  <2> HIDE DEF f
  <2> QED
    BY <1>4, <2>1
<1>6. \A e : Count(wire', e) = Count(wire, e) + One(f = e)
  <2>1. wire' = Append(wire, f)
    BY <1>1
  <2> HIDE DEF f
  <2> QED
    BY <1>4, <1>5, <2>1, CountAppend
<1>7. helper[r] \in {"active", "accepted"}
  BY <1>1 DEF Active
<1>8. \A q \in Requests : \A m \in Kinds : Sent(q, m) => Sent(q, m)'
  BY <1>1, <1>3, <1>7 DEF Sent
<1>9. Sent(r, k)'
  BY <1>1, <1>3 DEF Sent
<1>10. \A q \in Requests : Active(q)' => Active(q)
  BY <1>1, <1>3 DEF Active
<1> HIDE DEF f
<1>11. ClientTypes'
  <2>1. credit' \in [Requests -> Nat] /\ sent' \in [Requests -> 0..Chunks]
    <3>1. credit \in [Requests -> Nat] /\ sent \in [Requests -> 0..Chunks] /\ Chunks \in Nat
      BY ClientBounds DEF CInv, ClientTypes
    <3>2. CASE credit' = credit /\ sent' = sent
      BY <3>1, <3>2
    <3>3. CASE /\ credit[r] > 0 /\ sent[r] < Chunks
               /\ credit' = [credit EXCEPT ![r] = @ - 1] /\ sent' = [sent EXCEPT ![r] = @ + 1]
      <4>1. credit[r] - 1 \in Nat /\ sent[r] + 1 \in 0..Chunks
        BY <3>1, <3>3
      <4> QED
        BY <3>1, <3>3, <4>1
    <3> QED
      BY <1>1, <3>2, <3>3
  <2> QED
    BY <1>2, <1>3, <1>5, <2>1 DEF CInv, ClientTypes, callVars, stopVars, procVars
<1>12. Stopped'
  BY <1>2 DEF CInv, Stopped, stopVars, procVars
<1>13. Placed'
  <2>1. \A q \in Requests : helper[q] = "idle" => helper'[q] = "idle"
    BY <1>3, <1>7
  <2> QED
    BY <1>2, <2>1 DEF CInv, Placed, callVars, stopVars
<1>14. Carried'
  <2> DEFINE SentNow(q, m) ==
               IF m = "final" THEN helper'[q] = "answered"
                              ELSE helper'[q] \in {"accepted", "answered"} /\ q \in Streams
  <2>1. /\ \A q \in Requests : \A m \in Kinds : Sent(q, m) => SentNow(q, m)
        /\ SentNow(r, k)
    BY <1>8, <1>9 DEF Sent
  <2> HIDE DEF SentNow
  <2>2. \A i \in DOMAIN wire' : SentNow(wire'[i].id, wire'[i].kind)
    <3> SUFFICES ASSUME NEW i \in DOMAIN wire' PROVE SentNow(wire'[i].id, wire'[i].kind)
      OBVIOUS
    <3>1. CASE i \in DOMAIN wire /\ wire'[i] = wire[i]
      <4>1. wire[i].id \in Requests /\ wire[i].kind \in Kinds /\ Sent(wire[i].id, wire[i].kind)
        BY <3>1, Contents DEF CInv, Carried
      <4> QED
        BY <2>1, <3>1, <4>1
    <3>2. CASE wire'[i] = f
      BY <1>4, <2>1, <3>2
    <3> QED
      BY <1>5, <3>1, <3>2
  <2>3. held # NoFrame => SentNow(held.id, held.kind)
    BY <2>1, Contents DEF CInv, Carried
  <2>4. \A q \in Requests : \A i \in DOMAIN channel[q] :
          channel[q][i] = "err" \/ SentNow(q, channel[q][i])
    BY <2>1, Contents DEF CInv, Carried, Results
  <2>5. \A q \in Requests : helper'[q] = "accepted" => q \in Streams
    BY <1>1, <1>3 DEF CInv, Carried
  <2> QED
    BY <1>2, <2>2, <2>3, <2>4, <2>5 DEF Carried, Sent, SentNow
<1>15. Watched'
  <2>1. ~transportErr => r \in pending
    BY <1>1 DEF CInv, Watched
  <2>2. ~transportErr => \A i \in DOMAIN wire' : wire'[i].id \in pending
    BY <1>4, <1>5, <2>1 DEF CInv, Watched
  <2>3. \A i \in DOMAIN wire : wire[i].kind = "final" => wire[i].id # r
    BY <1>7 DEF CInv, Carried, Sent
  <2>4. \A i, j \in DOMAIN wire' : i < j /\ wire'[i].kind = "final" => wire'[j].id # wire'[i].id
    <3> SUFFICES ASSUME NEW i \in DOMAIN wire', NEW j \in DOMAIN wire', i < j,
                        wire'[i].kind = "final"
                 PROVE  wire'[j].id # wire'[i].id
      OBVIOUS
    <3>1. i \in DOMAIN wire /\ wire'[i] = wire[i]
      BY <1>5
    <3>2. CASE j \in DOMAIN wire /\ wire'[j] = wire[j]
      BY <3>1, <3>2 DEF CInv, Watched
    <3>3. CASE wire'[j] = f
      BY <1>4, <2>3, <3>1, <3>3
    <3> QED
      BY <1>5, <3>2, <3>3
  <2> QED
    BY <1>2, <1>10, <2>2, <2>4 DEF CInv, Watched, stopVars
<1>16. Once'
  BY <1>2 DEF CInv, Once, Ended, stopVars
<1>17. Answers'
  BY <1>2, <1>3, <1>7 DEF CInv, Answers, callVars, Requests
<1>18. NothingRunsUnwatched'
  BY <1>2, <1>10 DEF CInv, NothingRunsUnwatched, callVars, stopVars, procVars
<1>19. Credited'
  <2> SUFFICES ASSUME NEW q \in Requests
               PROVE  /\ credit'[q] + OnTheWay(q)' <= Window
                      /\ at[q] \in {"idle", "entering", "registered", "requested"} =>
                           credit'[q] = 0 /\ sent'[q] = 0
                      /\ sent'[q] = 0 => OnTheWay(q)' = 0
    BY <1>2 DEF Credited, callVars
  <2>1. /\ credit[q] + OnTheWay(q) <= Window
        /\ at[q] \in {"idle", "entering", "registered", "requested"} => credit[q] = 0 /\ sent[q] = 0
        /\ sent[q] = 0 => OnTheWay(q) = 0
    BY DEF CInv, Credited
  <2> DEFINE w == Count(wire, Frame(q, "data"))
             g == One(f = Frame(q, "data"))
             h == One(held = Frame(q, "data"))
             c == Count(channel[q], "data")
             a == One(at[q] = "crediting")
  <2>2. w \in Nat /\ h \in Nat /\ c \in Nat /\ a \in Nat /\ g \in Nat
    <3>1. g \in Nat
      BY DEF One
    <3> QED
      BY <3>1, WayNat
  <2>3. OnTheWay(q) = w + h + c + a
    BY DEF OnTheWay
  <2>4. OnTheWay(q)' = (w + g) + h + c + a
    <3>1. Count(wire', Frame(q, "data")) = w + g
      BY <1>6
    <3> QED
      BY <1>2, <3>1 DEF OnTheWay, callVars
  <2>5. OnTheWay(q)' = OnTheWay(q) + g /\ OnTheWay(q) \in Nat
    <3> HIDE DEF w, g, h, c, a
    <3> QED
      BY <2>2, <2>3, <2>4
  <2>6. f = Frame(q, "data") <=> q = r /\ k = "data"
    BY DEF f, Frame
  <2>7. CASE q = r /\ k = "data"
    <3>1. g = 1
      BY <2>6, <2>7 DEF One
    <3>2. credit[q] \in Nat /\ sent[q] \in Nat /\ Window \in Nat /\ credit[q] > 0
      <4>1. sent[q] \in 0..Chunks
        BY DEF CInv, ClientTypes
      <4> QED
        BY <1>1, <2>7, <4>1, WayNat
    <3>3. credit'[q] = credit[q] - 1 /\ sent'[q] = sent[q] + 1
      BY <1>1, <2>7 DEF CInv, ClientTypes
    <3>4. at[q] \notin {"idle", "entering", "registered", "requested"}
      BY <2>1, <3>2
    <3> QED
      BY <2>1, <2>5, <3>1, <3>2, <3>3, <3>4
  <2>8. CASE ~(q = r /\ k = "data")
    <3>1. g = 0
      BY <2>6, <2>8 DEF One
    <3>2. credit'[q] = credit[q] /\ sent'[q] = sent[q]
      BY <1>1, <2>8 DEF CInv, ClientTypes
    <3> QED
      BY <2>1, <2>5, <3>1, <3>2
  <2> QED
    BY <2>7, <2>8
<1> QED
  BY <1>11, <1>12, <1>13, <1>14, <1>15, <1>16, <1>17, <1>18, <1>19 DEF CInv

-----------------------------------------------------------------------------
(* The invariant                                                           *)

(* It holds at the start.                                                  *)
LEMMA ClientStarts == Init => CInv
<1> SUFFICES ASSUME Init PROVE CInv
  OBVIOUS
<1>1. ClientTypes
  <2>1. IsFiniteSet({}) /\ Cardinality({}) <= MaxPending /\ Chunks \in Nat
    BY FS_EmptySet, ClientBounds
  <2>2. channel \in [Requests -> Seq(Results)] /\ \A r \in Requests : Len(channel[r]) <= 2
    BY DEF Init
  <2>3. wire \in Seq(Frames)
    BY DEF Init
  <2>4. /\ at \in [Requests -> Places] /\ ret \in [Requests -> Values]
        /\ helper \in [Requests -> {"idle", "unread", "active", "accepted", "answered"}]
        /\ credit \in [Requests -> Nat] /\ sent \in [Requests -> 0..Chunks]
    BY <2>1 DEF Init, Places, Values
  <2>5. /\ made \in Mixes /\ cancelled \in SUBSET Streams /\ sweep \in SUBSET Requests
        /\ pending \in SUBSET Requests /\ IsFiniteSet(pending) /\ Cardinality(pending) <= MaxPending
    BY <2>1 DEF Init
  <2> QED
    BY <2>2, <2>3, <2>4, <2>5 DEF Init, ClientTypes
<1>2. \A r \in Requests : channel[r] = <<>> /\ DOMAIN channel[r] = {}
  BY DEF Init
<1>3. wire = <<>> /\ DOMAIN wire = {}
  BY DEF Init
<1>4. Stopped /\ Placed
  BY <1>2 DEF Init, Stopped, Placed
<1>5. Carried /\ Watched
  BY <1>2, <1>3 DEF Init, Carried, Watched, Active
<1>6. Once
  BY <1>2 DEF Init, Once, Ended, NoFrame, Frame
<1>7. Answers /\ NothingRunsUnwatched
  BY DEF Init, Answers, NothingRunsUnwatched, Requests, Active
<1>8. Credited
  <2> SUFFICES ASSUME NEW r \in Requests
               PROVE  credit[r] + OnTheWay(r) <= Window /\ credit[r] = 0 /\ sent[r] = 0
                      /\ OnTheWay(r) = 0
    BY DEF Credited
  <2>1. Count(wire, Frame(r, "data")) = 0 /\ Count(channel[r], "data") = 0
    BY <1>1, <1>2, <1>3, CountNat DEF ClientTypes
  <2>2. One(held = Frame(r, "data")) = 0 /\ One(at[r] = "crediting") = 0
    BY DEF One, Init, NoFrame, Frame
  <2> QED
    BY <2>1, <2>2, ClientBounds DEF OnTheWay, Init
<1> QED
  BY <1>1, <1>4, <1>5, <1>6, <1>7, <1>8 DEF CInv

(* Every step of the goroutine of a request keeps it.                      *)
LEMMA RequestStep ==
  ASSUME CInv, NEW r \in Requests, Step(r)
  PROVE  CInv'
<1>1. CASE WriteRequest(r) \/ OpenCredit(r) \/ ReturnCredit(r)
  BY <1>1, WriteFailsKeeps, WrittenKeeps, CreditKeeps
<1>2. CASE TakeOutcome(r) \/ ReaderGone(r) \/ WriteCancel(r)
  BY <1>2, OutcomeKeeps, GivingUpKeeps
<1>3. CASE Consume(r) \/ TerminalStarts(r)
  <2>1. r \in Streams
    BY <1>3 DEF Consume, TerminalStarts, CInv, Placed
  <2> QED
    BY <1>3, <2>1, TakingKeeps
<1>4. CASE StreamReaderGone(r) \/ Drain(r)
  BY <1>4, LeavingKeeps, DrainKeeps
<1>5. CASE StopBegin(r) \/ StopReturn(r)
  BY <1>5, BeginKeeps, StopReturnKeeps
<1> QED
  BY <1>1, <1>2, <1>3, <1>4, <1>5 DEF Step

(* Every step of the reader and of the sweep keeps it.                     *)
LEMMA PipeStep ==
  ASSUME CInv, StopStep \/ ReaderStep
  PROVE  CInv'
<1>1. CASE StopStep
  BY <1>1, PutDownKeeps, NotifyKeeps DEF StopStep
<1>2. CASE ReaderStep
  <2>1. CASE ReadFrame
    BY <2>1, UnknownKeeps, HoldKeeps
  <2>2. CASE Deliver
    BY <2>2, DeliverKeeps
  <2>3. CASE ReadFails \/ StopReturn(Reader)
    BY <2>3, ReaderEndsKeeps
  <2>4. CASE StopBegin(Reader)
    BY <2>4, BeginKeeps
  <2> QED
    BY <1>2, <2>1, <2>2, <2>3, <2>4 DEF ReaderStep
<1> QED
  BY <1>1, <1>2

(* Every step keeps it.                                                    *)
LEMMA ClientStep ==
  ASSUME CInv, [Next]_vars
  PROVE  CInv'
<1>1. ASSUME NEW r \in Requests,
             Register(r) \/ Step(r) \/ ContextEnds(r) \/ CancelStream(r)
               \/ CancelStartup(r) \/ HelperStep(r)
      PROVE  CInv'
  <2>1. CASE Register(r)
    BY <2>1, RefusedKeeps, EnteredKeeps
  <2>2. CASE Step(r)
    BY <2>2, RequestStep
  <2>3. CASE ContextEnds(r)
    BY <2>3, GivingUpKeeps
  <2>4. CASE CancelStream(r) \/ CancelStartup(r)
    BY <2>4, LeavingKeeps
  <2>5. CASE HelperStep(r)
    BY <2>5, HelperKeeps
  <2> QED
    BY <1>1, <2>1, <2>2, <2>3, <2>4, <2>5
<1>2. CASE Shutdown \/ CloseStdin \/ ProcessGone \/ ShutdownTimesOut
  BY <1>2, ShutdownKeeps
<1>3. CASE StopStep \/ ReaderStep
  BY <1>3, PipeStep
<1>4. CASE Exit \/ Kill
  BY <1>4, ExitKeeps, PutDownKeeps
<1>5. CASE UNCHANGED vars
  <2>1. UNCHANGED <<made, at, ret, cancelled, channel, pending, shutdown, transportErr, once, sweep,
                    reader, held, killed, running, stdinOpen, wire, helper, credit, sent>>
    BY <1>5 DEF vars, callVars, stopVars, procVars, helperVars
  <2>2. ClientTypes' /\ Stopped' /\ Placed' /\ Carried' /\ Watched'
    BY <2>1 DEF CInv, ClientTypes, Stopped, Placed, Carried, Sent, Watched, Active
  <2>3. Once' /\ Answers' /\ NothingRunsUnwatched'
    BY <2>1 DEF CInv, Once, Ended, Answers, NothingRunsUnwatched, Active
  <2>4. Credited'
    BY <2>1 DEF CInv, Credited, OnTheWay
  <2> QED
    BY <2>2, <2>3, <2>4 DEF CInv
<1> QED
  BY <1>1, <1>2, <1>3, <1>4, <1>5 DEF Next

(* So it holds in every state that is reached.                             *)
LEMMA ClientInvHolds == Spec => []CInv
<1>1. Init => CInv
  BY ClientStarts
<1>2. CInv /\ [Next]_vars => CInv'
  BY ClientStep
<1> QED
  BY <1>1, <1>2, PTL DEF Spec

(* Every request has one outcome, which reaches its caller; what nobody    *)
(* waits for any more is cancelled without harm to the others, and no      *)
(* channel, table or credit exceeds its limit.                             *)
THEOREM RequestsEnd == Spec => []RequestsEndOnce
<1>1. CInv => RequestsEndOnce
  BY InvImplies
<1> QED
  BY <1>1, ClientInvHolds, PTL

(* In particular the state of the client stays in its types.               *)
THEOREM ClientTypeCorrect == Spec => []TypeOK
<1>1. CInv => TypeOK
  BY TypesAreOK
<1> QED
  BY <1>1, ClientInvHolds, PTL

(* Until the transport stops, everything the helper works on or has sent   *)
(* has its entry, and the data under way and the credit left never exceed  *)
(* the window.                                                             *)
THEOREM EntriesAndCredit == Spec => [](Watched /\ Credited)
<1>1. CInv => Watched /\ Credited
  BY DEF CInv
<1> QED
  BY <1>1, ClientInvHolds, PTL

=============================================================================
