----------------------------- MODULE SessionTree -----------------------------
(***************************************************************************)
(* A Pi session file as a tree of entries, and what the desktop does to it *)
(* (src/internal/sessionindex): the active branch it shows, deleting a     *)
(* message, rewinding to one, forking at one.  Pi appends an entry to a    *)
(* branch and reopens the last entry of the file as the active leaf.       *)
(*                                                                         *)
(* What an entry says is left out but for what the operations look at: its *)
(* kind, its parent and the entry it refers to (the first entry a          *)
(* compaction keeps, the target of a label).                               *)
(***************************************************************************)
EXTENDS Naturals, Sequences, FiniteSets, SequencesExt

CONSTANTS
  MaxEntries   \* bound on the entries Pi appends

VARIABLES
  transcript,  \* the entries of the file, in its order, without the header
  appended     \* how many entries Pi has appended: the last identity it used

treeVars == <<transcript, appended>>

Kinds == {"user", "assistant", "toolResult", "compaction", "label"}

Root == 0

EntryIds(s) == {s[k].id : k \in DOMAIN s}
Entry(s, i) == s[CHOOSE k \in DOMAIN s : s[k].id = i]
ParentOf(s, i) == Entry(s, i).parent

(* Entries that carry no message have no role.                             *)
entryRole(e) == IF e.kind \in {"user", "assistant", "toolResult"} THEN e.kind ELSE "none"
RoleOf(s, i) == entryRole(Entry(s, i))

(* activeTranscriptPath: from the root to the entry.                       *)
PathTo(s, i) ==
  LET path[j \in EntryIds(s) \cup {Root}] ==
        IF j = Root THEN <<>> ELSE Append(path[ParentOf(s, j)], j)
  IN path[i]

Leaf(s) == IF s = <<>> THEN Root ELSE Last(s).id
activeTranscriptPath(s) == PathTo(s, Leaf(s))
OnPath(s, i) == ToSet(PathTo(s, i))

(* Every entry has an identity of its own and a chain of parents up to the *)
(* root; the order of the entries in the file does not matter.             *)
validateMutationTree(s) ==
  /\ \A j, k \in DOMAIN s : j # k => s[j].id # s[k].id
  /\ \A k \in DOMAIN s : s[k].parent \in EntryIds(s) \cup {Root}
  /\ \A C \in SUBSET EntryIds(s) : C # {} => \E i \in C : ParentOf(s, i) \notin C

-----------------------------------------------------------------------------
Refused == <<[id |-> Root, parent |-> Root, kind |-> "refused", ref |-> Root]>>

(* Mutant: the file keeps its order, and with it another leaf.             *)
ResumeNowhere(s, leaf) == IF leaf = Root /\ s # <<>> THEN Refused ELSE s

(* Pi reopens the last entry as its active leaf: the leaf to resume at is  *)
(* moved to the end of the file.  None of several branches may be left     *)
(* active by an empty path.                                                *)
resumeMutationAt(s, leaf) ==
  CASE leaf = Root -> IF s = <<>> THEN s ELSE Refused
    [] leaf # Root -> LET others(e) == e.id # leaf
                      IN Append(SelectSeq(s, others), Entry(s, leaf))

(* The entries above a tool result, up to the message it answers.          *)
Examined(s, i) ==
  LET path == PathTo(s, i)
      n == Len(path)
  IN {path[k] : k \in {m \in 1..(n - 1) :
        \A x \in (m + 1)..(n - 1) : RoleOf(s, path[x]) \in {"none", "toolResult"}}}

(* What goes with a deleted message: its tool results and the labels put   *)
(* on anything that goes, until nothing is added.                          *)
Dragged(s, R) ==
  R \cup {i \in EntryIds(s) :
    \/ Entry(s, i).kind = "label" /\ Entry(s, i).ref \in R
    \/ RoleOf(s, i) = "toolResult" /\ Examined(s, i) \cap R # {}}

RemovedWith(s, i) ==
  LET closure[n \in 0..Len(s)] == IF n = 0 THEN {i} ELSE Dragged(s, closure[n - 1])
  IN closure[Len(s)]

NearestKept(s, R, i) ==
  LET kept(j) == j \notin R
      path == SelectSeq(PathTo(s, i), kept)
  IN IF path = <<>> THEN Root ELSE Last(path)

(* The first entry kept after the last one removed, on the way down.       *)
firstRetainedDescendantOnPath(s, R, i) ==
  LET path == PathTo(s, i)
      gone == {k \in DOMAIN path : path[k] \in R}
      after == {k \in DOMAIN path : \A x \in gone : k > x}
  IN IF gone = {} \/ after = {} THEN Root
     ELSE path[CHOOSE k \in after : \A x \in after : k <= x]

(* Mutant: the children of what is removed start a branch of their own.    *)
ReconnectedToRoot(s, R, e) == IF e.parent \in R THEN [e EXCEPT !.parent = Root] ELSE e

Reconnected(s, R, e) ==
  LET up == NearestKept(s, R, e.parent)
  IN [e EXCEPT !.parent = up,
       !.ref = IF e.kind = "compaction" /\ @ \in R
                 THEN firstRetainedDescendantOnPath(s, R, up) ELSE @]

Deleted(s, i) ==
  LET R == RemovedWith(s, i)
      kept(e) == e.id \notin R
      rest == SelectSeq(s, kept)
  IN resumeMutationAt([k \in DOMAIN rest |-> Reconnected(s, R, rest[k])],
                      NearestKept(s, R, Leaf(s)))

Deletable(i) ==
  /\ RoleOf(transcript, i) \in {"user", "assistant"}
  /\ Deleted(transcript, i) # Refused
  /\ validateMutationTree(Deleted(transcript, i))

DeleteMessage ==
  \E i \in {j \in EntryIds(transcript) : Deletable(j)} :
    transcript' = Deleted(transcript, i) /\ UNCHANGED appended

-----------------------------------------------------------------------------
(* RewindBefore: the latest user turn of the active branch goes, but for   *)
(* what the rest of the file refers to.                                    *)
Refs(s, i) == {Entry(s, i).parent, Entry(s, i).ref} \ {Root}

Suffix(s, i) == {j \in OnPath(s, Leaf(s)) : i \in OnPath(s, j)}

(* Mutant: other branches lose what they hang from.                        *)
ProtectNothing(s, suffix) == {}

Protected(s, suffix) ==
  LET outside == UNION {Refs(s, j) : j \in EntryIds(s) \ suffix}
      closure[n \in 0..Len(s)] ==
        IF n = 0 THEN outside \cap suffix
        ELSE closure[n - 1] \cup (UNION {Refs(s, j) : j \in closure[n - 1]} \cap suffix)
  IN closure[Len(s)]

Rewound(s, i) ==
  LET gone == Suffix(s, i) \ Protected(s, Suffix(s, i))
      kept(e) == e.id \notin gone
  IN resumeMutationAt(SelectSeq(s, kept), ParentOf(s, i))

Rewindable(i) ==
  /\ RoleOf(transcript, i) = "user" /\ i \in OnPath(transcript, Leaf(transcript))
  /\ \A j \in Suffix(transcript, i) \ {i} : RoleOf(transcript, j) # "user"
  /\ Rewound(transcript, i) # Refused
  /\ validateMutationTree(Rewound(transcript, i))

RewindBefore ==
  \E i \in {j \in EntryIds(transcript) : Rewindable(j)} :
    transcript' = Rewound(transcript, i) /\ UNCHANGED appended

-----------------------------------------------------------------------------
(* Mutant: a fork leaves the tool results behind.                          *)
ForkExactly(s, i, before) == IF before THEN ParentOf(s, i) ELSE i

(* ForkMessage: a new file with the branch of the entry, or of its parent, *)
(* without labels.  A message is taken with its tool results on the active *)
(* branch.                                                                 *)
ForkPoint(s, i, before) ==
  LET active == activeTranscriptPath(s)
      after == IF i \in ToSet(active)
                 THEN SubSeq(active, (CHOOSE k \in DOMAIN active : active[k] = i) + 1, Len(active))
                 ELSE <<>>
      results == {k \in DOMAIN after :
        /\ RoleOf(s, after[k]) = "toolResult"
        /\ \A x \in 1..k : RoleOf(s, after[x]) \in {"none", "toolResult"}}
  IN IF before THEN ParentOf(s, i)
     ELSE IF results = {} THEN i ELSE after[CHOOSE k \in results : \A x \in results : x <= k]

Forked(s, i, before) ==
  LET entries == [k \in DOMAIN PathTo(s, ForkPoint(s, i, before)) |->
                    Entry(s, PathTo(s, ForkPoint(s, i, before))[k])]
      kept(e) == e.kind # "label"
      branch == SelectSeq(entries, kept)
  IN [k \in DOMAIN branch |->
        [branch[k] EXCEPT !.parent = IF k = 1 THEN Root ELSE branch[k - 1].id]]

Forkable(i, before) ==
  /\ RoleOf(transcript, i) # "none"
  /\ before => RoleOf(transcript, i) = "user"

ForkMessage ==
  \E i \in EntryIds(transcript), before \in BOOLEAN :
    /\ Forkable(i, before)
    /\ transcript' = Forked(transcript, i, before)
    /\ UNCHANGED appended

-----------------------------------------------------------------------------
(* External: Pi appends an entry to the active branch, or opens another    *)
(* branch with a user message.  It answers an assistant's calls before     *)
(* anything else is said.                                                  *)
Answering(s, parent) ==
  \E a \in OnPath(s, parent) :
    /\ RoleOf(s, a) = "assistant"
    /\ \A j \in OnPath(s, parent) \ {a} :
         a \in OnPath(s, j) => RoleOf(s, j) \in {"none", "toolResult"}

NextEntries(s) ==
  {e \in [id : {appended + 1}, parent : EntryIds(s) \cup {Root},
          kind : Kinds, ref : EntryIds(s) \cup {Root}] :
     /\ e.kind = "user" \/ e.parent = Leaf(s)
     /\ CASE e.kind = "toolResult" -> e.ref = Root /\ Answering(s, e.parent)
          [] e.kind = "compaction" -> /\ e.ref \in OnPath(s, e.parent)
                                      /\ RoleOf(s, e.ref) \in {"user", "assistant"}
          [] e.kind = "label" -> e.ref # Root /\ RoleOf(s, e.ref) # "none"
          [] OTHER -> e.ref = Root}

PiAppends ==
  /\ appended < MaxEntries
  /\ appended' = appended + 1
  /\ \E e \in NextEntries(transcript) : transcript' = Append(transcript, e)

TreeInit == transcript = <<>> /\ appended = 0

TreeNext == DeleteMessage \/ RewindBefore \/ ForkMessage \/ PiAppends

TreeSpec == TreeInit /\ [][TreeNext]_treeVars

-----------------------------------------------------------------------------
(* Properties                                                              *)

TreeTypeOK ==
  /\ appended \in 0..MaxEntries
  /\ transcript \in Seq([id : 1..MaxEntries, parent : 0..MaxEntries, kind : Kinds, ref : 0..MaxEntries])

Survivors(path, t) == LET kept(i) == i \in EntryIds(t) IN SelectSeq(path, kept)

(* However it was edited, the file is a tree, a label's target is in it    *)
(* and what a compaction keeps lies above it.                              *)
TranscriptIsSound ==
  /\ TreeTypeOK /\ validateMutationTree(transcript)
  /\ \A i \in EntryIds(transcript) :
       LET e == Entry(transcript, i)
       IN /\ e.kind = "label" => e.ref \in EntryIds(transcript)
          /\ e.kind = "compaction" /\ e.ref \in EntryIds(transcript)
               => e.ref \in OnPath(transcript, e.parent)

(* "This preserves later branches" (DeleteMessage), "must not silently     *)
(* activate a neighboring, unrelated branch" (resumeMutationAt): every     *)
(* entry kept has the ancestors it had, but for those removed, and the     *)
(* active branch is the one that was active.                               *)
DeletionKeepsBranches ==
  \A i \in EntryIds(transcript) : Deletable(i) =>
    LET left == Deleted(transcript, i)
    IN /\ \A j \in EntryIds(left) : PathTo(left, j) = Survivors(PathTo(transcript, j), left)
       /\ activeTranscriptPath(left) = Survivors(activeTranscriptPath(transcript), left)

(* A rewind ends the active branch before the turn and takes nothing from  *)
(* another branch; a fork repeats the branch up to the message, with all   *)
(* its results, and is a tree of its own.                                  *)
RewindAndForkKeepBranches ==
  \A i \in EntryIds(transcript) :
    /\ Rewindable(i) =>
         LET left == Rewound(transcript, i)
         IN /\ \A j \in EntryIds(transcript) \ Suffix(transcript, i) :
                 PathTo(left, j) = PathTo(transcript, j)
            /\ activeTranscriptPath(left) = PathTo(transcript, ParentOf(transcript, i))
    /\ \A before \in BOOLEAN : Forkable(i, before) =>
         LET fork == Forked(transcript, i, before)
         IN /\ validateMutationTree(fork)
            /\ before \/ \A j \in OnPath(transcript, Leaf(transcript)) :
                 RoleOf(transcript, j) = "toolResult" /\ i \in Examined(transcript, j)
                   => j \in EntryIds(fork)

(* Whatever is deleted, rewound or forked, what is left of a branch is     *)
(* what it was.                                                            *)
MutationsKeepBranches == DeletionKeepsBranches /\ RewindAndForkKeepBranches

=============================================================================
