--------------------------- MODULE ClientSyncProofs ---------------------------
(***************************************************************************)
(* Proofs about ClientSync, for any paths, any number of commands at the   *)
(* same time, and any number of starts, edits and failures.                *)
(***************************************************************************)
EXTENDS ClientSync, TLAPS

USE DEF client, agent, command, bounds, Set

(***************************************************************************)
(* The operators of ThreeWay on manifests.                                 *)
(***************************************************************************)
LEMMA MergeType ==
    ASSUME NEW one \in Manifest, NEW other \in Manifest, NEW changes
    PROVE  /\ Merge(one, changes, other) \in Manifest
           /\ \A p \in Paths : Merge(one, changes, other)[p] =
                  IF p \in changes THEN other[p] ELSE one[p]
  BY DEF Merge, Manifest

LEMMA EmptyType == Empty \in Manifest
  BY DEF Empty, Manifest, Value

LEMMA ChangesType ==
    ASSUME NEW old, NEW sender, NEW receiver
    PROVE  Changes(old, sender, receiver) \subseteq Paths
  BY DEF Changes

LEMMA RecordedType ==
    ASSUME NEW old \in Manifest, NEW sender \in Manifest, NEW receiver \in Manifest
    PROVE  /\ PlanBaseline(old, sender, receiver) \in Manifest
           /\ Agreed(old, sender, receiver) \in Manifest
  BY MergeType DEF PlanBaseline, Agreed

LEMMA NumbersType ==
    ASSUME NEW m \in Manifest, NEW p \in Paths
    PROVE  m[p] \in Value /\ m[p] \in Nat
  <1>1. m[p] \in Value
    BY DEF Manifest
  <1>2. Value \subseteq Nat
    BY ContentAssumption DEF Value
  <1> QED
    BY <1>1, <1>2

LEMMA BoundsType == MaxStarts \in Nat /\ MaxEdits \in Nat /\ MaxFaults \in Nat
  BY ClientAssumption

-----------------------------------------------------------------------------
(***************************************************************************)
(* Type correctness. A command that is about to apply or undo a transfer   *)
(* has one in its memory.                                                  *)
(***************************************************************************)
Jobs ==
    \A c \in Commands :
        /\ pc[c] \in {"staged", "apply", "committed", "undo"} => job[c] \in Transfers
        /\ pc[c] \in {"apply", "undo"} => todo[c] \subseteq job[c].changes

TypeInv == TypeOK /\ Jobs

CommandsType ==
    /\ pc \in [Commands -> {"idle", "recover", "undo", "ready", "leased", "staged",
                            "apply", "committed", "finish"}]
    /\ kind \in [Commands -> {"none", "push", "pull", "check", "failed"}]
    /\ token \in [Commands -> 0 .. MaxStarts]
    /\ seen \in [Commands -> Snapshots] /\ sent \in [Commands -> Manifest]
    /\ job \in [Commands -> Transfers \cup {None}]
    /\ todo \in [Commands -> SUBSET Paths] /\ stuck \in [Commands -> SUBSET Paths]

FilesType ==
    /\ local \in Manifest /\ remote \in Manifest /\ shared \in Manifest
    /\ base \in Manifest \cup {NoFile}
    /\ journal \in Transfers \cup {None}
    /\ backups \in [1 .. MaxStarts -> Manifest]

CountersType ==
    /\ starts \in 0 .. MaxStarts /\ edits \in 0 .. MaxEdits /\ faults \in 0 .. MaxFaults
    /\ clash \in BOOLEAN

LeaseType == lease \in Commands \cup {None}

LEMMA TypeParts == TypeOK <=> CommandsType /\ FilesType /\ CountersType /\ LeaseType
  BY DEF TypeOK, CommandsType, FilesType, CountersType, LeaseType

LEMMA TypePartsNext == TypeOK' <=> CommandsType' /\ FilesType' /\ CountersType' /\ LeaseType'
  BY DEF TypeOK, CommandsType, FilesType, CountersType, LeaseType

LEMMA TypeInit == Init => TypeInv
  <1> SUFFICES ASSUME Init PROVE TypeInv
    OBVIOUS
  <1> USE EmptyType DEF Init
  <1>1. NoSnapshot \in Snapshots
    BY DEF NoSnapshot, Snapshots
  <1>2. CommandsType
    BY <1>1, BoundsType DEF CommandsType
  <1>3. FilesType
    <2>1. 1 \in Value
      BY ContentAssumption DEF Value
    <2> QED
      BY <2>1 DEF FilesType, Manifest
  <1>4. CountersType /\ LeaseType
    <2>1. starts = 0 /\ edits = 0 /\ faults = 0
      OBVIOUS
    <2>2. clash \in BOOLEAN /\ LeaseType
      BY Zenon DEF LeaseType
    <2> HIDE DEF Init
    <2> QED
      BY <2>1, <2>2, BoundsType DEF CountersType
  <1>5. \A c \in Commands : pc[c] = "idle"
    OBVIOUS
  <1>6. Jobs
    BY <1>5 DEF Jobs
  <1> QED
    BY <1>2, <1>3, <1>4, <1>6, TypeParts DEF TypeInv

LEMMA EndsType ==
    ASSUME CommandsType, LeaseType, Jobs, NEW c \in Commands, Ends(c)
    PROVE  CommandsType' /\ LeaseType' /\ Jobs'
  <1>1. NoSnapshot \in Snapshots
    BY EmptyType DEF NoSnapshot, Snapshots
  <1>2. CommandsType' /\ LeaseType'
    BY <1>1, EmptyType, BoundsType DEF Ends, CommandsType, LeaseType
  <1>3. Jobs'
    BY DEF Ends, CommandsType, Jobs
  <1> QED
    BY <1>2, <1>3

LEMMA AfterRecoveryType ==
    ASSUME CommandsType, LeaseType, Jobs, NEW c \in Commands, AfterRecovery(c)
    PROVE  CommandsType' /\ LeaseType' /\ Jobs'
  <1>1. CASE Ends(c)
    BY <1>1, EndsType
  <1>2. CASE ~Ends(c)
    <2>1. CommandsType' /\ LeaseType'
      BY <1>2 DEF AfterRecovery, CommandsType, LeaseType
    <2>2. Jobs'
      BY <1>2 DEF AfterRecovery, CommandsType, Jobs
    <2> QED
      BY <2>1, <2>2
  <1> QED
    BY <1>1, <1>2

LEMMA TypeRecovery ==
    ASSUME TypeInv, NEW c \in Commands,
           Start(c) \/ NothingToRecover(c) \/ ReadJournal(c) \/ EndRecovery(c)
    PROVE  TypeInv'
  <1> USE TypeParts DEF TypeInv
  <1>1. CASE Start(c)
    <2>1. CommandsType'
      BY <1>1, BoundsType DEF Start, CommandsType, CountersType
    <2>2. CountersType'
      BY <1>1, BoundsType DEF Start, CountersType
    <2>3. Jobs'
      BY <1>1 DEF Start, CommandsType, Jobs
    <2> QED
      BY <1>1, <2>1, <2>2, <2>3, TypePartsNext DEF Start, FilesType, LeaseType
  <1>2. CASE NothingToRecover(c)
    BY <1>2, AfterRecoveryType, TypePartsNext DEF NothingToRecover, FilesType, CountersType
  <1>3. CASE ReadJournal(c)
    <2>1. journal \in Transfers /\ journal.changes \subseteq Paths
      BY <1>3 DEF ReadJournal, FilesType, Transfers
    <2>2. CommandsType'
      BY <1>3, <2>1 DEF ReadJournal, CommandsType
    <2>3. CountersType'
      BY <1>3 DEF ReadJournal, CountersType
    <2>4. Jobs'
      BY <1>3, <2>1 DEF ReadJournal, CommandsType, Jobs
    <2> QED
      BY <1>3, <2>2, <2>3, <2>4, TypePartsNext DEF ReadJournal, FilesType, LeaseType
  <1>4. CASE EndRecovery(c)
    <2>1. CommandsType' /\ LeaseType' /\ Jobs'
      BY <1>4, EndsType, AfterRecoveryType DEF EndRecovery
    <2> QED
      BY <1>4, <2>1, TypePartsNext DEF EndRecovery, FilesType, CountersType
  <1> QED
    BY <1>1, <1>2, <1>3, <1>4

LEMMA TypeUndo ==
    ASSUME TypeInv, NEW c \in Commands, NEW p \in Paths, UndoPath(c, p)
    PROVE  TypeInv'
  <1> USE TypeParts DEF TypeInv
  <1>1. job[c].before \in Manifest
    BY DEF UndoPath, Jobs, Transfers
  <1>2. local' \in Manifest
    BY <1>1 DEF UndoPath, FilesType, Manifest
  <1>3. stuck' \in [Commands -> SUBSET Paths] /\ todo' \in [Commands -> SUBSET Paths]
    BY DEF UndoPath, CommandsType
  <1>4. Jobs'
    BY DEF UndoPath, CommandsType, Jobs
  <1> QED
    BY <1>2, <1>3, <1>4, TypePartsNext
       DEF UndoPath, FilesType, CommandsType, CountersType, LeaseType

LEMMA TypeEnding ==
    ASSUME TypeInv, NEW c \in Commands,
           \/ Preview(c) \/ Busy(c) \/ Conflict(c) \/ CopyFails(c) \/ Rejected(c)
           \/ Refuse(c) \/ JournalGone(c) \/ Crash(c)
    PROVE  TypeInv'
  <1>1. Ends(c) /\ UNCHANGED <<client, remote, shared, starts, edits, clash>>
    BY DEF Preview, Busy, Conflict, CopyFails, Rejected, Refuse, JournalGone, Crash
  <1>2. faults' \in 0 .. MaxFaults
    BY ClientAssumption
       DEF Preview, Busy, Conflict, CopyFails, Rejected, Refuse, JournalGone, Crash, TypeInv, TypeOK
  <1> QED
    BY <1>1, <1>2, EndsType, TypeParts, TypePartsNext DEF TypeInv, FilesType, CountersType

LEMMA TypePush ==
    ASSUME TypeInv, NEW c \in Commands, Begin(c) \/ ScanAndSend(c) \/ FinishPush(c)
    PROVE  TypeInv'
  <1> USE TypeParts DEF TypeInv
  <1>1. CASE Begin(c)
    <2>1. [manifest |-> remote, baseline |-> shared] \in Snapshots
      BY DEF Snapshots, FilesType
    <2>2. CommandsType' /\ LeaseType'
      BY <1>1, <2>1 DEF Begin, CommandsType, LeaseType
    <2>3. Jobs'
      BY <1>1 DEF Begin, CommandsType, Jobs
    <2> QED
      BY <1>1, <2>2, <2>3, TypePartsNext DEF Begin, FilesType, CountersType
  <1>2. CASE ScanAndSend(c)
    <2>1. CommandsType' /\ CountersType'
      BY <1>2 DEF ScanAndSend, Scans, CommandsType, FilesType, CountersType
    <2>2. Jobs'
      BY <1>2 DEF ScanAndSend, CommandsType, Jobs
    <2> QED
      BY <1>2, <2>1, <2>2, TypePartsNext DEF ScanAndSend, FilesType, LeaseType
  <1>3. CASE FinishPush(c)
    <2>1. seen[c].manifest \in Manifest /\ sent[c] \in Manifest
      BY DEF CommandsType, Snapshots
    <2>2. remote' \in Manifest /\ shared' \in Manifest
      BY <1>3, <2>1, MergeType, RecordedType DEF FinishPush, Recorded, FilesType
    <2> QED
      BY <1>3, <2>2, EndsType, TypePartsNext DEF FinishPush, FilesType, CountersType
  <1> QED
    BY <1>1, <1>2, <1>3

LEMMA PullPlanType ==
    ASSUME TypeInv, NEW c \in Commands
    PROVE  /\ PullPlan(c) \in Transfers
           /\ Merge(local, PullPlan(c).changes, seen[c].manifest) \in Manifest
  <1>1. /\ seen[c].manifest \in Manifest /\ seen[c].baseline \in Manifest
        /\ local \in Manifest /\ token[c] \in Nat
    BY ClientAssumption DEF TypeInv, TypeOK, Snapshots
  <1>2. PullPlan(c).changes \subseteq Paths
    BY ChangesType DEF PullPlan
  <1> QED
    BY <1>1, <1>2, MergeType, EmptyType, RecordedType, ChangesType DEF PullPlan, Transfers

LEMMA TypePull ==
    ASSUME TypeInv, NEW c \in Commands,
           PlanPull(c) \/ WriteJournal(c) \/ Commit(c) \/ Applied(c) \/ FinishPull(c)
    PROVE  TypeInv'
  <1> USE TypeParts DEF TypeInv
  <1>1. CASE PlanPull(c)
    <2>1. CommandsType' /\ CountersType'
      BY <1>1, PullPlanType DEF PlanPull, Scans, CommandsType, CountersType
    <2>2. Jobs'
      BY <1>1, PullPlanType DEF PlanPull, CommandsType, Jobs
    <2> QED
      BY <1>1, <2>1, <2>2, TypePartsNext DEF PlanPull, FilesType, LeaseType
  <1>2. CASE WriteJournal(c)
    <2>1. job[c] \in Transfers /\ job[c].changes \subseteq Paths
      BY <1>2 DEF WriteJournal, Jobs, Transfers
    <2>2. FilesType' /\ CommandsType'
      BY <1>2, <2>1 DEF WriteJournal, FilesType, CommandsType
    <2>3. Jobs'
      BY <1>2, <2>1 DEF WriteJournal, CommandsType, Jobs
    <2> QED
      BY <1>2, <2>2, <2>3, TypePartsNext DEF WriteJournal, CountersType, LeaseType
  <1>3. CASE Commit(c) \/ Applied(c)
    <2>1. pc[c] \in {"apply", "committed"} => job[c].baseline \in Manifest
      BY DEF Jobs, Transfers
    <2>2. FilesType'
      BY <1>3, <2>1 DEF Commit, Applied, FilesType
    <2>3. CommandsType'
      BY <1>3 DEF Commit, Applied, CommandsType
    <2>4. Jobs'
      BY <1>3 DEF Commit, Applied, CommandsType, Jobs
    <2> QED
      BY <1>3, <2>2, <2>3, <2>4, TypePartsNext DEF Commit, Applied, CountersType, LeaseType
  <1>4. CASE FinishPull(c)
    <2>1. seen[c].manifest \in Manifest /\ sent[c] \in Manifest
      BY DEF CommandsType, Snapshots
    <2>2. shared' \in Manifest
      BY <1>4, <2>1, RecordedType DEF FinishPull, FilesType
    <2> QED
      BY <1>4, <2>2, EndsType, TypePartsNext DEF FinishPull, FilesType, CountersType
  <1> QED
    BY <1>1, <1>2, <1>3, <1>4

LEMMA TypeApply ==
    ASSUME TypeInv, NEW c \in Commands, NEW p \in Paths, ApplyPath(c, p)
    PROVE  TypeInv'
  <1> USE TypeParts DEF TypeInv
  <1>1. job[c].after \in Manifest
    BY DEF ApplyPath, Jobs, Transfers
  <1>2. local' \in Manifest
    BY <1>1 DEF ApplyPath, FilesType, Manifest
  <1>3. backups' \in [1 .. MaxStarts -> Manifest]
    <2>1. \A n \in 1 .. MaxStarts : [backups[n] EXCEPT ![p] = local[p]] \in Manifest
      BY DEF FilesType, Manifest
    <2> QED
      BY <2>1 DEF ApplyPath, FilesType
  <1>4. Jobs' /\ CommandsType'
    BY DEF ApplyPath, CommandsType, Jobs
  <1> QED
    BY <1>2, <1>3, <1>4, TypePartsNext DEF ApplyPath, FilesType, CountersType, LeaseType

LEMMA TypeFailures ==
    ASSUME TypeInv, NEW c \in Commands, ApplyFails(c) \/ LoseLease(c)
    PROVE  TypeInv'
  <1> USE TypeParts DEF TypeInv
  <1>1. CommandsType' /\ LeaseType'
    BY DEF ApplyFails, LoseLease, CommandsType, LeaseType
  <1>2. CountersType'
    BY ClientAssumption DEF ApplyFails, LoseLease, CountersType
  <1>3. Jobs'
    BY DEF ApplyFails, LoseLease, CommandsType, Jobs
  <1> QED
    BY <1>1, <1>2, <1>3, TypePartsNext DEF ApplyFails, LoseLease, FilesType

LEMMA TypeEdits ==
    ASSUME TypeInv, NEW p \in Paths, LocalEdit(p) \/ RemoteEdit(p)
    PROVE  TypeInv'
  <1> USE TypeParts DEF TypeInv
  <1>1. edits \in 0 .. MaxEdits - 1 /\ edits' \in 0 .. MaxEdits
    BY ClientAssumption DEF LocalEdit, RemoteEdit, CountersType
  <1>2. \A old : \A fresh \in {2 * edits + 2, 2 * edits + 3} : Writes(old, fresh) \subseteq Value
    BY <1>1, ContentAssumption DEF Writes, Value
  <1>3. local' \in Manifest /\ remote' \in Manifest
    BY <1>2 DEF LocalEdit, RemoteEdit, FilesType, Manifest
  <1>4. Jobs' /\ CommandsType' /\ LeaseType'
    BY DEF LocalEdit, RemoteEdit, Jobs, CommandsType, LeaseType
  <1> QED
    BY <1>1, <1>3, <1>4, TypePartsNext DEF LocalEdit, RemoteEdit, FilesType, CountersType

LEMMA TypeNext ==
    ASSUME TypeInv, [Next]_vars
    PROVE  TypeInv'
  <1>1. CASE UNCHANGED vars
    BY <1>1 DEF vars, TypeInv, TypeOK, Jobs
  <1> QED
    BY <1>1, TypeRecovery, TypeUndo, TypeEnding, TypePush, TypePull, TypeApply, TypeFailures,
       TypeEdits DEF Next, Step, Pull

\* The commands, their transfers and both machines' files are what they should be, whichever
\* commands overlap and whatever fails.
THEOREM TypeCorrect == Spec => []TypeOK
  <1>1. TypeInv => TypeOK
    BY DEF TypeInv
  <1> QED
    BY <1>1, TypeInit, TypeNext, PTL DEF Spec

-----------------------------------------------------------------------------
(***************************************************************************)
(* As long as no command has met the journal of another one at work, what  *)
(* is recorded, sent or undone is never newer than what it is compared     *)
(* with. That orders contents by their numbers, so it is said of projects  *)
(* to which no edit brings back an earlier content.                        *)
(***************************************************************************)
AtWork(c) == pc[c] \in {"apply", "committed", "undo"}

\* One command at a time replaces or brings back files, and the journal is its own.
Alone ==
    /\ \A c \in Commands : AtWork(c) => journal # None /\ job[c] = journal
    /\ \A c, d \in Commands : AtWork(c) /\ AtWork(d) => c = d

\* The Client holds v at p or something newer, and will after undoing what the journal
\* says.
Lasts(v, p) ==
    /\ v <= local[p]
    /\ journal # None => (p \in journal.changes => v <= journal.before[p])

Rising(t) == \A p \in t.changes : t.before[p] <= t.after[p]

FilesOrdered ==
    /\ \A p \in Paths : /\ Lasts(shared[p], p) /\ shared[p] <= remote[p]
                        /\ local[p] <= 2 * edits + 1 /\ remote[p] <= 2 * edits + 1
    /\ journal # None => Rising(journal)

\* What the holder of the lease knows of the Agent, and where it may stand.
LeaseOrdered(c) ==
    lease = c => /\ shared = seen[c].baseline
                 /\ \/ pc[c] \in {"leased", "staged", "apply", "committed", "finish"}
                    \/ pc[c] \in {"recover", "undo"} /\ kind[c] = "failed"

SeenOrdered(c) ==
    \A p \in Paths : /\ seen[c].baseline[p] <= seen[c].manifest[p]
                     /\ seen[c].manifest[p] <= 2 * edits + 1

\* What a transfer will leave on the Client is newer than what it found there.
PlanOrdered(c) ==
    /\ pc[c] \in {"staged", "apply", "committed"} => kind[c] = "pull"
    /\ pc[c] \in {"staged", "apply"} =>
           /\ Rising(job[c])
           /\ \A p \in job[c].changes : /\ job[c].after[p] = sent[c][p]
                                        /\ sent[c][p] = seen[c].manifest[p]

StageOrdered(c) ==
    pc[c] = "staged" =>
        \A p \in Paths : Lasts(IF p \in job[c].changes THEN job[c].before[p] ELSE sent[c][p], p)

\* The paths a pull has done hold what it will report, or something newer.
WorkOrdered(c) ==
    /\ pc[c] = "apply" =>
           \A p \in Paths : IF p \in todo[c] THEN local[p] = job[c].before[p]
                            ELSE sent[c][p] <= local[p]
    /\ pc[c] = "committed" => \A p \in Paths : sent[c][p] <= local[p]

FinishOrdered(c) ==
    pc[c] = "finish" =>
        \A p \in Paths : /\ Lasts(sent[c][p], p)
                         /\ kind[c] = "push" /\ lease = c => shared[p] <= sent[c][p]

CommandOrdered(c) ==
    /\ LeaseOrdered(c) /\ SeenOrdered(c) /\ PlanOrdered(c) /\ StageOrdered(c)
    /\ WorkOrdered(c) /\ FinishOrdered(c)

Ordered == Alone /\ FilesOrdered /\ \A c \in Commands : CommandOrdered(c)

OrderInv == TypeInv /\ (clash \/ Ordered)

\* A history variable stays set.
LEMMA ClashStays ==
    ASSUME [Next]_vars, clash
    PROVE  clash'
  <1>1. ASSUME NEW c \in Commands, ReadJournal(c) \/ ScanAndSend(c) \/ PlanPull(c)
        PROVE  clash'
    BY <1>1, Zenon DEF ReadJournal, ScanAndSend, PlanPull, Scans
  <1>2. ASSUME NEW c \in Commands,
               \/ Start(c) \/ NothingToRecover(c) \/ EndRecovery(c) \/ Preview(c)
               \/ Begin(c) \/ Busy(c) \/ Conflict(c) \/ CopyFails(c)
               \/ FinishPush(c) \/ Rejected(c) \/ WriteJournal(c) \/ Refuse(c) \/ Commit(c)
               \/ Applied(c) \/ JournalGone(c) \/ FinishPull(c)
               \/ ApplyFails(c) \/ LoseLease(c) \/ Crash(c)
               \/ \E p \in Paths : UndoPath(c, p) \/ ApplyPath(c, p)
        PROVE  clash' = clash
    BY <1>2 DEF Start, NothingToRecover, EndRecovery, Preview, Begin, Busy, Conflict, CopyFails,
       FinishPush, Rejected, WriteJournal, Refuse, Commit, Applied, JournalGone, FinishPull,
       ApplyFails, LoseLease, Crash, UndoPath, ApplyPath
  <1>3. ASSUME NEW p \in Paths, LocalEdit(p) \/ RemoteEdit(p)
        PROVE  clash' = clash
    BY <1>3 DEF LocalEdit, RemoteEdit
  <1>4. CASE UNCHANGED vars
    BY <1>4 DEF vars
  <1> QED
    BY <1>1, <1>2, <1>3, <1>4 DEF Next, Step, Pull

LEMMA Numbers ==
    ASSUME TypeInv
    PROVE  /\ edits \in Nat
           /\ \A p \in Paths : local[p] \in Nat /\ remote[p] \in Nat /\ shared[p] \in Nat
           /\ \A c \in Commands : \A p \in Paths :
                  /\ seen[c].manifest[p] \in Nat /\ seen[c].baseline[p] \in Nat
                  /\ sent[c][p] \in Nat
           /\ journal # None =>
                  /\ journal.changes \subseteq Paths
                  /\ \A p \in Paths : journal.before[p] \in Nat /\ journal.after[p] \in Nat
           /\ \A c \in Commands : job[c] \in Transfers =>
                  /\ job[c].changes \subseteq Paths
                  /\ \A p \in Paths : job[c].before[p] \in Nat /\ job[c].after[p] \in Nat
  <1>1. \A m \in Manifest : \A p \in Paths : m[p] \in Nat
    BY NumbersType
  <1>2. edits \in Nat
    BY BoundsType DEF TypeInv, TypeOK
  <1>3. \A p \in Paths : local[p] \in Nat /\ remote[p] \in Nat /\ shared[p] \in Nat
    BY <1>1 DEF TypeInv, TypeOK
  <1>4. \A c \in Commands : seen[c].manifest \in Manifest /\ seen[c].baseline \in Manifest
                            /\ sent[c] \in Manifest
    BY DEF TypeInv, TypeOK, Snapshots
  <1>5. \A t \in Transfers : /\ t.changes \subseteq Paths
                             /\ \A p \in Paths : t.before[p] \in Nat /\ t.after[p] \in Nat
    BY <1>1 DEF Transfers
  <1>6. journal # None => journal \in Transfers
    BY DEF TypeInv, TypeOK
  <1> QED
    BY <1>1, <1>2, <1>3, <1>4, <1>5, <1>6

-----------------------------------------------------------------------------
(***************************************************************************)
(* A command leaves the others as they are.                                *)
(***************************************************************************)
SameCommand(d) ==
    /\ pc'[d] = pc[d] /\ kind'[d] = kind[d] /\ seen'[d] = seen[d] /\ sent'[d] = sent[d]
    /\ job'[d] = job[d] /\ todo'[d] = todo[d]
    /\ lease' = d => lease = d /\ shared' = shared

Acts(c) == Start(c) \/ Step(c) \/ ApplyFails(c) \/ LoseLease(c) \/ Crash(c)

LEMMA OthersSame ==
    ASSUME TypeInv, NEW c \in Commands, Acts(c), NEW d \in Commands \ {c}
    PROVE  SameCommand(d)
  <1>1. /\ None # d
        /\ pc \in [Commands -> {"idle", "recover", "undo", "ready", "leased", "staged",
                                "apply", "committed", "finish"}]
        /\ kind \in [Commands -> {"none", "push", "pull", "check", "failed"}]
        /\ seen \in [Commands -> Snapshots] /\ sent \in [Commands -> Manifest]
        /\ job \in [Commands -> Transfers \cup {None}]
        /\ todo \in [Commands -> SUBSET Paths]
    BY ClientAssumption DEF TypeInv, TypeOK
  <1>2. ASSUME Ends(c)
        PROVE  /\ pc'[d] = pc[d] /\ kind'[d] = kind[d] /\ seen'[d] = seen[d]
               /\ sent'[d] = sent[d] /\ job'[d] = job[d] /\ todo'[d] = todo[d]
               /\ lease' = d => lease = d
               /\ lease = c => lease' # d
    BY <1>1, <1>2 DEF Ends
  <1>3. CASE Start(c) \/ ReadJournal(c)
    BY <1>1, <1>3 DEF Start, ReadJournal, SameCommand
  <1>4. CASE NothingToRecover(c) \/ EndRecovery(c)
    BY <1>1, <1>2, <1>4 DEF NothingToRecover, EndRecovery, AfterRecovery, SameCommand
  <1>5. CASE \/ Preview(c) \/ Busy(c) \/ Conflict(c) \/ CopyFails(c) \/ Rejected(c)
             \/ Refuse(c) \/ JournalGone(c) \/ Crash(c)
    BY <1>2, <1>5 DEF Preview, Busy, Conflict, CopyFails, Rejected, Refuse, JournalGone, Crash,
       SameCommand
  <1>6. CASE Begin(c) \/ ScanAndSend(c)
    BY <1>1, <1>6 DEF Begin, ScanAndSend, SameCommand
  <1>7. CASE FinishPush(c) \/ FinishPull(c)
    BY <1>2, <1>7 DEF FinishPush, FinishPull, Accepted, Holds, SameCommand
  <1>8. CASE PlanPull(c)
    BY <1>1, <1>8 DEF PlanPull, SameCommand
  <1>9. CASE WriteJournal(c) \/ Commit(c) \/ Applied(c)
    BY <1>1, <1>9 DEF WriteJournal, Commit, Applied, SameCommand
  <1>10. CASE ApplyFails(c) \/ LoseLease(c)
    BY <1>1, <1>10 DEF ApplyFails, LoseLease, SameCommand
  <1>11. CASE \E p \in Paths : UndoPath(c, p) \/ ApplyPath(c, p)
    BY <1>1, <1>11 DEF UndoPath, ApplyPath, SameCommand
  <1> QED
    BY <1>3, <1>4, <1>5, <1>6, <1>7, <1>8, <1>9, <1>10, <1>11 DEF Acts, Step, Pull

\* What the Client holds at least, it holds after the step.
Lasting == \A p \in Paths : \A v \in Nat : Lasts(v, p) => Lasts(v, p)'

LEMMA CommandStays ==
    ASSUME TypeInv, NEW d \in Commands, CommandOrdered(d), SameCommand(d), Lasting,
           edits \in Nat, edits' \in Nat, edits <= edits',
           \A p \in Paths : local[p] \in Nat /\ local'[p] \in Nat,
           AtWork(d) => \A p \in Paths : /\ local[p] <= local'[p]
                                         /\ pc[d] = "apply" /\ p \in todo[d] => local'[p] = local[p]
    PROVE  CommandOrdered(d)'
  <1> USE DEF SameCommand
  <1>0. /\ \A p \in Paths : /\ seen[d].manifest[p] \in Nat /\ seen[d].baseline[p] \in Nat
                            /\ sent[d][p] \in Nat
        /\ pc[d] \in {"staged", "apply", "committed", "undo"} =>
              /\ job[d].changes \subseteq Paths
              /\ \A p \in Paths : job[d].before[p] \in Nat /\ job[d].after[p] \in Nat
    BY Numbers DEF TypeInv, Jobs
  <1>1. LeaseOrdered(d)'
    BY DEF CommandOrdered, LeaseOrdered
  <1>2. SeenOrdered(d)'
    <2>1. \A p \in Paths : seen[d].manifest[p] <= 2 * edits + 1
      BY DEF CommandOrdered, SeenOrdered
    <2>2. \A p \in Paths : seen[d].manifest[p] <= 2 * edits' + 1
      BY <1>0, <2>1
    <2> QED
      BY <2>2 DEF CommandOrdered, SeenOrdered
  <1>3. PlanOrdered(d)'
    BY DEF CommandOrdered, PlanOrdered, Rising
  <1>4. StageOrdered(d)'
    BY <1>0 DEF CommandOrdered, StageOrdered, Lasting
  <1>5. WorkOrdered(d)'
    BY <1>0 DEF CommandOrdered, WorkOrdered, AtWork
  <1>6. FinishOrdered(d)'
    BY <1>0 DEF CommandOrdered, FinishOrdered, Lasting
  <1> QED
    BY <1>1, <1>2, <1>3, <1>4, <1>5, <1>6 DEF CommandOrdered

\* What a step of a command has to be shown for.
LEMMA ActsOrdered ==
    ASSUME TypeInv, TypeInv', Ordered, NEW c \in Commands, Acts(c), edits' = edits,
           AtWork(c) \/ local' = local,
           Lasting, Alone', FilesOrdered', CommandOrdered(c)'
    PROVE  Ordered'
  <1>1. ASSUME NEW d \in Commands \ {c}
        PROVE  CommandOrdered(d)'
    <2>1. SameCommand(d)
      BY OthersSame
    <2>2. edits \in Nat /\ edits' \in Nat /\ edits <= edits'
      BY Numbers
    <2>3. \A p \in Paths : local[p] \in Nat /\ local'[p] \in Nat
      BY NumbersType DEF TypeInv, TypeOK
    <2>4. AtWork(d) => local' = local
      BY DEF Ordered, Alone
    <2> QED
      BY <2>1, <2>2, <2>3, <2>4, CommandStays DEF Ordered
  <1> QED
    BY <1>1 DEF Ordered

LEMMA AloneStays ==
    ASSUME TypeInv, Alone, NEW c \in Commands, Acts(c),
           pc'[c] \notin {"apply", "committed", "undo"}, AtWork(c) \/ journal' = journal
    PROVE  Alone'
  <1>1. \A d \in Commands \ {c} : SameCommand(d)
    BY OthersSame
  <1>2. \A d \in Commands : AtWork(d)' => d # c /\ AtWork(d) /\ job'[d] = job[d]
    BY <1>1 DEF SameCommand, AtWork
  <1> QED
    BY <1>2 DEF Alone

LEMMA AloneWorks ==
    ASSUME TypeInv, NEW c \in Commands, Acts(c),
           \A d \in Commands \ {c} : ~AtWork(d), journal' # None, job'[c] = journal'
    PROVE  Alone'
  <1>1. \A d \in Commands \ {c} : SameCommand(d)
    BY OthersSame
  <1>2. \A d \in Commands : AtWork(d)' => d = c
    BY <1>1 DEF SameCommand, AtWork
  <1> QED
    BY <1>2 DEF Alone

LEMMA FilesStay ==
    ASSUME TypeInv, FilesOrdered, UNCHANGED <<local, remote, shared, edits>>,
           journal' \in {journal, None}
    PROVE  Lasting /\ FilesOrdered'
  BY DEF FilesOrdered, Lasting, Lasts, Rising

LEMMA EndsOrdered ==
    ASSUME TypeInv, NEW c \in Commands, Ends(c), edits' = edits
    PROVE  CommandOrdered(c)' /\ pc'[c] = "idle"
  <1>1. /\ pc'[c] = "idle" /\ lease' # c /\ seen'[c] = NoSnapshot
    BY ClientAssumption DEF Ends, TypeInv, TypeOK
  <1>2. \A p \in Paths : Empty[p] = 0
    BY ContentAssumption DEF Empty
  <1>3. edits' \in Nat
    BY Numbers
  <1>4. SeenOrdered(c)'
    BY <1>1, <1>2, <1>3 DEF SeenOrdered, NoSnapshot
  <1> QED
    BY <1>1, <1>4 DEF CommandOrdered, LeaseOrdered, PlanOrdered, StageOrdered, WorkOrdered,
       FinishOrdered

-----------------------------------------------------------------------------
(***************************************************************************)
(* Each action.                                                            *)
(***************************************************************************)
LEMMA OrderEnding ==
    ASSUME TypeInv, TypeInv', Ordered, NEW c \in Commands,
           \/ Preview(c) \/ Busy(c) \/ Conflict(c) \/ CopyFails(c) \/ Rejected(c)
           \/ Refuse(c) \/ JournalGone(c) \/ Crash(c)
    PROVE  Ordered'
  <1>1. Ends(c) /\ UNCHANGED <<client, remote, shared, edits>>
    BY DEF Preview, Busy, Conflict, CopyFails, Rejected, Refuse, JournalGone, Crash
  <1>2. Acts(c)
    BY DEF Acts, Step, Pull
  <1>3. CommandOrdered(c)' /\ pc'[c] = "idle"
    BY <1>1, EndsOrdered
  <1>4. Alone'
    BY <1>1, <1>2, <1>3, AloneStays DEF Ordered
  <1>5. Lasting /\ FilesOrdered'
    BY <1>1, FilesStay DEF Ordered
  <1> QED
    BY <1>1, <1>2, <1>3, <1>4, <1>5, ActsOrdered

LEMMA OrderRecovery ==
    ASSUME TypeInv, TypeInv', Ordered, NEW c \in Commands, ~clash',
           Start(c) \/ NothingToRecover(c) \/ ReadJournal(c) \/ EndRecovery(c)
    PROVE  Ordered'
  <1>1. Acts(c)
    BY DEF Acts, Step
  <1>2. CASE Start(c)
    <2>1. /\ UNCHANGED <<client, agent, seen, edits>> /\ pc'[c] = "recover" /\ lease # c
      BY <1>2 DEF Start, TypeInv, TypeOK, Ordered, CommandOrdered, LeaseOrdered
    <2>2. Alone'
      BY <1>1, <2>1, AloneStays DEF Ordered
    <2>3. CommandOrdered(c)'
      BY <2>1 DEF Ordered, CommandOrdered, LeaseOrdered, SeenOrdered, PlanOrdered,
         StageOrdered, WorkOrdered, FinishOrdered
    <2>4. Lasting /\ FilesOrdered'
      BY <2>1, FilesStay DEF Ordered
    <2> QED
      BY <1>1, <2>1, <2>2, <2>3, <2>4, ActsOrdered
  <1>3. CASE NothingToRecover(c) \/ EndRecovery(c)
    <2>1. /\ UNCHANGED <<local, remote, shared, edits>> /\ journal' \in {journal, None}
          /\ AtWork(c) \/ journal' = journal
          /\ Ends(c) \/ (kind[c] # "failed" /\ AfterRecovery(c))
          /\ pc[c] \in {"recover", "undo"}
      BY <1>3 DEF NothingToRecover, EndRecovery, AtWork, AfterRecovery
    <2>2. Lasting /\ FilesOrdered'
      BY <2>1, FilesStay DEF Ordered
    <2>3. CASE Ends(c)
      <3>1. CommandOrdered(c)' /\ pc'[c] = "idle"
        BY <2>1, <2>3, EndsOrdered
      <3>2. Alone'
        BY <1>1, <2>1, <3>1, AloneStays DEF Ordered
      <3> QED
        BY <1>1, <2>1, <2>2, <3>1, <3>2, ActsOrdered
    <2>4. CASE kind[c] # "failed" /\ AfterRecovery(c)
      <3>1. /\ pc'[c] = "ready" /\ lease' # c /\ seen'[c] = seen[c]
        BY <2>1, <2>4 DEF AfterRecovery, TypeInv, TypeOK, Ordered, CommandOrdered, LeaseOrdered
      <3>2. Alone'
        BY <1>1, <2>1, <3>1, AloneStays DEF Ordered
      <3>3. CommandOrdered(c)'
        BY <2>1, <3>1 DEF Ordered, CommandOrdered, LeaseOrdered, SeenOrdered, PlanOrdered,
           StageOrdered, WorkOrdered, FinishOrdered
      <3> QED
        BY <1>1, <2>1, <2>2, <3>2, <3>3, ActsOrdered
    <2> QED
      BY <2>1, <2>3, <2>4
  <1>4. CASE ReadJournal(c)
    <2>1. /\ UNCHANGED <<client, agent, seen, kind, edits>> /\ pc'[c] = "undo"
          /\ pc[c] = "recover" /\ journal # None /\ job'[c] = journal
      BY <1>4 DEF ReadJournal, TypeInv, TypeOK
    <2>2. \A d \in Commands \ {c} : ~AtWork(d)
      <3>1. clash' = (clash \/ \E d \in Commands \ {c} : pc[d] \in {"apply", "committed", "undo"})
        BY <1>4 DEF ReadJournal
      <3>2. ~ \E d \in Commands \ {c} : pc[d] \in {"apply", "committed", "undo"}
        BY <3>1, Zenon
      <3> QED
        BY <3>2 DEF AtWork
    <2>3. Alone'
      BY <1>1, <2>1, <2>2, AloneWorks
    <2>4. CommandOrdered(c)'
      BY <2>1 DEF Ordered, CommandOrdered, LeaseOrdered, SeenOrdered, PlanOrdered,
         StageOrdered, WorkOrdered, FinishOrdered
    <2>5. Lasting /\ FilesOrdered'
      BY <2>1, FilesStay DEF Ordered
    <2> QED
      BY <1>1, <2>1, <2>3, <2>4, <2>5, ActsOrdered
  <1> QED
    BY <1>2, <1>3, <1>4

LEMMA OrderUndo ==
    ASSUME TypeInv, TypeInv', Ordered, NEW c \in Commands, NEW p \in Paths, UndoPath(c, p)
    PROVE  Ordered'
  <1>1. Acts(c)
    BY DEF Acts, Step
  <1>2. /\ AtWork(c) /\ journal # None /\ job[c] = journal
        /\ p \in journal.changes
        /\ \A q \in Paths : local[q] \in Nat /\ journal.before[q] \in Nat /\ shared[q] \in Nat
        /\ edits \in Nat /\ \A q \in Paths : remote[q] \in Nat
    BY Numbers DEF UndoPath, AtWork, Ordered, Alone, TypeInv, Jobs
  <1>3. /\ UNCHANGED <<journal, agent, pc, kind, seen, job, edits>>
    BY DEF UndoPath
  <1>4. \/ local' = local
        \/ /\ local' = [local EXCEPT ![p] = journal.before[p]]
           /\ local[p] \in {journal.before[p], journal.after[p]}
    BY <1>2 DEF UndoPath
  <1>5. /\ \A q \in Paths \ {p} : local'[q] = local[q]
        /\ local'[p] = local[p] \/ local'[p] = journal.before[p]
        /\ local'[p] <= local[p]
    BY <1>2, <1>4 DEF TypeInv, TypeOK, Manifest, Ordered, FilesOrdered, Rising
  <1>6. Lasting
    BY <1>2, <1>3, <1>5 DEF Lasting, Lasts
  <1>7. FilesOrdered'
    <2>1. \A q \in Paths : Lasts(shared[q], q)'
      BY <1>2, <1>3, <1>6 DEF Lasting, Ordered, FilesOrdered, Lasts
    <2>2. \A q \in Paths : local'[q] \in Nat /\ local'[q] <= local[q]
      BY <1>2, <1>5
    <2>3. \A q \in Paths : local'[q] <= 2 * edits + 1
      BY <1>2, <2>2 DEF Ordered, FilesOrdered
    <2> QED
      BY <1>3, <2>1, <2>3 DEF Ordered, FilesOrdered, Rising
  <1>8. Alone'
    BY <1>1, <1>2, <1>3, AloneWorks DEF Ordered, Alone
  <1>9. CommandOrdered(c)'
    BY <1>3 DEF UndoPath, Ordered, CommandOrdered, LeaseOrdered, SeenOrdered, PlanOrdered,
       StageOrdered, WorkOrdered, FinishOrdered
  <1> QED
    BY <1>1, <1>2, <1>3, <1>6, <1>7, <1>8, <1>9, ActsOrdered

LEMMA OrderBegin ==
    ASSUME TypeInv, TypeInv', Ordered, NEW c \in Commands, Begin(c)
    PROVE  Ordered'
  <1>1. Acts(c)
    BY DEF Acts, Step
  <1>2. /\ UNCHANGED <<client, remote, shared, edits>> /\ pc'[c] = "leased"
        /\ seen'[c].manifest = remote /\ seen'[c].baseline = shared
    BY DEF Begin, TypeInv, TypeOK
  <1>3. Lasting /\ FilesOrdered'
    BY <1>2, FilesStay DEF Ordered
  <1>4. Alone'
    BY <1>1, <1>2, AloneStays DEF Ordered
  <1>5. SeenOrdered(c)'
    BY <1>2 DEF Ordered, FilesOrdered, SeenOrdered
  <1>6. CommandOrdered(c)'
    BY <1>2, <1>5 DEF CommandOrdered, LeaseOrdered, PlanOrdered, StageOrdered, WorkOrdered,
       FinishOrdered
  <1> QED
    BY <1>1, <1>2, <1>3, <1>4, <1>6, ActsOrdered

\* A push reports what it scanned, which is what the Client holds at that moment.
LEMMA OrderScan ==
    ASSUME TypeInv, TypeInv', Ordered, NEW c \in Commands, ScanAndSend(c), ~clash'
    PROVE  Ordered'
  <1>1. Acts(c)
    BY DEF Acts, Step
  <1>2. /\ UNCHANGED <<client, agent, seen, kind, edits>>
        /\ pc[c] = "leased" /\ pc'[c] = "finish" /\ sent'[c] = local
    BY DEF ScanAndSend, Scans, TypeInv, TypeOK
  <1>3. journal = None
    <2>1. clash' = (clash \/ journal # None)
      BY DEF ScanAndSend, Scans
    <2> QED
      BY <2>1, Zenon
  <1>4. Lasting /\ FilesOrdered'
    BY <1>2, FilesStay DEF Ordered
  <1>5. Alone'
    BY <1>1, <1>2, AloneStays DEF Ordered
  <1>6. \A p \in Paths : local[p] \in Nat /\ shared[p] <= local[p]
    BY Numbers DEF Ordered, FilesOrdered, Lasts
  <1>7. FinishOrdered(c)'
    BY <1>2, <1>3, <1>6 DEF FinishOrdered, Lasts
  <1>8. CommandOrdered(c)'
    BY <1>2, <1>7 DEF Ordered, CommandOrdered, LeaseOrdered, SeenOrdered, PlanOrdered,
       StageOrdered, WorkOrdered
  <1> QED
    BY <1>1, <1>2, <1>4, <1>5, <1>8, ActsOrdered

\* What a push changes on the Agent is what both agreed on, and what it records is what
\* the Client holds or held before.
LEMMA PushFacts ==
    ASSUME TypeInv, Ordered, NEW c \in Commands, FinishPush(c), NEW p \in Paths
    PROVE  /\ Lasts(sent[c][p], p) /\ shared[p] <= sent[c][p]
           /\ remote'[p] \in {remote[p], sent[c][p]} /\ remote[p] <= remote'[p]
           /\ shared'[p] \in {shared[p], sent[c][p]} /\ shared'[p] <= remote'[p]
  <1>1. /\ pc[c] = "finish" /\ kind[c] = "push" /\ lease = c
        /\ remote = seen[c].manifest /\ shared = seen[c].baseline
    BY DEF FinishPush, Accepted, Holds, Ordered, CommandOrdered, LeaseOrdered
  <1>2. /\ Lasts(sent[c][p], p) /\ shared[p] <= sent[c][p]
        /\ shared[p] <= remote[p]
        /\ shared[p] \in Nat /\ remote[p] \in Nat /\ sent[c][p] \in Nat
    BY <1>1, Numbers DEF Ordered, CommandOrdered, FinishOrdered, FilesOrdered
  <1>3. remote'[p] = IF sent[c][p] # remote[p] /\ sent[c][p] # shared[p] /\ remote[p] = shared[p]
                     THEN sent[c][p] ELSE remote[p]
    BY <1>1 DEF FinishPush, Merge, Changes
  <1>4. shared'[p] = IF \/ sent[c][p] = remote[p]
                        \/ sent[c][p] # remote[p] /\ sent[c][p] # shared[p] /\ remote[p] = shared[p]
                     THEN sent[c][p] ELSE shared[p]
    BY <1>1 DEF FinishPush, Recorded, PlanBaseline, Merge, Agreeing, Changes
  <1> QED
    BY <1>2, <1>3, <1>4

LEMMA OrderFinish ==
    ASSUME TypeInv, TypeInv', Ordered, NEW c \in Commands, FinishPush(c) \/ FinishPull(c)
    PROVE  Ordered'
  <1>1. Acts(c)
    BY DEF Acts, Step, Pull
  <1>2. /\ Ends(c) /\ UNCHANGED <<client, edits>> /\ pc[c] = "finish"
    BY DEF FinishPush, FinishPull
  <1>3. CommandOrdered(c)' /\ pc'[c] = "idle"
    BY <1>2, EndsOrdered
  <1>4. Alone'
    BY <1>1, <1>2, <1>3, AloneStays DEF Ordered
  <1>5. Lasting
    BY <1>2 DEF Lasting, Lasts
  <1>6. ASSUME NEW p \in Paths
        PROVE  /\ Lasts(shared'[p], p) /\ shared'[p] <= remote'[p]
               /\ remote'[p] <= 2 * edits + 1
    <2>1. /\ Lasts(shared[p], p) /\ shared[p] <= remote[p]
          /\ Lasts(sent[c][p], p) /\ local[p] <= 2 * edits + 1 /\ remote[p] <= 2 * edits + 1
          /\ local[p] \in Nat /\ sent[c][p] \in Nat /\ edits \in Nat /\ remote[p] \in Nat
      BY <1>2, Numbers DEF Ordered, FilesOrdered, CommandOrdered, FinishOrdered
    <2>2. CASE FinishPush(c)
      <3>1. /\ remote'[p] \in {remote[p], sent[c][p]}
            /\ shared'[p] \in {shared[p], sent[c][p]} /\ shared'[p] <= remote'[p]
        BY <2>2, PushFacts
      <3>2. remote'[p] <= 2 * edits + 1
        BY <2>1, <3>1 DEF Lasts
      <3> QED
        BY <2>1, <3>1, <3>2
    <2>3. CASE FinishPull(c)
      <3>1. remote' = remote /\ remote = seen[c].manifest
        BY <2>3 DEF FinishPull, Accepted
      <3>2. shared'[p] = IF remote[p] = sent[c][p] THEN remote[p] ELSE shared[p]
        BY <2>3, <3>1 DEF FinishPull, Agreed, Agreeing, Merge
      <3> QED
        BY <2>1, <3>1, <3>2
    <2> QED
      BY <2>2, <2>3
  <1>7. FilesOrdered'
    <2>1. \A p \in Paths : Lasts(shared[p], p)'
      BY <1>2, <1>6 DEF Lasts
    <2> QED
      BY <1>2, <1>6, <2>1 DEF Ordered, FilesOrdered, Rising
  <1> QED
    BY <1>1, <1>2, <1>3, <1>4, <1>5, <1>7, ActsOrdered

\* What a pull changes on the Client equals what both agreed on, so the Agent's is newer.
LEMMA PullFacts ==
    ASSUME TypeInv, NEW c \in Commands, SeenOrdered(c)
    PROVE  LET t == PullPlan(c)
           IN /\ Rising(t) /\ t.changes \subseteq Paths
              /\ \A p \in t.changes : t.before[p] = local[p] /\ t.after[p] = seen[c].manifest[p]
  <1> DEFINE t == PullPlan(c)
  <1>1. t.changes = Changes(seen[c].baseline, seen[c].manifest, local)
    BY DEF PullPlan
  <1>2. \A p \in t.changes : p \in Paths /\ local[p] = seen[c].baseline[p]
    BY <1>1 DEF Changes
  <1>3. \A p \in t.changes : t.before[p] = local[p] /\ t.after[p] = seen[c].manifest[p]
    BY <1>2 DEF PullPlan, Merge
  <1> QED
    BY <1>2, <1>3 DEF Rising, SeenOrdered

LEMMA OrderPlan ==
    ASSUME TypeInv, TypeInv', Ordered, NEW c \in Commands, PlanPull(c), ~clash'
    PROVE  Ordered'
  <1> DEFINE t == PullPlan(c)
  <1>1. Acts(c)
    BY DEF Acts, Step, Pull
  <1>2. /\ UNCHANGED <<client, agent, seen, kind, edits>>
        /\ pc[c] = "leased" /\ pc'[c] = (IF t.changes = {} THEN "finish" ELSE "staged")
        /\ kind[c] = "pull" /\ job'[c] = t
        /\ sent'[c] = Merge(local, t.changes, seen[c].manifest)
    BY DEF PlanPull, Scans, TypeInv, TypeOK
  <1>3. journal = None
    <2>1. clash' = (clash \/ journal # None)
      BY DEF PlanPull, Scans
    <2> QED
      BY <2>1, Zenon
  <1>4. /\ Rising(t) /\ t.changes \subseteq Paths
        /\ \A p \in t.changes : t.before[p] = local[p] /\ t.after[p] = seen[c].manifest[p]
    BY PullFacts DEF Ordered, CommandOrdered
  <1>5. /\ \A p \in Paths : local[p] \in Nat
        /\ \A p \in t.changes : sent'[c][p] = t.after[p] /\ sent'[c][p] = seen[c].manifest[p]
        /\ \A p \in Paths \ t.changes : sent'[c][p] = local[p]
    BY <1>2, <1>4, Numbers DEF Merge
  <1> HIDE DEF t
  <1>6. Lasting /\ FilesOrdered'
    BY <1>2, FilesStay DEF Ordered
  <1>7. Alone'
    BY <1>1, <1>2, AloneStays DEF Ordered
  <1>8. PlanOrdered(c)'
    BY <1>2, <1>4, <1>5 DEF PlanOrdered, Rising
  <1>9. StageOrdered(c)' /\ FinishOrdered(c)'
    BY <1>2, <1>3, <1>4, <1>5 DEF StageOrdered, FinishOrdered, Lasts
  <1>10. CommandOrdered(c)'
    BY <1>2, <1>8, <1>9 DEF Ordered, CommandOrdered, LeaseOrdered, SeenOrdered, WorkOrdered
  <1> QED
    BY <1>1, <1>2, <1>6, <1>7, <1>10, ActsOrdered

LEMMA OrderJournal ==
    ASSUME TypeInv, TypeInv', Ordered, NEW c \in Commands, WriteJournal(c)
    PROVE  Ordered'
  <1>1. Acts(c)
    BY DEF Acts, Step, Pull
  <1>2. /\ UNCHANGED <<local, agent, seen, sent, kind, job, edits>>
        /\ pc[c] = "staged" /\ pc'[c] = "apply" /\ todo'[c] = job[c].changes
        /\ journal = None /\ journal' = job[c] /\ job[c] \in Transfers
        /\ \A p \in job[c].changes : local[p] = job[c].before[p]
    BY DEF WriteJournal, Verified, TypeInv, TypeOK, Jobs
  <1>3. \A d \in Commands : ~AtWork(d)
    BY <1>2 DEF Ordered, Alone
  <1>4. journal' # None
    BY <1>2, ClientAssumption
  <1>5. Alone'
    BY <1>1, <1>2, <1>3, <1>4, AloneWorks
  <1>6. Lasting
    BY <1>2 DEF Lasting, Lasts
  <1>7. FilesOrdered'
    <2>1. \A p \in Paths : Lasts(shared[p], p)'
      BY <1>2 DEF Ordered, FilesOrdered, Lasts
    <2>2. Rising(job[c])
      BY <1>2 DEF Ordered, CommandOrdered, PlanOrdered
    <2> QED
      BY <1>2, <2>1, <2>2 DEF Ordered, FilesOrdered, Rising
  <1>8. CommandOrdered(c)'
    <2>1. WorkOrdered(c)'
      BY <1>2 DEF Ordered, CommandOrdered, StageOrdered, WorkOrdered, Lasts
    <2> QED
      BY <1>2, <2>1 DEF Ordered, CommandOrdered, LeaseOrdered, SeenOrdered, PlanOrdered,
         StageOrdered, FinishOrdered, Rising
  <1> QED
    BY <1>1, <1>2, <1>5, <1>6, <1>7, <1>8, ActsOrdered

LEMMA ApplyFacts ==
    ASSUME TypeInv, Ordered, NEW c \in Commands, NEW p \in Paths, ApplyPath(c, p)
    PROVE  /\ \A q \in Paths \ {p} : local'[q] = local[q]
           /\ local[p] <= local'[p] /\ local'[p] = sent[c][p]
  <1>1. /\ pc[c] = "apply" /\ p \in todo[c] /\ p \in job[c].changes
        /\ job[c] = journal
    BY DEF ApplyPath, AtWork, Ordered, Alone, TypeInv, Jobs
  <1>2. /\ local[p] = job[c].before[p] /\ job[c].after[p] = sent[c][p]
        /\ job[c].before[p] <= job[c].after[p]
    BY <1>1 DEF Ordered, CommandOrdered, WorkOrdered, PlanOrdered, Rising
  <1>3. /\ \A q \in Paths \ {p} : local'[q] = local[q]
        /\ local'[p] = job[c].after[p]
    BY DEF ApplyPath, TypeInv, TypeOK, Manifest
  <1> QED
    BY <1>1, <1>2, <1>3

LEMMA OrderApply ==
    ASSUME TypeInv, TypeInv', Ordered, NEW c \in Commands, NEW p \in Paths, ApplyPath(c, p)
    PROVE  Ordered'
  <1>1. Acts(c)
    BY DEF Acts, Step, Pull
  <1>2. /\ UNCHANGED <<journal, agent, pc, seen, sent, kind, job, edits>>
        /\ pc[c] = "apply" /\ todo'[c] = todo[c] \ {p} /\ todo[c] \subseteq Paths
        /\ AtWork(c)
    BY DEF ApplyPath, TypeInv, TypeOK, AtWork
  <1>3. /\ \A q \in Paths \ {p} : local'[q] = local[q]
        /\ local[p] <= local'[p] /\ local'[p] = sent[c][p]
    BY ApplyFacts
  <1>4. \A q \in Paths : local[q] \in Nat /\ local'[q] \in Nat /\ local[q] <= local'[q]
    <2>1. \A q \in Paths : local[q] \in Nat /\ local'[q] \in Nat
      BY NumbersType DEF TypeInv, TypeOK
    <2> QED
      BY <1>3, <2>1
  <1>5. Lasting
    BY <1>2, <1>4 DEF Lasting, Lasts
  <1>6. FilesOrdered'
    <2>1. \A q \in Paths : Lasts(shared[q], q)'
      BY <1>2, <1>5, Numbers DEF Lasting, Ordered, FilesOrdered, Lasts
    <2>2. local'[p] <= 2 * edits + 1
      <3>1. p \in job[c].changes
        BY DEF ApplyPath, TypeInv, Jobs
      <3> QED
        BY <1>2, <1>3, <3>1 DEF Ordered, CommandOrdered, PlanOrdered, SeenOrdered
    <2> QED
      BY <1>2, <1>3, <2>1, <2>2 DEF Ordered, FilesOrdered, Rising
  <1>7. Alone'
    BY <1>1, <1>2, AloneWorks DEF Ordered, Alone
  <1>8. CommandOrdered(c)'
    <2>1. WorkOrdered(c)'
      BY <1>2, <1>3, Numbers DEF Ordered, CommandOrdered, WorkOrdered
    <2> QED
      BY <1>2, <2>1 DEF Ordered, CommandOrdered, LeaseOrdered, SeenOrdered, PlanOrdered,
         StageOrdered, FinishOrdered, Rising
  <1> QED
    BY <1>1, <1>2, <1>5, <1>6, <1>7, <1>8, ActsOrdered

LEMMA OrderDone ==
    ASSUME TypeInv, TypeInv', Ordered, NEW c \in Commands, Commit(c) \/ Applied(c)
    PROVE  Ordered'
  <1>1. Acts(c)
    BY DEF Acts, Step, Pull
  <1>2. UNCHANGED <<local, agent, seen, sent, kind, job, edits>> /\ AtWork(c)
    BY DEF Commit, Applied, AtWork
  <1>3. journal' \in {journal, None}
    BY DEF Commit, Applied
  <1>4. Lasting /\ FilesOrdered'
    BY <1>2, <1>3, FilesStay DEF Ordered
  <1>5. CASE Commit(c)
    <2>1. pc[c] = "apply" /\ pc'[c] = "committed" /\ todo[c] = {} /\ journal' = journal
      BY <1>5 DEF Commit, TypeInv, TypeOK
    <2>2. Alone'
      BY <1>1, <1>2, <2>1, AloneWorks DEF Ordered, Alone
    <2>3. WorkOrdered(c)'
      BY <1>2, <2>1 DEF Ordered, CommandOrdered, WorkOrdered
    <2>4. CommandOrdered(c)'
      BY <1>2, <2>1, <2>3 DEF Ordered, CommandOrdered, LeaseOrdered, SeenOrdered, PlanOrdered,
         StageOrdered, FinishOrdered
    <2> QED
      BY <1>1, <1>2, <1>4, <2>2, <2>4, ActsOrdered
  <1>6. CASE Applied(c)
    <2>1. pc[c] = "committed" /\ pc'[c] = "finish" /\ journal' = None
      BY <1>6 DEF Applied, TypeInv, TypeOK
    <2>2. Alone'
      BY <1>1, <1>2, <2>1, AloneStays DEF Ordered
    <2>3. FinishOrdered(c)'
      <3>1. \A p \in Paths : Lasts(sent[c][p], p)'
        BY <1>2, <2>1 DEF Ordered, CommandOrdered, WorkOrdered, Lasts
      <3>2. kind[c] = "pull"
        BY <2>1 DEF Ordered, CommandOrdered, PlanOrdered
      <3> QED
        BY <1>2, <2>1, <3>1, <3>2 DEF FinishOrdered, Lasts
    <2>4. CommandOrdered(c)'
      BY <1>2, <2>1, <2>3 DEF Ordered, CommandOrdered, LeaseOrdered, SeenOrdered, PlanOrdered,
         StageOrdered, WorkOrdered
    <2> QED
      BY <1>1, <1>2, <1>4, <2>2, <2>4, ActsOrdered
  <1> QED
    BY <1>5, <1>6

LEMMA OrderFailures ==
    ASSUME TypeInv, TypeInv', Ordered, NEW c \in Commands, ApplyFails(c) \/ LoseLease(c)
    PROVE  Ordered'
  <1>1. Acts(c)
    BY DEF Acts
  <1>2. UNCHANGED <<client, remote, shared, seen, sent, job, edits>>
    BY DEF ApplyFails, LoseLease
  <1>3. Lasting /\ FilesOrdered'
    BY <1>2, FilesStay DEF Ordered
  <1>4. CASE ApplyFails(c)
    <2>1. pc'[c] = "recover" /\ kind'[c] = "failed"
      BY <1>4 DEF ApplyFails, TypeInv, TypeOK
    <2>2. Alone'
      BY <1>1, <1>2, <2>1, AloneStays DEF Ordered
    <2>3. lease' = c => shared = seen[c].baseline
      BY <1>4 DEF ApplyFails, Ordered, CommandOrdered, LeaseOrdered
    <2>4. CommandOrdered(c)'
      BY <1>2, <2>1, <2>3 DEF Ordered, CommandOrdered, LeaseOrdered, SeenOrdered, PlanOrdered,
         StageOrdered, WorkOrdered, FinishOrdered
    <2> QED
      BY <1>1, <1>2, <1>3, <2>2, <2>4, ActsOrdered
  <1>5. CASE LoseLease(c)
    <2>1. UNCHANGED <<command, journal, local>> /\ lease' # c
      BY <1>5, ClientAssumption DEF LoseLease
    <2>2. Alone'
      BY <2>1 DEF Ordered, Alone, AtWork
    <2>3. CommandOrdered(c)'
      BY <1>2, <2>1 DEF Ordered, CommandOrdered, LeaseOrdered, SeenOrdered, PlanOrdered,
         StageOrdered, WorkOrdered, FinishOrdered, Rising, Lasts
    <2> QED
      BY <1>1, <1>2, <1>3, <2>2, <2>3, ActsOrdered
  <1> QED
    BY <1>4, <1>5

\* An edit is newer than everything before it.
LEMMA EditFacts ==
    ASSUME TypeInv, ~Reverts, Ordered, NEW p \in Paths, LocalEdit(p) \/ RemoteEdit(p)
    PROVE  /\ edits' = edits + 1
           /\ \A q \in Paths : local[q] <= local'[q] /\ remote[q] <= remote'[q]
           /\ \A q \in Paths : local'[q] <= 2 * edits' + 1 /\ remote'[q] <= 2 * edits' + 1
           /\ \A c \in Commands : pc[c] = "apply" => \A q \in todo[c] : local'[q] = local[q]
  <1>1. /\ edits' = edits + 1
        /\ edits \in Nat /\ \A q \in Paths : /\ local[q] \in Nat /\ remote[q] \in Nat
                                             /\ local[q] <= 2 * edits + 1
                                             /\ remote[q] <= 2 * edits + 1
        /\ \A c \in Commands : todo[c] \subseteq Paths
    BY Numbers DEF LocalEdit, RemoteEdit, Ordered, FilesOrdered, TypeInv, TypeOK
  <1>2. CASE LocalEdit(p)
    <2>1. /\ local' = [local EXCEPT ![p] = 2 * edits + 2] /\ remote' = remote
          /\ \A c \in Commands : pc[c] = "apply" => p \notin todo[c]
      BY <1>2 DEF LocalEdit, Writes
    <2>2. \A q \in Paths : local'[q] = IF q = p THEN 2 * edits + 2 ELSE local[q]
      BY <2>1 DEF TypeInv, TypeOK, Manifest
    <2> QED
      BY <1>1, <2>1, <2>2
  <1>3. CASE RemoteEdit(p)
    <2>1. remote' = [remote EXCEPT ![p] = 2 * edits + 3] /\ local' = local
      BY <1>3 DEF RemoteEdit, Writes
    <2>2. \A q \in Paths : remote'[q] = IF q = p THEN 2 * edits + 3 ELSE remote[q]
      BY <2>1 DEF TypeInv, TypeOK, Manifest
    <2> QED
      BY <1>1, <2>1, <2>2
  <1> QED
    BY <1>2, <1>3

LEMMA OrderEdits ==
    ASSUME TypeInv, TypeInv', ~Reverts, Ordered, NEW p \in Paths, LocalEdit(p) \/ RemoteEdit(p)
    PROVE  Ordered'
  <1>1. /\ edits' = edits + 1 /\ edits \in Nat
        /\ \A q \in Paths : local[q] <= local'[q] /\ remote[q] <= remote'[q]
        /\ \A q \in Paths : local'[q] <= 2 * edits' + 1 /\ remote'[q] <= 2 * edits' + 1
        /\ \A c \in Commands : pc[c] = "apply" => \A q \in todo[c] : local'[q] = local[q]
    BY EditFacts, Numbers
  <1>2. UNCHANGED <<journal, shared, lease, command>>
    BY DEF LocalEdit, RemoteEdit
  <1>3. /\ \A q \in Paths : local[q] \in Nat /\ local'[q] \in Nat /\ shared[q] \in Nat
        /\ \A q \in Paths : remote[q] \in Nat /\ remote'[q] \in Nat
    BY NumbersType DEF TypeInv, TypeOK
  <1>4. Lasting
    BY <1>1, <1>2, <1>3 DEF Lasting, Lasts
  <1>5. FilesOrdered'
    <2>1. \A q \in Paths : Lasts(shared[q], q)'
      BY <1>2, <1>3, <1>4 DEF Lasting, Ordered, FilesOrdered, Lasts
    <2>2. \A q \in Paths : shared[q] <= remote'[q]
      BY <1>1, <1>3 DEF Ordered, FilesOrdered
    <2> QED
      BY <1>1, <1>2, <2>1, <2>2 DEF Ordered, FilesOrdered, Rising
  <1>6. Alone'
    BY <1>2 DEF Ordered, Alone, AtWork
  <1>7. ASSUME NEW d \in Commands
        PROVE  CommandOrdered(d)'
    <2>1. SameCommand(d)
      BY <1>2 DEF SameCommand
    <2>2. edits \in Nat /\ edits' \in Nat /\ edits <= edits'
      BY <1>1
    <2> QED
      BY <1>1, <1>3, <1>4, <2>1, <2>2, CommandStays DEF Ordered
  <1> QED
    BY <1>5, <1>6, <1>7 DEF Ordered

LEMMA OrderInit == Init => Ordered
  <1> SUFFICES ASSUME Init PROVE Ordered
    OBVIOUS
  <1>1. /\ journal = None /\ lease = None /\ edits = 0
        /\ \A p \in Paths : local[p] = 1 /\ remote[p] = 0 /\ shared[p] = 0
        /\ \A c \in Commands : /\ pc[c] = "idle" /\ c # None
                               /\ \A p \in Paths : /\ seen[c].manifest[p] = 0
                                                   /\ seen[c].baseline[p] = 0
    BY ContentAssumption, ClientAssumption DEF Init, Empty, NoSnapshot
  <1>2. Alone /\ FilesOrdered
    BY <1>1 DEF Alone, AtWork, FilesOrdered, Lasts
  <1>3. \A c \in Commands : CommandOrdered(c)
    BY <1>1 DEF CommandOrdered, LeaseOrdered, SeenOrdered, PlanOrdered, StageOrdered,
       WorkOrdered, FinishOrdered
  <1> QED
    BY <1>2, <1>3 DEF Ordered

LEMMA OrderNext ==
    ASSUME ~Reverts, OrderInv, [Next]_vars
    PROVE  OrderInv'
  <1>1. TypeInv /\ TypeInv'
    BY TypeNext DEF OrderInv
  <1>2. CASE clash'
    BY <1>1, <1>2 DEF OrderInv
  <1>3. CASE ~clash'
    <2>1. Ordered
      <3>1. ~clash
        BY <1>3, ClashStays, Zenon
      <3> QED
        BY <3>1, Zenon DEF OrderInv
    <2>2. ASSUME UNCHANGED vars
          PROVE  Ordered'
      <3>1. Alone' /\ FilesOrdered'
        BY <2>1, <2>2 DEF vars, Ordered, Alone, AtWork, FilesOrdered, Lasts, Rising
      <3>2. ASSUME NEW d \in Commands
            PROVE  CommandOrdered(d)'
        <4>1. CommandOrdered(d)
          BY <2>1 DEF Ordered
        <4> QED
          BY <2>2, <4>1 DEF vars, CommandOrdered, LeaseOrdered, SeenOrdered, PlanOrdered,
             StageOrdered, WorkOrdered, FinishOrdered, Lasts, Rising
      <3> QED
        BY <3>1, <3>2 DEF Ordered
    <2>3. Ordered'
      BY <1>1, <1>3, <2>1, <2>2, OrderEnding, OrderRecovery, OrderUndo, OrderBegin, OrderScan,
         OrderFinish, OrderPlan, OrderJournal, OrderApply, OrderDone, OrderFailures, OrderEdits
         DEF Next, Step, Pull
    <2> QED
      BY <1>1, <2>3 DEF OrderInv
  <1> QED
    BY <1>2, <1>3

\* What the machines are said to have agreed on is never newer than what either holds, so a
\* path that equals it may be replaced by the other side's (plan in sync.rs, finish in
\* projects.rs).
THEOREM AgreedAlwaysBehind ==
    ASSUME ~Reverts
    PROVE  Spec => []AgreedIsBehind
  <1>1. Init => OrderInv
    BY TypeInit, OrderInit DEF OrderInv
  <1>2. OrderInv => AgreedIsBehind
    BY DEF OrderInv, AgreedIsBehind, Ordered, FilesOrdered, Lasts
  <1> QED
    BY <1>1, <1>2, OrderNext, PTL DEF Spec

LEMMA OrderStep ==
    ASSUME ~Reverts, OrderInv, [Next]_vars, ~clash, NEW p \in Paths
    PROVE  /\ remote'[p] >= remote[p]
           /\ local'[p] < local[p] => \E c \in Commands : pc[c] = "undo"
  <1>1. TypeInv /\ Ordered /\ local[p] \in Nat /\ remote[p] \in Nat
    BY Numbers DEF OrderInv
  <1>2. ASSUME UNCHANGED <<local, remote>>
        PROVE  remote'[p] >= remote[p] /\ ~(local'[p] < local[p])
    BY <1>1, <1>2
  <1>3. ASSUME NEW c \in Commands, FinishPush(c)
        PROVE  remote'[p] >= remote[p] /\ ~(local'[p] < local[p])
    <2>1. local' = local /\ remote'[p] \in Nat /\ remote[p] <= remote'[p]
      BY <1>1, <1>3, PushFacts, Numbers DEF FinishPush
    <2> QED
      BY <1>1, <2>1
  <1>4. ASSUME NEW c \in Commands, NEW q \in Paths, ApplyPath(c, q)
        PROVE  remote'[p] >= remote[p] /\ ~(local'[p] < local[p])
    <2>1. /\ remote' = remote /\ local'[p] \in Nat
          /\ p # q => local'[p] = local[p]
          /\ local[q] <= local'[q]
      BY <1>1, <1>4, ApplyFacts, TypeApply, NumbersType DEF ApplyPath, TypeInv, TypeOK
    <2> QED
      BY <1>1, <2>1
  <1>5. ASSUME NEW c \in Commands, NEW q \in Paths, UndoPath(c, q)
        PROVE  remote' = remote /\ pc[c] = "undo"
    BY <1>5 DEF UndoPath
  <1>6. ASSUME NEW q \in Paths, LocalEdit(q) \/ RemoteEdit(q)
        PROVE  remote'[p] >= remote[p] /\ ~(local'[p] < local[p])
    <2>1. local[p] <= local'[p] /\ remote[p] <= remote'[p]
      BY <1>1, <1>6, EditFacts
    <2>2. local'[p] \in Nat /\ remote'[p] \in Nat
      BY <1>1, <1>6, TypeEdits, NumbersType DEF TypeInv, TypeOK
    <2> QED
      BY <1>1, <2>1, <2>2
  <1>7. ASSUME NEW c \in Commands,
               \/ Start(c) \/ NothingToRecover(c) \/ ReadJournal(c) \/ EndRecovery(c)
               \/ Preview(c) \/ Begin(c) \/ Busy(c) \/ Conflict(c) \/ CopyFails(c)
               \/ ScanAndSend(c) \/ Rejected(c) \/ PlanPull(c) \/ WriteJournal(c) \/ Refuse(c)
               \/ Commit(c) \/ Applied(c) \/ JournalGone(c) \/ FinishPull(c)
               \/ ApplyFails(c) \/ LoseLease(c) \/ Crash(c)
        PROVE  UNCHANGED <<local, remote>>
    BY <1>7 DEF Start, NothingToRecover, ReadJournal, EndRecovery, Preview, Begin, Busy,
       Conflict, CopyFails, ScanAndSend, Rejected, PlanPull, WriteJournal, Refuse, Commit,
       Applied, JournalGone, FinishPull, ApplyFails, LoseLease, Crash
  <1>8. UNCHANGED vars => UNCHANGED <<local, remote>>
    BY DEF vars
  <1> QED
    BY <1>1, <1>2, <1>3, <1>4, <1>5, <1>6, <1>7, <1>8 DEF Next, Step, Pull

\* No push puts an older file in the place of a newer one on the Agent, and no pull does on
\* the Client: only undoing a pull moves a file back (push and pull in transfer.rs,
\* recover in sync.rs).
THEOREM NeverGoesBackwards ==
    ASSUME ~Reverts
    PROVE  Spec => NeverBackwards
  <1>1. Init => OrderInv
    BY TypeInit, OrderInit DEF OrderInv
  <1>2. OrderInv /\ [Next]_vars =>
            [clash \/ \A p \in Paths :
                /\ remote'[p] >= remote[p]
                /\ local'[p] < local[p] => \E c \in Commands : pc[c] = "undo"]_vars
    BY OrderStep
  <1> QED
    BY <1>1, <1>2, OrderNext, PTL DEF Spec, NeverBackwards
=============================================================================
