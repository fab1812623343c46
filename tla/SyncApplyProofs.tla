-------------------------- MODULE SyncApplyProofs ---------------------------
(***************************************************************************)
(* Proofs about ThreeWay and SyncApply, for any names, contents and        *)
(* bounds: what planning guarantees; that nothing broken is installed,     *)
(* backups hold, partial files are swept and recovery only gives up what   *)
(* was disturbed, whoever edits and whenever; and, as long as no edit      *)
(* falls between two steps of apply or recover, that transfers are atomic. *)
(***************************************************************************)
EXTENDS SyncApply, TLAPS

-----------------------------------------------------------------------------
\* Merging manifests gives a manifest (sync.rs merge, record).
LEMMA MergeType ==
    ASSUME NEW r \in Manifest, NEW s \in Manifest, NEW names
    PROVE  Merge(r, names, s) \in Manifest
  BY DEF Merge, Manifest

LEMMA EmptyType == Empty \in Manifest
  BY DEF Empty, Manifest, Value

\* Every path falls in exactly one class of a plan, so no path is both changed and kept
\* and a plan picks a side for no path that both machines changed (sync.rs plan).
THEOREM PlanIsPartition ==
    ASSUME NEW b \in Manifest, NEW s \in Manifest, NEW r \in Manifest, NEW p \in Paths
    PROVE  LET A == Agreeing(s, r)
               C == Changes(b, s, r)
               K == Kept(b, s, r)
               X == Conflicts(b, s, r)
           IN /\ p \in A \cup C \cup K \cup X
              /\ ~(p \in A /\ p \in C \cup K \cup X)
              /\ ~(p \in C /\ p \in K \cup X)
              /\ ~(p \in K /\ p \in X)
  BY DEF Agreeing, Changes, Kept, Conflicts

\* A plan with changes records another baseline than the one it was made against. The
\* recovery of sync.rs depends on it: it takes a journal whose baseline is the one on
\* disk for a transfer that completed.
THEOREM PlanAdvances ==
    ASSUME NEW b \in Manifest, NEW s \in Manifest, NEW r \in Manifest,
           Changes(b, s, r) # {}
    PROVE  PlanBaseline(b, s, r) # b
  <1>1. PICK p \in Paths : p \in Changes(b, s, r)
    BY DEF Changes
  <1>2. PlanBaseline(b, s, r)[p] = s[p]
    BY <1>1 DEF PlanBaseline, Merge
  <1>3. s[p] # b[p]
    BY <1>1 DEF Changes
  <1> QED
    BY <1>2, <1>3

\* What the receiver records for a push is what the sender would record from comparing
\* its own files with the projected result, so the two machines' baselines cannot drift
\* apart (sync.rs plan, agreed and merge; the comment at its lines 71 and 72).
THEOREM BothSidesRecordTheSame ==
    ASSUME NEW b \in Manifest, NEW s \in Manifest, NEW r \in Manifest
    PROVE  PlanBaseline(b, s, r) = Agreed(b, s, Merge(r, Changes(b, s, r), s))
  <1> DEFINE m == Merge(r, Changes(b, s, r), s)
  <1>1. ASSUME NEW p \in Paths
        PROVE  PlanBaseline(b, s, r)[p] = Agreed(b, s, m)[p]
    BY DEF PlanBaseline, Agreed, Merge, Agreeing, Changes, Manifest
  <1> QED
    BY <1>1 DEF PlanBaseline, Agreed, Merge

\* A plan without conflicts and without edits to keep makes the receiver equal to the
\* sender (sync.rs plan and merge).
THEOREM CleanPlanConverges ==
    ASSUME NEW b \in Manifest, NEW s \in Manifest, NEW r \in Manifest,
           Conflicts(b, s, r) = {}, Kept(b, s, r) = {}
    PROVE  /\ Merge(r, Changes(b, s, r), s) = s
           /\ PlanBaseline(b, s, r) = s
  <1>1. ASSUME NEW p \in Paths
        PROVE  p \in Agreeing(s, r) \cup Changes(b, s, r)
    BY PlanIsPartition
  <1>2. ASSUME NEW p \in Paths
        PROVE  Merge(r, Changes(b, s, r), s)[p] = s[p]
    BY <1>1 DEF Merge, Agreeing
  <1>3. ASSUME NEW p \in Paths
        PROVE  PlanBaseline(b, s, r)[p] = s[p]
    BY <1>1 DEF PlanBaseline, Merge
  <1> QED
    BY <1>2, <1>3 DEF Merge, PlanBaseline, Manifest

-----------------------------------------------------------------------------
USE DEF files, state, process, bounds

(***************************************************************************)
(* The part of the invariant that holds whoever edits the project, and at  *)
(* any moment.                                                             *)
(***************************************************************************)
Safe == TypeOK /\ NeverBroken /\ StepInv

LEMMA FilesType ==
    ASSUME NEW t \in [Paths -> Value \cup {Dir, Broken}],
           \A p \in Paths : t[p] # Broken
    PROVE  Files(t) \in Manifest
  BY DEF Files, Manifest, Value

LEMMA OnlyType ==
    ASSUME NEW m \in Manifest, NEW names
    PROVE  Only(names, m) \in Manifest
  BY MergeType, EmptyType DEF Only

LEMMA BaselineType == TypeOK => Baseline \in Manifest
  BY EmptyType DEF TypeOK, Baseline

LEMMA PlannedType ==
    ASSUME NEW b \in Manifest, NEW s \in Manifest, NEW r \in Manifest
    PROVE  Planned(b, s, r) \in Transfers
  <1>1. Changes(b, s, r) \in SUBSET Paths
    BY DEF Changes
  <1>2. PlanBaseline(b, s, r) \in Manifest
    BY MergeType DEF PlanBaseline
  <1> QED
    BY <1>1, <1>2, OnlyType DEF Planned, Transfers

LEMMA SafeInit == Init => Safe
  <1> SUFFICES ASSUME Init PROVE Safe
    OBVIOUS
  <1>1. Empty \in [Paths -> Value] /\ \A p \in Paths : Empty[p] # Broken
    BY KindsAssumption DEF Empty, Value
  <1>2. TypeOK
    BY <1>1, KindsAssumption, EmptyType DEF Init, TypeOK
  <1> QED
    BY <1>1, <1>2 DEF Init, Safe, NeverBroken, StepInv

LEMMA SafePush ==
    ASSUME Safe, Push
    PROVE  Safe'
  <1>1. PICK s \in Manifest : PlanFrom(Baseline, s)
    BY DEF Push
  <1>2. Files(tree) \in Manifest
    BY FilesType DEF Safe, TypeOK, NeverBroken
  <1>3. Planned(Baseline, s, Files(tree)) \in Transfers
    BY <1>2, BaselineType, PlannedType DEF Safe
  <1> QED
    BY <1>1, <1>2, <1>3, KindsAssumption DEF PlanFrom, Safe, TypeOK, NeverBroken, StepInv, Target

(***************************************************************************)
(* Safe, action by action.                                                 *)
(***************************************************************************)
LEMMA SafeRecordBaseline ==
    ASSUME Safe, RecordBaseline
    PROVE  Safe'
  BY KindsAssumption, EmptyType
     DEF RecordBaseline, Transfers, Safe, TypeOK, NeverBroken, StepInv, Target

LEMMA SafeRefuse ==
    ASSUME Safe, Refuse
    PROVE  Safe'
  BY KindsAssumption, EmptyType
     DEF Refuse, Safe, TypeOK, NeverBroken, StepInv, Target

LEMMA SafeWriteJournal ==
    ASSUME Safe, WriteJournal
    PROVE  Safe'
  BY KindsAssumption, EmptyType
     DEF WriteJournal, Transfers, Manifest, Safe, TypeOK, NeverBroken, StepInv, Target

LEMMA SafeCommit ==
    ASSUME Safe, Commit
    PROVE  Safe'
  BY KindsAssumption, EmptyType
     DEF Commit, Transfers, Safe, TypeOK, NeverBroken, StepInv, Target

LEMMA SafeFinished ==
    ASSUME Safe, Finished
    PROVE  Safe'
  BY KindsAssumption
     DEF Finished, Safe, TypeOK, NeverBroken, StepInv, Target

LEMMA SafeApplyBlocked ==
    ASSUME Safe, ApplyBlocked
    PROVE  Safe'
  BY KindsAssumption, EmptyType
     DEF ApplyBlocked, Recover, Transfers, Safe, TypeOK, NeverBroken, StepInv, Target

LEMMA SafeApplyFails ==
    ASSUME Safe, ApplyFails
    PROVE  Safe'
  BY KindsAssumption, EmptyType
     DEF ApplyFails, Recover, Transfers, Safe, TypeOK, NeverBroken, StepInv, Target

LEMMA SafeCommitFailsLate ==
    ASSUME Safe, CommitFailsLate
    PROVE  Safe'
  BY KindsAssumption, EmptyType
     DEF CommitFailsLate, Recover, Transfers, Safe, TypeOK, NeverBroken, StepInv, Target

LEMMA SafeStartRecovery ==
    ASSUME Safe, StartRecovery
    PROVE  Safe'
  BY KindsAssumption, EmptyType
     DEF StartRecovery, Recover, Transfers, Safe, TypeOK, NeverBroken, StepInv, Target

LEMMA SafeStartSweep ==
    ASSUME Safe, StartSweep
    PROVE  Safe'
  BY KindsAssumption
     DEF StartSweep, Safe, TypeOK, NeverBroken, StepInv, Target

LEMMA SafeSweep ==
    ASSUME Safe, Sweep
    PROVE  Safe'
  BY KindsAssumption
     DEF Sweep, Merge, Empty, Value, Safe, TypeOK, NeverBroken, StepInv, Target

LEMMA SafeCrash ==
    ASSUME Safe, Crash
    PROVE  Safe'
  BY KindsAssumption, EmptyType
     DEF Crash, Safe, TypeOK, NeverBroken, StepInv, Target

LEMMA SafeSpoilStage ==
    ASSUME Safe, NEW p \in Paths, SpoilStage(p)
    PROVE  Safe'
  BY KindsAssumption
     DEF SpoilStage, Safe, TypeOK, NeverBroken, StepInv, Target

LEMMA SafeBackUp ==
    ASSUME Safe, NEW p \in Paths, BackUp(p)
    PROVE  Safe'
  BY KindsAssumption
     DEF BackUp, CanBackUp, NextStep, Value, Safe, TypeOK, NeverBroken, StepInv, Target

LEMMA SafeRemove ==
    ASSUME Safe, NEW p \in Paths, Remove(p)
    PROVE  Safe'
  BY KindsAssumption
     DEF Remove, Value, Safe, TypeOK, NeverBroken, StepInv, Target

LEMMA SafePrune ==
    ASSUME Safe, NEW p \in Paths, Prune(p)
    PROVE  Safe'
  BY KindsAssumption, NamesAssumption
     DEF Prune, Emptied, StepDone, Value, Safe, TypeOK, NeverBroken, StepInv, Target

LEMMA SafeCopyIn ==
    ASSUME Safe, NEW p \in Paths, CopyIn(p)
    PROVE  Safe'
  BY KindsAssumption, NamesAssumption
     DEF CopyIn, WithParents, Source, CopyVerified, Transfers, Manifest, Value, Safe, TypeOK, NeverBroken, StepInv, Target

LEMMA SafeRename ==
    ASSUME Safe, NEW p \in Paths, Rename(p)
    PROVE  Safe'
  BY KindsAssumption
     DEF Rename, CanRename, StepDone, Transfers, Manifest, Value, Safe, TypeOK, NeverBroken, StepInv, Target

LEMMA SafeCopySpoiled ==
    ASSUME Safe, NEW p \in Paths, CopySpoiled(p)
    PROVE  Safe'
  BY KindsAssumption, EmptyType, NamesAssumption
     DEF CopySpoiled, WithParents, Source, Recover, Transfers, Manifest, Value, Safe, TypeOK, NeverBroken, StepInv, Target

LEMMA SafeAlreadyUndone ==
    ASSUME Safe, NEW p \in Paths, AlreadyUndone(p)
    PROVE  Safe'
  BY KindsAssumption
     DEF AlreadyUndone, StepDone, Safe, TypeOK, NeverBroken, StepInv, Target

LEMMA SafeStartUndo ==
    ASSUME Safe, NEW p \in Paths, StartUndo(p)
    PROVE  Safe'
  BY KindsAssumption
     DEF StartUndo, NextStep, Undoable, Safe, TypeOK, NeverBroken, StepInv, Target

LEMMA SafeLeaveStuck ==
    ASSUME Safe, NEW p \in Paths, LeaveStuck(p)
    PROVE  Safe'
  BY KindsAssumption
     DEF LeaveStuck, StepDone, Safe, TypeOK, NeverBroken, StepInv, Target

LEMMA SafeUndoFails ==
    ASSUME Safe, NEW p \in Paths, UndoFails(p)
    PROVE  Safe'
  BY KindsAssumption
     DEF UndoFails, StepDone, Safe, TypeOK, NeverBroken, StepInv, Target

LEMMA SafeDeleteFile ==
    ASSUME Safe, NEW p \in Paths, DeleteFile(p)
    PROVE  Safe'
  BY KindsAssumption
     DEF DeleteFile, Editing, Value, Safe, TypeOK, NeverBroken, StepInv, Target

LEMMA SafeDeleteFolder ==
    ASSUME Safe, NEW p \in Paths, DeleteFolder(p)
    PROVE  Safe'
  BY KindsAssumption
     DEF DeleteFolder, Editing, Merge, Empty, Value, Safe, TypeOK, NeverBroken, StepInv, Target

LEMMA SafeWriteIgnored ==
    ASSUME Safe, NEW p \in Paths, WriteIgnored(p)
    PROVE  Safe'
  BY KindsAssumption
     DEF WriteIgnored, Editing, Safe, TypeOK, NeverBroken, StepInv, Target

LEMMA SafeWriteFile ==
    ASSUME Safe, NEW p \in Paths, NEW v \in Content, WriteFile(p, v)
    PROVE  Safe'
  BY KindsAssumption, NamesAssumption
     DEF WriteFile, Editing, WithParents, Value, Safe, TypeOK, NeverBroken, StepInv, Target

LEMMA SafeStutter ==
    ASSUME Safe, UNCHANGED vars
    PROVE  Safe'
  BY DEF vars, Safe, TypeOK, NeverBroken, StepInv, Target

LEMMA SafeNext ==
    ASSUME Safe, [Next]_vars
    PROVE  Safe'
  <1>1. CASE UNCHANGED vars
    BY <1>1, SafeStutter
  <1>2. CASE Push
    BY <1>2, SafePush
  <1>3. CASE StartRecovery
    BY <1>3, SafeStartRecovery
  <1>4. CASE Progress
    <2>1. ASSUME NEW p \in Paths, Apply(p)
          PROVE  Safe'
      BY <2>1, SafeBackUp, SafeRemove, SafePrune, SafeCopyIn, SafeRename,
         SafeCopySpoiled
         DEF Apply
    <2>2. ASSUME NEW p \in Paths, Undo(p)
          PROVE  Safe'
      BY <2>2, SafeAlreadyUndone, SafeStartUndo, SafeLeaveStuck DEF Undo
    <2> QED
      BY <1>4, <2>1, <2>2, SafeRecordBaseline, SafeRefuse, SafeWriteJournal, SafeCommit,
         SafeFinished, SafeApplyBlocked, SafeStartSweep, SafeSweep
         DEF Progress
  <1>5. CASE Failure
    BY <1>5, SafeApplyFails, SafeCommitFailsLate, SafeCrash, SafeSpoilStage, SafeUndoFails
       DEF Failure
  <1>6. CASE Edit
    BY <1>6, SafeDeleteFile, SafeDeleteFolder, SafeWriteIgnored, SafeWriteFile DEF Edit
  <1> QED
    BY <1>1, <1>2, <1>3, <1>4, <1>5, <1>6 DEF Next, System

THEOREM SafeAlways == Spec => []Safe
  <1>1. Init => Safe
    BY SafeInit
  <1>2. Safe /\ [Next]_vars => Safe'
    BY SafeNext
  <1> QED
    BY <1>1, <1>2, PTL DEF Spec

\* Every variable keeps its type, a path is worked on only within a step of a journaled
\* transfer, and the steps left are steps of the journal (sync.rs apply, recover).
THEOREM TypeCorrect == Spec => []TypeOK
  BY SafeAlways, PTL DEF Safe

\* Whatever fails, crashes or is edited and whenever, no half written, tampered or torn
\* content ever reaches the project (sync.rs install, undo_step).
THEOREM NeverBrokenAlways == Spec => []NeverBroken
  BY SafeAlways, PTL DEF Safe

(***************************************************************************)
(* JournalInv: the baseline file tells a pending transfer from a completed *)
(* one. The steps that leave the plan, the journal and the baseline file   *)
(* alone are proved together.                                              *)
(***************************************************************************)
LEMMA PlannedWell ==
    ASSUME NEW b \in Manifest, NEW s \in Manifest, NEW r \in Manifest
    PROVE  /\ WellPlanned(Planned(b, s, r), b)
           /\ Planned(b, s, r).changes # {} => Planned(b, s, r).baseline # b
           /\ \A p \in Paths \ Planned(b, s, r).changes :
                  Planned(b, s, r).baseline[p] \in {b[p], r[p]}
  <1>1. Planned(b, s, r).changes # {} => Planned(b, s, r).baseline # b
    BY PlanAdvances DEF Planned
  <1>2. ASSUME NEW p \in Changes(b, s, r)
        PROVE  /\ Only(Changes(b, s, r), r)[p] = b[p]
               /\ Only(Changes(b, s, r), s)[p] = s[p]
               /\ PlanBaseline(b, s, r)[p] = s[p]
               /\ s[p] # b[p]
    BY DEF Only, Merge, Changes, PlanBaseline
  <1>3. ASSUME NEW p \in Paths \ Changes(b, s, r)
        PROVE  PlanBaseline(b, s, r)[p] \in {b[p], r[p]}
    BY DEF PlanBaseline, Merge, Agreeing
  <1> QED
    BY <1>1, <1>2, <1>3 DEF WellPlanned, Planned

LEMMA JournalInit == Init => JournalInv
  BY DEF Init, JournalInv, Pending

LEMMA JournalPush ==
    ASSUME Safe, JournalInv, Push
    PROVE  JournalInv'
  <1>1. PICK s \in Manifest : PlanFrom(Baseline, s)
    BY DEF Push
  <1> DEFINE t == Planned(Baseline, s, Files(tree))
  <1>2. Files(tree) \in Manifest
    BY FilesType DEF Safe, TypeOK, NeverBroken
  <1>3. /\ WellPlanned(t, Baseline) /\ (t.changes # {} => t.baseline # Baseline)
        /\ \A p \in Paths \ t.changes : t.baseline[p] \in {Baseline[p], Files(tree)[p]}
    BY <1>2, PlannedWell, BaselineType DEF Safe
  <1>4. /\ plan' = t /\ seen' = Files(tree) /\ Baseline' = Baseline
        /\ journal' = None /\ pc' = "planned"
    BY <1>1 DEF PlanFrom, Baseline
  <1> HIDE DEF t
  <1> QED
    BY <1>3, <1>4 DEF JournalInv, Pending, Recorded

LEMMA JournalRecordBaseline ==
    ASSUME Safe, JournalInv, RecordBaseline
    PROVE  JournalInv'
  BY KindsAssumption
     DEF RecordBaseline, Safe, TypeOK, JournalInv, Pending, WellPlanned, Recorded,
         Baseline

LEMMA JournalRefuse ==
    ASSUME Safe, JournalInv, Refuse
    PROVE  JournalInv'
  BY KindsAssumption
     DEF Refuse, Safe, TypeOK, JournalInv, Pending, WellPlanned, Recorded,
         Baseline

LEMMA JournalWriteJournal ==
    ASSUME Safe, JournalInv, WriteJournal
    PROVE  JournalInv'
  BY KindsAssumption
     DEF WriteJournal, Transfers, Safe, TypeOK, JournalInv, Pending, WellPlanned, Recorded,
         Baseline

LEMMA JournalCommit ==
    ASSUME Safe, JournalInv, Commit
    PROVE  JournalInv'
  BY KindsAssumption
     DEF Commit, Safe, TypeOK, JournalInv, Pending, WellPlanned, Recorded,
         Baseline

LEMMA JournalFinished ==
    ASSUME Safe, JournalInv, Finished
    PROVE  JournalInv'
  BY KindsAssumption
     DEF Finished, Safe, TypeOK, JournalInv, Pending, WellPlanned, Recorded,
         Baseline

LEMMA JournalApplyBlocked ==
    ASSUME Safe, JournalInv, ApplyBlocked
    PROVE  JournalInv'
  BY KindsAssumption
     DEF ApplyBlocked, Recover, Committed, Safe, TypeOK, JournalInv, Pending, WellPlanned, Recorded,
         Baseline

LEMMA JournalApplyFails ==
    ASSUME Safe, JournalInv, ApplyFails
    PROVE  JournalInv'
  BY KindsAssumption
     DEF ApplyFails, Recover, Committed, Safe, TypeOK, JournalInv, Pending, WellPlanned, Recorded,
         Baseline

LEMMA JournalCommitFailsLate ==
    ASSUME Safe, JournalInv, CommitFailsLate
    PROVE  JournalInv'
  BY KindsAssumption
     DEF CommitFailsLate, Recover, Committed, Safe, TypeOK, JournalInv, Pending, WellPlanned, Recorded,
         Baseline

LEMMA JournalStartRecovery ==
    ASSUME Safe, JournalInv, StartRecovery
    PROVE  JournalInv'
  BY KindsAssumption
     DEF StartRecovery, Recover, Committed, Safe, TypeOK, JournalInv, Pending, WellPlanned, Recorded,
         Baseline

LEMMA JournalCopySpoiled ==
    ASSUME Safe, JournalInv, NEW p \in Paths, CopySpoiled(p)
    PROVE  JournalInv'
  BY KindsAssumption
     DEF CopySpoiled, Recover, Committed, Safe, TypeOK, JournalInv, Pending, WellPlanned, Recorded,
         Baseline

LEMMA JournalStartSweep ==
    ASSUME Safe, JournalInv, StartSweep
    PROVE  JournalInv'
  BY KindsAssumption
     DEF StartSweep, Safe, TypeOK, JournalInv, Pending, WellPlanned, Recorded,
         Baseline

LEMMA JournalSweep ==
    ASSUME Safe, JournalInv, Sweep
    PROVE  JournalInv'
  BY KindsAssumption
     DEF Sweep, Safe, TypeOK, JournalInv, Pending, WellPlanned, Recorded,
         Baseline

LEMMA JournalCrash ==
    ASSUME Safe, JournalInv, Crash
    PROVE  JournalInv'
  BY KindsAssumption
     DEF Crash, Safe, TypeOK, JournalInv, Pending, WellPlanned, Recorded,
         Baseline

\* Most steps of apply and undo, and all edits, touch none of these files.
LEMMA JournalUntouched ==
    ASSUME JournalInv, UNCHANGED <<base, journal, plan, seen, pc>>
    PROVE  JournalInv'
  BY DEF JournalInv, Pending, WellPlanned, Recorded, Baseline

LEMMA JournalNext ==
    ASSUME Safe, JournalInv, [Next]_vars
    PROVE  JournalInv'
  <1>1. CASE UNCHANGED vars
    BY <1>1, JournalUntouched DEF vars
  <1>2. CASE Push
    BY <1>2, JournalPush
  <1>3. CASE StartRecovery
    BY <1>3, JournalStartRecovery
  <1>4. CASE Progress
    <2>1. ASSUME NEW p \in Paths, Apply(p) \/ Undo(p), ~CopySpoiled(p)
          PROVE  UNCHANGED <<base, journal, plan, seen, pc>>
      BY <2>1 DEF Apply, Undo, BackUp, Remove, Prune, CopyIn, Rename, AlreadyUndone,
                  StartUndo, LeaveStuck
    <2> QED
      BY <1>4, <2>1, JournalUntouched, JournalCopySpoiled, JournalRecordBaseline,
         JournalRefuse, JournalWriteJournal, JournalCommit, JournalFinished,
         JournalApplyBlocked, JournalStartSweep, JournalSweep
         DEF Progress
  <1>5. CASE Failure
    <2>1. ASSUME NEW p \in Paths, SpoilStage(p) \/ UndoFails(p)
          PROVE  UNCHANGED <<base, journal, plan, seen, pc>>
      BY <2>1 DEF SpoilStage, UndoFails
    <2> QED
      BY <1>5, <2>1, JournalUntouched, JournalApplyFails, JournalCommitFailsLate,
         JournalCrash
         DEF Failure
  <1>6. CASE Edit
    BY <1>6, JournalUntouched
       DEF Edit, DeleteFile, DeleteFolder, WriteIgnored, WriteFile, Editing
  <1> QED
    BY <1>1, <1>2, <1>3, <1>4, <1>5, <1>6 DEF Next, System

THEOREM JournalAlways == Spec => []JournalInv
  <1>1. Safe /\ JournalInv /\ [Next]_vars => JournalInv'
    BY JournalNext
  <1> QED
    BY JournalInit, SafeAlways, <1>1, PTL DEF Spec

(***************************************************************************)
(* What a step does to the files of the project: folders come and go, but  *)
(* only Remove and Rename change an entry, and only that of their path.    *)
(***************************************************************************)
LEMMA FilesUpdate ==
    ASSUME NEW t, t \in [Paths -> Value \cup {Dir, Broken}],
           NEW p \in Paths, NEW v, v # Dir
    PROVE  Files([t EXCEPT ![p] = v]) = [Files(t) EXCEPT ![p] = v]
  BY DEF Files

LEMMA FilesWithParents ==
    ASSUME TypeOK, NEW p \in Paths, ParentsReal(p)
    PROVE  Files(WithParents(tree, p)) = Files(tree)
  BY KindsAssumption, NamesAssumption DEF TypeOK, ParentsReal, WithParents, Files, Value

LEMMA FilesPruned ==
    ASSUME TypeOK, NEW p \in Paths, Prune(p)
    PROVE  Files(tree') = Files(tree)
  BY KindsAssumption DEF TypeOK, Prune, Emptied, Files, Value

LEMMA FilesCopied ==
    ASSUME TypeOK, NEW p \in Paths, CopyIn(p) \/ CopySpoiled(p)
    PROVE  Files(tree') = Files(tree)
  BY FilesWithParents DEF CopyIn, CopySpoiled

LEMMA FilesRemoved ==
    ASSUME TypeOK, NEW p \in Paths, Remove(p)
    PROVE  Files(tree') = [Files(tree) EXCEPT ![p] = Absent]
  BY KindsAssumption, FilesUpdate DEF TypeOK, Remove, Value

LEMMA FilesRenamed ==
    ASSUME Safe, NEW p \in Paths, Rename(p)
    PROVE  Files(tree') = [Files(tree) EXCEPT ![p] = Target(p)]
  <1>1. temps[p] = Target(p) /\ Target(p) \in Value
    BY DEF Safe, TypeOK, StepInv, Rename, CanRename, Target, Transfers, Manifest
  <1> QED
    BY <1>1, KindsAssumption, FilesUpdate DEF Safe, TypeOK, Rename

(***************************************************************************)
(* RestoreInv: undisturbed, what a pending transfer replaced is backed up. *)
(***************************************************************************)
LEMMA VerifiedUntouched ==
    ASSUME NEW t \in Transfers, Verified(t), NEW p \in t.changes
    PROVE  Files(tree)[p] = t.before[p]
  BY KindsAssumption DEF Verified, AsPlanned, FolderEmptied, Files, Transfers, Value

LEMMA RestoreInit == Init => RestoreInv
  BY DEF Init, RestoreInv, Pending

LEMMA RestorePush ==
    ASSUME Safe, RestoreInv, Push
    PROVE  RestoreInv'
  BY DEF Push, PlanFrom, RestoreInv, Pending

LEMMA RestoreWriteJournal ==
    ASSUME Safe, JournalInv, RestoreInv, WriteJournal
    PROVE  RestoreInv'
  BY KindsAssumption, VerifiedUntouched
     DEF WriteJournal, Transfers, Safe, TypeOK, RestoreInv, Pending

LEMMA RestoreRecordBaseline ==
    ASSUME Safe, JournalInv, RestoreInv, RecordBaseline
    PROVE  RestoreInv'
  BY KindsAssumption
     DEF RecordBaseline, JournalInv, Safe, TypeOK, RestoreInv, Pending

LEMMA RestoreRefuse ==
    ASSUME Safe, JournalInv, RestoreInv, Refuse
    PROVE  RestoreInv'
  BY KindsAssumption
     DEF Refuse, Safe, TypeOK, RestoreInv, Pending

LEMMA RestoreCommit ==
    ASSUME Safe, JournalInv, RestoreInv, Commit
    PROVE  RestoreInv'
  BY KindsAssumption
     DEF Commit, Safe, TypeOK, RestoreInv, Pending

LEMMA RestoreFinished ==
    ASSUME Safe, JournalInv, RestoreInv, Finished
    PROVE  RestoreInv'
  BY KindsAssumption
     DEF Finished, Safe, TypeOK, RestoreInv, Pending

LEMMA RestoreApplyBlocked ==
    ASSUME Safe, JournalInv, RestoreInv, ApplyBlocked
    PROVE  RestoreInv'
  BY KindsAssumption
     DEF ApplyBlocked, Recover, Safe, TypeOK, RestoreInv, Pending

LEMMA RestoreApplyFails ==
    ASSUME Safe, JournalInv, RestoreInv, ApplyFails
    PROVE  RestoreInv'
  BY KindsAssumption
     DEF ApplyFails, Recover, Safe, TypeOK, RestoreInv, Pending

LEMMA RestoreCommitFailsLate ==
    ASSUME Safe, JournalInv, RestoreInv, CommitFailsLate
    PROVE  RestoreInv'
  BY KindsAssumption
     DEF CommitFailsLate, Recover, Safe, TypeOK, RestoreInv, Pending

LEMMA RestoreStartRecovery ==
    ASSUME Safe, JournalInv, RestoreInv, StartRecovery
    PROVE  RestoreInv'
  BY KindsAssumption
     DEF StartRecovery, Recover, Safe, TypeOK, RestoreInv, Pending

LEMMA RestoreStartSweep ==
    ASSUME Safe, JournalInv, RestoreInv, StartSweep
    PROVE  RestoreInv'
  BY KindsAssumption
     DEF StartSweep, Safe, TypeOK, RestoreInv, Pending

LEMMA RestoreSweep ==
    ASSUME Safe, JournalInv, RestoreInv, Sweep
    PROVE  RestoreInv'
  BY KindsAssumption
     DEF Sweep, Safe, TypeOK, RestoreInv, Pending

LEMMA RestoreCrash ==
    ASSUME Safe, JournalInv, RestoreInv, Crash
    PROVE  RestoreInv'
  <1> SUFFICES ASSUME Pending, ~disturbed, NEW p \in journal.changes
               PROVE  \/ Files(tree)[p] = journal.before[p]
                      \/ journal.before[p] = Absent
                      \/ backup'[p] = journal.before[p]
    BY DEF Crash, RestoreInv, Pending
  <1>1. p \in Paths /\ path \notin {q \in todo : phase = "next"}
    BY KindsAssumption DEF Safe, TypeOK, Pending, Transfers
  <1>2. CASE backup' = backup
    BY <1>2 DEF RestoreInv
  <1>3. CASE \E q \in todo : /\ pc = "apply" /\ phase = "next"
                            /\ backup' = [backup EXCEPT ![q] = Broken]
    BY <1>1, <1>3 DEF RestoreInv, Safe, TypeOK
  <1> QED
    BY <1>2, <1>3 DEF Crash

LEMMA RestoreBackUp ==
    ASSUME Safe, JournalInv, RestoreInv, NEW p \in Paths, BackUp(p)
    PROVE  RestoreInv'
  BY KindsAssumption
     DEF BackUp, CanBackUp, NextStep, Files, Transfers, Safe, TypeOK, RestoreInv, Pending

LEMMA RestoreRemove ==
    ASSUME Safe, JournalInv, RestoreInv, NEW p \in Paths, Remove(p)
    PROVE  RestoreInv'
  BY KindsAssumption, FilesRemoved
     DEF Remove, StepInv, Target, Transfers, Manifest, Files, Safe, TypeOK, RestoreInv, Pending

LEMMA RestorePrune ==
    ASSUME Safe, JournalInv, RestoreInv, NEW p \in Paths, Prune(p)
    PROVE  RestoreInv'
  BY KindsAssumption, FilesPruned
     DEF Prune, StepDone, Safe, TypeOK, RestoreInv, Pending

LEMMA RestoreCopyIn ==
    ASSUME Safe, JournalInv, RestoreInv, NEW p \in Paths, CopyIn(p)
    PROVE  RestoreInv'
  BY KindsAssumption, FilesCopied
     DEF CopyIn, Safe, TypeOK, RestoreInv, Pending

LEMMA RestoreRename ==
    ASSUME Safe, JournalInv, RestoreInv, NEW p \in Paths, Rename(p)
    PROVE  RestoreInv'
  <1> SUFFICES ASSUME Pending, ~disturbed
               PROVE  RestoreInv'
    BY DEF Rename, RestoreInv, Pending
  <1>1. /\ p = path /\ p \in todo /\ todo' = todo \ {p} /\ path' = None
        /\ pc \in {"apply", "undo"}
        /\ UNCHANGED <<base, journal, backup, pc, disturbed>>
    BY KindsAssumption DEF Rename, StepDone, Safe, TypeOK
  <1>2. /\ Files(tree')[p] = Target(p)
        /\ \A q \in Paths \ {p} : Files(tree')[q] = Files(tree)[q]
    BY FilesRenamed DEF Files
  <1>3. journal.changes \subseteq Paths /\ todo \subseteq journal.changes
    BY DEF Safe, TypeOK, Pending, Transfers
  <1>4. pc = "apply" => journal.before[p] = Absent \/ backup[p] = journal.before[p]
    BY <1>1, KindsAssumption DEF RestoreInv
  <1>5. pc = "undo" => Files(tree')[p] = journal.before[p]
    BY <1>2 DEF Target
  <1> QED
    BY <1>1, <1>2, <1>3, <1>4, <1>5 DEF RestoreInv, Pending

LEMMA RestoreCopySpoiled ==
    ASSUME Safe, JournalInv, RestoreInv, NEW p \in Paths, CopySpoiled(p)
    PROVE  RestoreInv'
  BY KindsAssumption, FilesCopied
     DEF CopySpoiled, Recover, Safe, TypeOK, RestoreInv, Pending

LEMMA RestoreAlreadyUndone ==
    ASSUME Safe, JournalInv, RestoreInv, NEW p \in Paths, AlreadyUndone(p)
    PROVE  RestoreInv'
  BY KindsAssumption
     DEF AlreadyUndone, StepDone, Safe, TypeOK, RestoreInv, Pending

LEMMA RestoreStartUndo ==
    ASSUME Safe, JournalInv, RestoreInv, NEW p \in Paths, StartUndo(p)
    PROVE  RestoreInv'
  BY KindsAssumption
     DEF StartUndo, Safe, TypeOK, RestoreInv, Pending

LEMMA RestoreLeaveStuck ==
    ASSUME Safe, JournalInv, RestoreInv, NEW p \in Paths, LeaveStuck(p)
    PROVE  RestoreInv'
  BY KindsAssumption
     DEF LeaveStuck, StepDone, Safe, TypeOK, RestoreInv, Pending

LEMMA RestoreUndoFails ==
    ASSUME Safe, JournalInv, RestoreInv, NEW p \in Paths, UndoFails(p)
    PROVE  RestoreInv'
  BY KindsAssumption
     DEF UndoFails, Safe, TypeOK, RestoreInv, Pending

LEMMA RestoreSpoilStage ==
    ASSUME Safe, JournalInv, RestoreInv, NEW p \in Paths, SpoilStage(p)
    PROVE  RestoreInv'
  BY KindsAssumption
     DEF SpoilStage, Safe, TypeOK, RestoreInv, Pending

LEMMA RestoreEdit ==
    ASSUME Safe, RestoreInv, Edit
    PROVE  RestoreInv'
  <1>1. disturbed' = (disturbed \/ journal # None) /\ UNCHANGED <<base, journal>>
    BY DEF Edit, DeleteFile, DeleteFolder, WriteIgnored, WriteFile, Editing
  <1> QED
    BY <1>1 DEF Safe, TypeOK, RestoreInv, Pending

LEMMA RestoreNext ==
    ASSUME Safe, JournalInv, RestoreInv, [Next]_vars
    PROVE  RestoreInv'
  <1>1. CASE UNCHANGED vars
    BY <1>1 DEF vars, RestoreInv, Pending
  <1>2. CASE Push
    BY <1>2, RestorePush
  <1>3. CASE StartRecovery
    BY <1>3, RestoreStartRecovery
  <1>4. CASE Progress
    <2>1. ASSUME NEW p \in Paths, Apply(p)
          PROVE  RestoreInv'
      BY <2>1, RestoreBackUp, RestoreRemove, RestorePrune, RestoreCopyIn, RestoreRename,
         RestoreCopySpoiled
         DEF Apply
    <2>2. ASSUME NEW p \in Paths, Undo(p)
          PROVE  RestoreInv'
      BY <2>2, RestoreAlreadyUndone, RestoreStartUndo, RestoreLeaveStuck DEF Undo
    <2> QED
      BY <1>4, <2>1, <2>2, RestoreRecordBaseline, RestoreRefuse, RestoreWriteJournal,
         RestoreCommit, RestoreFinished, RestoreApplyBlocked, RestoreStartSweep,
         RestoreSweep
         DEF Progress
  <1>5. CASE Failure
    BY <1>5, RestoreApplyFails, RestoreCommitFailsLate, RestoreCrash, RestoreSpoilStage,
       RestoreUndoFails
       DEF Failure
  <1>6. CASE Edit
    BY <1>6, RestoreEdit
  <1> QED
    BY <1>1, <1>2, <1>3, <1>4, <1>5, <1>6 DEF Next, System

\* As long as nobody interfered, whatever a pending transfer has replaced can be put
\* back, whenever the process dies (sync.rs apply_step, undo_step).
THEOREM BackupsAlwaysHold == Spec => []BackupsHold
  <1>1. Safe /\ JournalInv /\ RestoreInv => BackupsHold
    <2> SUFFICES ASSUME Safe, JournalInv, RestoreInv, Pending, ~disturbed,
                        NEW p \in journal.changes,
                        tree[p] = journal.after[p], journal.before[p] # Absent
                 PROVE  backup[p] = journal.before[p]
      BY DEF BackupsHold
    <2>1. p \in Paths /\ tree[p] \in Value
      BY DEF Safe, TypeOK, Pending, Transfers, Manifest
    <2>2. Files(tree)[p] = journal.after[p]
      BY <2>1, KindsAssumption DEF Files
    <2>3. journal.after[p] # journal.before[p]
      BY DEF JournalInv, WellPlanned
    <2> QED
      BY <2>2, <2>3 DEF RestoreInv
  <1>2. Safe /\ JournalInv /\ RestoreInv /\ [Next]_vars => RestoreInv'
    BY RestoreNext
  <1> QED
    BY <1>1, <1>2, RestoreInit, SafeAlways, JournalAlways, PTL DEF Spec

(***************************************************************************)
(* PartialsInv: partial files lie where recovery finds them. Only CopyIn   *)
(* and CopySpoiled make one; the folders above it stay until it is gone.   *)
(***************************************************************************)
LEMMA PartialsInit == Init => PartialsInv
  BY KindsAssumption DEF Init, PartialsInv, Empty

\* Whoever leaves the files alone and has no journal or plan of its own keeps it.
LEMMA PartialsKept ==
    ASSUME Safe, PartialsInv,
           UNCHANGED <<tree, temps, journal>>,
           pc' = "apply" => pc = "apply" /\ UNCHANGED <<phase, path>>,
           pc' = "clean" => pc = "clean"
    PROVE  PartialsInv'
  BY DEF PartialsInv

LEMMA NoneLeft ==
    ASSUME Safe, PartialsInv,
           journal = None \/ (pc = "apply" /\ phase # "rename") \/ pc = "clean"
    PROVE  temps = Empty
  BY DEF Safe, TypeOK, PartialsInv, Empty

LEMMA PartialsBegin ==
    ASSUME Safe, JournalInv, PartialsInv, WriteJournal
    PROVE  PartialsInv'
  <1>1. journal = None
    BY KindsAssumption DEF WriteJournal, Safe, TypeOK, JournalInv
  <1>2. temps = Empty
    BY <1>1, NoneLeft
  <1> QED
    BY <1>2 DEF WriteJournal, PartialsInv, Empty

LEMMA PartialsCommit ==
    ASSUME Safe, PartialsInv, Commit
    PROVE  PartialsInv'
  <1>1. pc = "apply" /\ phase # "rename"
    BY KindsAssumption DEF Commit, Safe, TypeOK
  <1>2. temps = Empty
    BY <1>1, NoneLeft
  <1> QED
    BY <1>2 DEF Commit, PartialsInv, Empty

LEMMA PartialsFinished ==
    ASSUME Safe, PartialsInv, Finished
    PROVE  PartialsInv'
  BY NoneLeft DEF Finished, PartialsInv, Empty

LEMMA PartialsSweep ==
    ASSUME Safe, PartialsInv, Sweep
    PROVE  PartialsInv'
  <1>1. ASSUME NEW p \in Paths
        PROVE  temps'[p] = Absent
    <2>1. CASE temps[p] = Absent
      BY <2>1 DEF Sweep, Merge, Empty
    <2>2. CASE temps[p] # Absent
      BY <2>2 DEF Sweep, Merge, Empty, PartialsInv, ParentsReal
    <2> QED
      BY <2>1, <2>2
  <1> QED
    BY <1>1 DEF Sweep, PartialsInv

LEMMA PartialsBackUp ==
    ASSUME Safe, PartialsInv, NEW p \in Paths, BackUp(p)
    PROVE  PartialsInv'
  BY NoneLeft DEF BackUp, PartialsInv, Empty

LEMMA PartialsRemove ==
    ASSUME Safe, PartialsInv, NEW p \in Paths, Remove(p)
    PROVE  PartialsInv'
  BY NamesAssumption DEF Remove, Safe, TypeOK, PartialsInv

LEMMA PartialsPrune ==
    ASSUME Safe, PartialsInv, NEW p \in Paths, Prune(p)
    PROVE  PartialsInv'
  BY NamesAssumption DEF Prune, StepDone, Emptied, Safe, TypeOK, PartialsInv

LEMMA PartialsCopied ==
    ASSUME Safe, PartialsInv, NEW p \in Paths, CopyIn(p) \/ CopySpoiled(p)
    PROVE  PartialsInv'
  <1>1. /\ journal # None /\ p \in journal.changes /\ pc \in {"apply", "undo"}
        /\ path = p /\ phase = "install"
    BY KindsAssumption DEF CopyIn, CopySpoiled, Safe, TypeOK
  <1>2. ASSUME NEW r \in Paths, temps'[r] # Absent
        PROVE  /\ r \in journal.changes /\ \A q \in Above[r] : tree'[q] = Dir
               /\ pc = "apply" => r = p
    <2>1. tree' = WithParents(tree, p) /\ temps' = [temps EXCEPT ![p] = Source(p)]
      BY DEF CopyIn, CopySpoiled
    <2>2. CASE r = p
      BY <1>1, <2>1, <2>2, NamesAssumption DEF WithParents
    <2>3. CASE r # p
      BY <1>1, <1>2, <2>1, <2>3, NamesAssumption DEF WithParents, PartialsInv, Safe, TypeOK
    <2> QED
      BY <2>2, <2>3
  <1>3. pc' \in {pc, "undo", "sweep"} /\ UNCHANGED journal
    BY DEF CopyIn, CopySpoiled, Recover
  <1>4. pc' = "apply" => phase' = "rename" /\ path' = p
    BY <1>1, <1>3 DEF CopyIn, CopySpoiled, Recover
  <1> QED
    BY <1>1, <1>2, <1>3, <1>4 DEF PartialsInv

LEMMA PartialsRename ==
    ASSUME Safe, PartialsInv, NEW p \in Paths, Rename(p)
    PROVE  PartialsInv'
  BY NamesAssumption, KindsAssumption DEF Rename, CanRename, StepDone, Safe, TypeOK, PartialsInv

LEMMA PartialsUndo ==
    ASSUME Safe, PartialsInv, NEW p \in Paths, Undo(p) \/ UndoFails(p)
    PROVE  PartialsInv'
  BY DEF Undo, UndoFails, AlreadyUndone, StartUndo, LeaveStuck, PartialsInv

LEMMA PartialsEdit ==
    ASSUME Safe, PartialsInv, Edit
    PROVE  PartialsInv'
  <1>1. ASSUME NEW p \in Paths, NEW v \in Content, WriteFile(p, v)
        PROVE  PartialsInv'
    BY <1>1, NamesAssumption
       DEF WriteFile, WithParents, Editing, Safe, TypeOK, PartialsInv
  <1>2. ASSUME NEW p \in Paths, DeleteFile(p)
        PROVE  PartialsInv'
    BY <1>2, NamesAssumption DEF DeleteFile, Editing, Safe, TypeOK, PartialsInv
  <1>3. ASSUME NEW d \in Paths, DeleteFolder(d)
        PROVE  PartialsInv'
    <2> DEFINE gone == {d} \cup {p \in Paths : d \in Above[p]}
    <2>1. ASSUME NEW r \in Paths, temps'[r] # Absent
          PROVE  temps[r] # Absent /\ d \notin Above[r]
      BY <1>3, <2>1 DEF DeleteFolder, Merge, Empty
    <2>2. ASSUME NEW r \in Paths, d \notin Above[r], NEW q \in Above[r]
          PROVE  tree'[q] = tree[q]
      BY <1>3, <2>2, NamesAssumption DEF DeleteFolder
    <2>3. UNCHANGED <<journal, pc, phase, path>>
      BY <1>3 DEF DeleteFolder, Editing
    <2>4. pc = "clean" => temps' = Empty
      BY <1>3 DEF DeleteFolder, Merge, Empty, PartialsInv
    <2> QED
      BY <2>1, <2>2, <2>3, <2>4 DEF PartialsInv
  <1>4. ASSUME NEW d \in Paths, WriteIgnored(d)
        PROVE  PartialsInv'
    BY <1>4 DEF WriteIgnored, Editing, PartialsInv
  <1> QED
    BY <1>1, <1>2, <1>3, <1>4 DEF Edit

LEMMA PartialsNext ==
    ASSUME Safe, JournalInv, PartialsInv, [Next]_vars
    PROVE  PartialsInv'
  <1>1. CASE UNCHANGED vars
    BY <1>1 DEF vars, PartialsInv
  <1>2. CASE Push
    BY <1>2, PartialsKept DEF Push, PlanFrom
  <1>3. CASE StartRecovery
    BY <1>3, PartialsKept DEF StartRecovery, Recover
  <1>4. CASE Progress
    <2>1. CASE RecordBaseline \/ Refuse \/ ApplyBlocked \/ StartSweep
      BY <2>1, PartialsKept DEF RecordBaseline, Refuse, ApplyBlocked, Recover, StartSweep
    <2>2. ASSUME NEW p \in Paths, Apply(p) \/ Undo(p)
          PROVE  PartialsInv'
      BY <2>2, PartialsBackUp, PartialsRemove, PartialsPrune, PartialsCopied,
         PartialsRename, PartialsUndo
         DEF Apply
    <2> QED
      BY <1>4, <2>1, <2>2, PartialsBegin, PartialsCommit, PartialsFinished, PartialsSweep
         DEF Progress
  <1>5. CASE Failure
    <2>1. CASE ApplyFails \/ CommitFailsLate \/ Crash
      BY <2>1, PartialsKept DEF ApplyFails, CommitFailsLate, Recover, Crash
    <2>2. ASSUME NEW p \in Paths, SpoilStage(p)
          PROVE  PartialsInv'
      BY <2>2, PartialsKept DEF SpoilStage
    <2> QED
      BY <1>5, <2>1, <2>2, PartialsUndo DEF Failure
  <1>6. CASE Edit
    BY <1>6, PartialsEdit
  <1> QED
    BY <1>1, <1>2, <1>3, <1>4, <1>5, <1>6 DEF Next, System

\* Whoever edits the project and whenever the process dies or fails, once the journal is
\* gone no partial file is left in the project (sync.rs recover, apply).
THEOREM PartialsNeverLeft == Spec => []NoPartialsLeft
  <1>1. Safe /\ PartialsInv => NoPartialsLeft
    BY NoneLeft DEF NoPartialsLeft
  <1>2. Safe /\ JournalInv /\ PartialsInv /\ [Next]_vars => PartialsInv'
    BY PartialsNext
  <1> QED
    BY <1>1, <1>2, PartialsInit, SafeAlways, JournalAlways, PTL DEF Spec

(***************************************************************************)
(* ClearWay: undisturbed, every path of a pending transfer holds its old   *)
(* or its new content below folders only. A plan that passes its checks    *)
(* has no path of its own above another, unless a file takes the place of  *)
(* a folder: a file above a path it changes is refused (AsPlanned).        *)
(***************************************************************************)
LEMMA ClearInit == Init => ClearWay
  BY DEF Init, ClearWay, Pending

LEMMA VerifiedClear ==
    ASSUME NEW t \in Transfers, WellPlanned(t, Baseline), Verified(t),
           ~FolderBecomesFile(t), NEW p \in t.changes
    PROVE  ParentsReal(p) /\ tree[p] = t.before[p]
  <1>1. ~FolderEmptied(t, p)
    BY DEF FolderEmptied, Deleted, FolderBecomesFile, Verified, AsPlanned, WellPlanned
  <1> QED
    BY <1>1 DEF Verified, AsPlanned

LEMMA ClearBegin ==
    ASSUME Safe, JournalInv, WriteJournal
    PROVE  ClearWay'
  <1>1. plan # None /\ plan \in Transfers /\ WellPlanned(plan, Baseline) /\ Verified(plan)
    BY KindsAssumption DEF WriteJournal, Safe, TypeOK, JournalInv
  <1>2. journal' = plan /\ UNCHANGED <<tree, phase, path>> /\ phase = "next"
    BY KindsAssumption DEF WriteJournal, Safe, TypeOK
  <1>3. ASSUME ~FolderBecomesFile(plan), NEW p \in plan.changes
        PROVE  /\ ParentsReal(p) /\ tree[p] = plan.before[p]
               /\ Above[p] \cap plan.changes = {}
    <2>1. \A q \in plan.changes : ParentsReal(q) /\ tree[q] = plan.before[q]
      BY <1>1, <1>3, VerifiedClear
    <2>2. \A q \in plan.changes : tree[q] # Dir
      BY <1>1, <2>1, KindsAssumption DEF Transfers, Manifest
    <2>3. ASSUME NEW q \in Above[p] \cap plan.changes
          PROVE  FALSE
      <3>1. tree[q] = Absent /\ plan.before[q] = Absent
        BY <2>1, <2>2 DEF ParentsReal
      <3> QED
        BY <1>1, <1>3, <3>1 DEF WellPlanned, FolderBecomesFile
    <2> QED
      BY <2>1, <2>3
  <1> QED
    BY <1>2, <1>3 DEF ClearWay, FolderBecomesFile, ParentsReal

\* Steps that leave the files, the journal and the step at hand alone, or give it up.
LEMMA ClearKept ==
    ASSUME Safe, ClearWay,
           Pending' => Pending /\ journal' = journal, tree' = tree, disturbed => disturbed',
           phase' = "next" \/ UNCHANGED <<temps, pc, phase, path>>
    PROVE  ClearWay'
  BY DEF ClearWay, ParentsReal, FolderBecomesFile, Target

\* What ClearWay says of the step at hand.
LEMMA StepClear ==
    ASSUME Safe, ClearWay, Pending, ~disturbed, ~FolderBecomesFile(journal),
           pc \in {"apply", "undo"}, NEW p \in todo
    PROVE  /\ p \in journal.changes /\ ParentsReal(p)
           /\ tree[p] \in {journal.before[p], journal.after[p]} /\ tree[p] # Dir
           /\ \A r \in journal.changes : p \notin Above[r]
  <1>1. p \in journal.changes /\ journal \in Transfers
    BY DEF Safe, TypeOK, Pending
  <1>2. journal.before[p] # Dir /\ journal.after[p] # Dir
    BY <1>1, KindsAssumption DEF Transfers, Manifest
  <1> QED
    BY <1>1, <1>2 DEF ClearWay

LEMMA ClearBackUp ==
    ASSUME Safe, JournalInv, ClearWay, NEW p \in Paths, BackUp(p)
    PROVE  ClearWay'
  <1>1. /\ UNCHANGED <<tree, base, journal, disturbed, pc>> /\ pc = "apply" /\ p \in todo
        /\ phase' = "install" /\ path' = p
    BY DEF BackUp, NextStep
  <1>2. ASSUME Pending, journal.after[p] = Absent
        PROVE  tree[p] # Absent
    BY <1>1, <1>2 DEF BackUp, CanBackUp, Safe, TypeOK, JournalInv, WellPlanned
  <1> QED
    BY <1>1, <1>2 DEF ClearWay, Pending, ParentsReal, FolderBecomesFile, Target

LEMMA ClearRemove ==
    ASSUME Safe, ClearWay, NEW p \in Paths, Remove(p)
    PROVE  ClearWay'
  <1> SUFFICES ASSUME Pending, ~disturbed, ~FolderBecomesFile(journal)
               PROVE  ClearWay'
    BY DEF Remove, ClearWay, Pending
  <1>1. /\ tree' = [tree EXCEPT ![p] = Absent] /\ phase' = "prune"
        /\ UNCHANGED <<base, journal, disturbed>>
        /\ Absent \in {journal.before[p], journal.after[p]}
    BY DEF Remove, Target
  <1> QED
    BY <1>1, NamesAssumption
       DEF ClearWay, Pending, ParentsReal, FolderBecomesFile, Safe, TypeOK, Transfers

LEMMA ClearPrune ==
    ASSUME Safe, ClearWay, NEW p \in Paths, Prune(p)
    PROVE  ClearWay'
  <1> SUFFICES ASSUME Pending, ~disturbed, ~FolderBecomesFile(journal)
               PROVE  ClearWay'
    BY DEF Prune, ClearWay, Pending
  <1>1. /\ \A q \in Paths : tree'[q] = tree[q] \/ (tree'[q] = Absent /\ q \in Above[p])
        /\ phase' = "next" /\ UNCHANGED <<base, journal, disturbed>>
    BY DEF Prune, StepDone, Emptied
  <1>2. p \in journal.changes /\ journal.changes \subseteq Paths
    BY KindsAssumption DEF Prune, Safe, TypeOK, Pending, Transfers
  <1> QED
    BY <1>1, <1>2, NamesAssumption DEF ClearWay, Pending, ParentsReal, FolderBecomesFile

LEMMA ClearCopied ==
    ASSUME Safe, ClearWay, NEW p \in Paths, CopyIn(p) \/ CopySpoiled(p)
    PROVE  ClearWay'
  <1> SUFFICES ASSUME Pending, ~disturbed, ~FolderBecomesFile(journal)
               PROVE  ClearWay'
    BY DEF CopyIn, CopySpoiled, ClearWay, Pending
  <1>1. /\ tree' = WithParents(tree, p) /\ temps' = [temps EXCEPT ![p] = Source(p)]
        /\ UNCHANGED <<base, journal, disturbed>> /\ path = p /\ phase = "install"
    BY DEF CopyIn, CopySpoiled
  <1>2. p \in journal.changes /\ journal.changes \subseteq Paths /\ pc \in {"apply", "undo"}
    BY <1>1, KindsAssumption DEF Safe, TypeOK, Pending, Transfers
  <1>3. \/ phase' = "next"
        \/ (phase' = "rename" /\ path' = p /\ temps'[p] # Absent)
    <2>1. CASE CopyIn(p)
      <3>1. Source(p) = Target(p) /\ Target(p) # Absent
        BY <1>1, <1>2, <2>1 DEF CopyIn, CopyVerified, Source, Target, Safe, StepInv
      <3> QED
        BY <1>1, <2>1, <3>1 DEF CopyIn, Safe, TypeOK
    <2>2. CASE CopySpoiled(p)
      BY <2>2 DEF CopySpoiled, Recover
    <2> QED
      BY <2>1, <2>2
  <1>4. \A r \in journal.changes : Above[r] \cap journal.changes = {}
    BY DEF ClearWay
  <1>5. /\ \A q \in Paths : tree'[q] = tree[q] \/ (tree'[q] = Dir /\ q \in Above[p])
    BY <1>1 DEF WithParents
  <1> QED
    BY <1>1, <1>2, <1>3, <1>5, NamesAssumption
       DEF ClearWay, Pending, ParentsReal, FolderBecomesFile

LEMMA ClearRename ==
    ASSUME Safe, ClearWay, NEW p \in Paths, Rename(p)
    PROVE  ClearWay'
  <1> SUFFICES ASSUME Pending, ~disturbed, ~FolderBecomesFile(journal)
               PROVE  ClearWay'
    BY DEF Rename, ClearWay, Pending
  <1>1. p \in todo /\ pc \in {"apply", "undo"}
    BY KindsAssumption DEF Rename, Safe, TypeOK
  <1>2. \A r \in journal.changes : p \notin Above[r]
    BY <1>1, StepClear
  <1>3. tree' = [tree EXCEPT ![p] = Target(p)]
    BY DEF Rename, CanRename, Safe, StepInv
  <1>4. Target(p) \in {journal.before[p], journal.after[p]}
    BY DEF Target
  <1>5. phase' = "next" /\ UNCHANGED <<base, journal, disturbed>>
    BY DEF Rename, StepDone
  <1> QED
    BY <1>2, <1>3, <1>4, <1>5, NamesAssumption
       DEF ClearWay, Pending, ParentsReal, FolderBecomesFile, Safe, TypeOK, Transfers

LEMMA ClearUndo ==
    ASSUME Safe, JournalInv, ClearWay, NEW p \in Paths, Undo(p)
    PROVE  ClearWay'
  <1>1. CASE AlreadyUndone(p) \/ LeaveStuck(p)
    BY <1>1, ClearKept DEF AlreadyUndone, LeaveStuck, StepDone, Pending
  <1>2. CASE StartUndo(p)
    BY <1>2
       DEF StartUndo, Undoable, ClearWay, Pending, ParentsReal, FolderBecomesFile, Target
  <1> QED
    BY <1>1, <1>2 DEF Undo

LEMMA ClearEdit ==
    ASSUME Safe, Edit
    PROVE  ClearWay'
  BY DEF Edit, DeleteFile, DeleteFolder, WriteIgnored, WriteFile, Editing, ClearWay, Pending

LEMMA ClearNext ==
    ASSUME Safe, JournalInv, ClearWay, [Next]_vars
    PROVE  ClearWay'
  <1>1. CASE UNCHANGED vars
    BY <1>1, ClearKept DEF vars, Pending
  <1>2. CASE Push
    BY <1>2, KindsAssumption, ClearKept DEF Push, PlanFrom, Pending, Safe, TypeOK
  <1>3. CASE StartRecovery
    BY <1>3, ClearKept DEF StartRecovery, Recover, Pending
  <1>4. CASE Progress
    <2>1. CASE Refuse \/ ApplyBlocked \/ StartSweep
      BY <2>1, KindsAssumption, ClearKept
         DEF Refuse, ApplyBlocked, Recover, StartSweep, Pending, Safe, TypeOK
    <2>2. CASE RecordBaseline \/ Commit \/ Finished \/ Sweep
      <3>1. UNCHANGED <<tree, phase, path, disturbed>> /\ phase = "next"
        BY <2>2, KindsAssumption DEF RecordBaseline, Commit, Finished, Sweep, Safe, TypeOK
      <3>2. Pending' => Pending /\ journal' = journal
        BY <2>2, KindsAssumption
           DEF RecordBaseline, Commit, Finished, Sweep, Safe, TypeOK, JournalInv, Pending
      <3> QED
        BY <3>1, <3>2, ClearKept
    <2>3. ASSUME NEW p \in Paths, Apply(p) \/ Undo(p)
          PROVE  ClearWay'
      BY <2>3, ClearBackUp, ClearRemove, ClearPrune, ClearCopied, ClearRename, ClearUndo
         DEF Apply
    <2> QED
      BY <1>4, <2>1, <2>2, <2>3, ClearBegin DEF Progress
  <1>5. CASE Failure
    <2>1. CASE ApplyFails \/ CommitFailsLate \/ Crash
      BY <2>1, ClearKept DEF ApplyFails, CommitFailsLate, Recover, Crash, Pending
    <2>2. ASSUME NEW p \in Paths, SpoilStage(p)
          PROVE  ClearWay'
      BY <2>2, ClearKept DEF SpoilStage, Pending
    <2>3. ASSUME NEW p \in Paths, UndoFails(p)
          PROVE  ClearWay'
      BY <2>3, ClearKept DEF UndoFails, StepDone, Pending
    <2> QED
      BY <1>5, <2>1, <2>2, <2>3 DEF Failure
  <1>6. CASE Edit
    BY <1>6, ClearEdit
  <1> QED
    BY <1>1, <1>2, <1>3, <1>4, <1>5, <1>6 DEF Next, System

(***************************************************************************)
(* StuckInv: an undisturbed recovery always finds a way to undo the step   *)
(* at hand.                                                                *)
(***************************************************************************)
LEMMA StuckInit == Init => StuckInv
  BY DEF Init, StuckInv, StuckOnlyIfDisturbed

LEMMA StuckKept ==
    ASSUME Safe, StuckInv,
           \/ stuck' = {}
           \/ UNCHANGED <<stuck, journal, pc>> /\ (disturbed => disturbed')
    PROVE  StuckInv'
  BY DEF StuckInv, StuckOnlyIfDisturbed, FolderBecomesFile

LEMMA StuckLeave ==
    ASSUME Safe, JournalInv, RestoreInv, ClearWay, StuckInv,
           NEW p \in Paths, LeaveStuck(p)
    PROVE  StuckInv'
  <1>1. pc = "undo" /\ Pending /\ p \in todo
    BY KindsAssumption DEF LeaveStuck, NextStep, JournalInv, Safe, TypeOK
  <1>2. ASSUME ~disturbed, ~FolderBecomesFile(journal)
        PROVE  FALSE
    <2>1. /\ ParentsReal(p) /\ tree[p] # Dir /\ p \in journal.changes
          /\ tree[p] \in {journal.before[p], journal.after[p]}
      BY <1>1, <1>2, StepClear
    <2>2. ~NotUndoable(p)
      <3>1. \/ Files(tree)[p] = journal.before[p] \/ journal.before[p] = Absent
            \/ backup[p] = journal.before[p]
        BY <1>1, <1>2, <2>1 DEF RestoreInv
      <3>2. Files(tree)[p] = tree[p]
        BY <2>1 DEF Files
      <3> QED
        BY <2>1, <3>1, <3>2 DEF NotUndoable, Undoable
    <2>3. ~Blocked(p)
      BY <1>1, <1>2, <2>1 DEF Blocked, CanRename, ClearWay
    <2> QED
      BY <2>2, <2>3 DEF LeaveStuck
  <1> QED
    BY <1>1, <1>2 DEF LeaveStuck, StuckInv, StuckOnlyIfDisturbed, FolderBecomesFile

LEMMA StuckNext ==
    ASSUME Safe, JournalInv, RestoreInv, ClearWay, StuckInv, [Next]_vars
    PROVE  StuckInv'
  <1>1. CASE UNCHANGED vars
    BY <1>1, StuckKept DEF vars
  <1>2. CASE Push
    BY <1>2 DEF Push, PlanFrom, StuckInv, StuckOnlyIfDisturbed
  <1>3. CASE StartRecovery
    BY <1>3, StuckKept DEF StartRecovery, Recover
  <1>4. CASE Progress
    <2>1. CASE RecordBaseline \/ Refuse \/ Commit \/ Finished
      BY <2>1
         DEF RecordBaseline, Refuse, Commit, Finished, StuckInv, StuckOnlyIfDisturbed
    <2>2. CASE WriteJournal \/ ApplyBlocked \/ Sweep
      BY <2>2, StuckKept DEF WriteJournal, ApplyBlocked, Recover, Sweep
    <2>3. CASE StartSweep
      BY <2>3 DEF StartSweep, StuckInv, StuckOnlyIfDisturbed, FolderBecomesFile
    <2>4. ASSUME NEW p \in Paths, Apply(p)
          PROVE  StuckInv'
      BY <2>4, StuckKept
         DEF Apply, BackUp, Remove, Prune, CopyIn, Rename, CopySpoiled, Recover
    <2>5. ASSUME NEW p \in Paths, Undo(p)
          PROVE  StuckInv'
      BY <2>5, StuckKept, StuckLeave DEF Undo, AlreadyUndone, StartUndo
    <2> QED
      BY <1>4, <2>1, <2>2, <2>3, <2>4, <2>5 DEF Progress
  <1>5. CASE Failure
    <2>1. CASE ApplyFails \/ CommitFailsLate \/ Crash
      BY <2>1, StuckKept DEF ApplyFails, CommitFailsLate, Recover, Crash
    <2>2. ASSUME NEW p \in Paths, SpoilStage(p)
          PROVE  StuckInv'
      BY <2>2, StuckKept DEF SpoilStage
    <2>3. ASSUME NEW p \in Paths, UndoFails(p)
          PROVE  StuckInv'
      BY <2>3 DEF UndoFails, StuckInv, StuckOnlyIfDisturbed
    <2> QED
      BY <1>5, <2>1, <2>2, <2>3 DEF Failure
  <1>6. CASE Edit
    BY <1>6, StuckKept
       DEF Edit, DeleteFile, DeleteFolder, WriteIgnored, WriteFile, Editing
  <1> QED
    BY <1>1, <1>2, <1>3, <1>4, <1>5, <1>6 DEF Next, System

\* Wherever the process dies, and however often, a recovery gives a path up only if
\* somebody edited the project or an operation failed after the journal was written, or
\* if a file was replacing a folder (sync.rs recover, undo_step).
THEOREM NeverStuckUndisturbed == Spec => []StuckOnlyIfDisturbed
  <1>1. StuckInv => StuckOnlyIfDisturbed
    BY DEF StuckInv
  <1>2. Safe /\ JournalInv /\ RestoreInv /\ [Next]_vars => RestoreInv'
    BY RestoreNext
  <1>3. Safe /\ JournalInv /\ ClearWay /\ [Next]_vars => ClearWay'
    BY ClearNext
  <1>4. Safe /\ JournalInv /\ RestoreInv /\ ClearWay /\ StuckInv /\ [Next]_vars => StuckInv'
    BY StuckNext
  <1> QED
    BY <1>1, <1>2, <1>3, <1>4, RestoreInit, ClearInit, StuckInit, SafeAlways, JournalAlways,
       PTL
       DEF Spec

-----------------------------------------------------------------------------
(***************************************************************************)
(* ProgressInv, action by action.                                          *)
(***************************************************************************)
LEMMA ProgressInit == Init => ProgressInv
  BY DEF Init, ProgressInv, Holding

LEMMA ProgressPush ==
    ASSUME Safe, Push
    PROVE  ProgressInv'
  BY DEF Push, PlanFrom, Safe, TypeOK, ProgressInv

LEMMA ProgressWriteJournal ==
    ASSUME Safe, JournalInv, ProgressInv, WriteJournal
    PROVE  ProgressInv'
  BY KindsAssumption
     DEF WriteJournal, Safe, TypeOK, JournalInv, ProgressInv, Pending,
         Holding

LEMMA ProgressRecordBaseline ==
    ASSUME Safe, JournalInv, ProgressInv, RecordBaseline
    PROVE  ProgressInv'
  BY KindsAssumption
     DEF RecordBaseline, Safe, TypeOK, JournalInv, ProgressInv, Pending,
         Holding

LEMMA ProgressRefuse ==
    ASSUME Safe, JournalInv, ProgressInv, Refuse
    PROVE  ProgressInv'
  BY KindsAssumption
     DEF Refuse, Safe, TypeOK, JournalInv, ProgressInv, Pending,
         Holding

LEMMA ProgressCommit ==
    ASSUME Safe, JournalInv, ProgressInv, Commit
    PROVE  ProgressInv'
  BY KindsAssumption
     DEF Commit, Safe, TypeOK, JournalInv, ProgressInv, Pending,
         Holding

LEMMA ProgressFinished ==
    ASSUME Safe, JournalInv, ProgressInv, Finished
    PROVE  ProgressInv'
  BY KindsAssumption
     DEF Finished, Safe, TypeOK, JournalInv, ProgressInv, Pending,
         Holding

LEMMA ProgressApplyBlocked ==
    ASSUME Safe, JournalInv, ProgressInv, ApplyBlocked
    PROVE  ProgressInv'
  BY KindsAssumption
     DEF ApplyBlocked, Recover, Committed, Safe, TypeOK, JournalInv, ProgressInv, Pending,
         Holding

LEMMA ProgressApplyFails ==
    ASSUME Safe, JournalInv, ProgressInv, ApplyFails
    PROVE  ProgressInv'
  BY KindsAssumption
     DEF ApplyFails, Recover, Committed, Safe, TypeOK, JournalInv, ProgressInv, Pending,
         Holding

LEMMA ProgressCommitFailsLate ==
    ASSUME Safe, JournalInv, ProgressInv, CommitFailsLate
    PROVE  ProgressInv'
  BY KindsAssumption
     DEF CommitFailsLate, Recover, Committed, Safe, TypeOK, JournalInv, ProgressInv, Pending,
         Holding

LEMMA ProgressStartRecovery ==
    ASSUME Safe, JournalInv, ProgressInv, StartRecovery
    PROVE  ProgressInv'
  BY KindsAssumption
     DEF StartRecovery, Recover, Committed, Safe, TypeOK, JournalInv, ProgressInv, Pending,
         Holding

LEMMA ProgressStartSweep ==
    ASSUME Safe, JournalInv, ProgressInv, StartSweep
    PROVE  ProgressInv'
  BY KindsAssumption
     DEF StartSweep, Safe, TypeOK, JournalInv, ProgressInv, Pending,
         Holding

LEMMA ProgressSweep ==
    ASSUME Safe, JournalInv, ProgressInv, Sweep
    PROVE  ProgressInv'
  BY KindsAssumption
     DEF Sweep, Safe, TypeOK, JournalInv, ProgressInv, Pending,
         Holding

LEMMA ProgressCrash ==
    ASSUME Safe, JournalInv, ProgressInv, Crash
    PROVE  ProgressInv'
  BY KindsAssumption
     DEF Crash, Safe, TypeOK, JournalInv, ProgressInv, Pending,
         Holding

LEMMA ProgressBackUp ==
    ASSUME Safe, JournalInv, ProgressInv, NEW p \in Paths, BackUp(p)
    PROVE  ProgressInv'
  BY KindsAssumption
     DEF BackUp, Transfers, Safe, TypeOK, JournalInv, ProgressInv, Pending,
         Holding

LEMMA ProgressRemove ==
    ASSUME Safe, JournalInv, ProgressInv, NEW p \in Paths, Remove(p)
    PROVE  ProgressInv'
  BY KindsAssumption, FilesRemoved
     DEF Remove, Transfers, Files, Safe, TypeOK, JournalInv, ProgressInv, Pending,
         Holding

LEMMA ProgressPrune ==
    ASSUME Safe, JournalInv, ProgressInv, NEW p \in Paths, Prune(p)
    PROVE  ProgressInv'
  BY KindsAssumption, FilesPruned
     DEF Prune, StepInv, Target, StepDone, Transfers, Safe, TypeOK, JournalInv, ProgressInv, Pending,
         Holding

LEMMA ProgressCopyIn ==
    ASSUME Safe, JournalInv, ProgressInv, NEW p \in Paths, CopyIn(p)
    PROVE  ProgressInv'
  BY KindsAssumption, FilesCopied
     DEF CopyIn, Transfers, Safe, TypeOK, JournalInv, ProgressInv, Pending,
         Holding

LEMMA ProgressRename ==
    ASSUME Safe, JournalInv, ProgressInv, NEW p \in Paths, Rename(p)
    PROVE  ProgressInv'
  <1>1. /\ p = path /\ p \in todo /\ todo' = todo \ {p} /\ phase' = "next"
        /\ pc \in {"apply", "undo"}
        /\ UNCHANGED <<journal, stuck, pc>>
    BY KindsAssumption DEF Rename, StepDone, Safe, TypeOK
  <1>2. /\ Files(tree')[p] = Target(p)
        /\ \A q \in Paths \ {p} : Files(tree')[q] = Files(tree)[q]
    BY FilesRenamed DEF Files
  <1>3. journal.changes \subseteq Paths
    BY <1>1, KindsAssumption DEF Safe, TypeOK, Transfers
  <1> QED
    BY <1>1, <1>2, <1>3 DEF ProgressInv, Holding, Target

LEMMA ProgressCopySpoiled ==
    ASSUME Safe, JournalInv, ProgressInv, NEW p \in Paths, CopySpoiled(p)
    PROVE  ProgressInv'
  BY KindsAssumption, FilesCopied
     DEF CopySpoiled, Recover, Committed, Safe, TypeOK, JournalInv, ProgressInv, Pending,
         Holding

LEMMA ProgressAlreadyUndone ==
    ASSUME Safe, JournalInv, ProgressInv, NEW p \in Paths, AlreadyUndone(p)
    PROVE  ProgressInv'
  BY KindsAssumption
     DEF AlreadyUndone, StepDone, Files, Safe, TypeOK, JournalInv, ProgressInv, Pending,
         Holding

LEMMA ProgressStartUndo ==
    ASSUME Safe, JournalInv, ProgressInv, NEW p \in Paths, StartUndo(p)
    PROVE  ProgressInv'
  BY KindsAssumption
     DEF StartUndo, Safe, TypeOK, JournalInv, ProgressInv, Pending,
         Holding

LEMMA ProgressLeaveStuck ==
    ASSUME Safe, JournalInv, ProgressInv, NEW p \in Paths, LeaveStuck(p)
    PROVE  ProgressInv'
  BY KindsAssumption
     DEF LeaveStuck, StepDone, Blocked, Safe, TypeOK, JournalInv, ProgressInv, Pending,
         Holding

LEMMA ProgressUndoFails ==
    ASSUME Safe, JournalInv, ProgressInv, NEW p \in Paths, UndoFails(p)
    PROVE  ProgressInv'
  BY KindsAssumption
     DEF UndoFails, StepDone, Safe, TypeOK, JournalInv, ProgressInv, Pending,
         Holding

LEMMA ProgressSpoilStage ==
    ASSUME Safe, JournalInv, ProgressInv, NEW p \in Paths, SpoilStage(p)
    PROVE  ProgressInv'
  BY KindsAssumption
     DEF SpoilStage, Safe, TypeOK, JournalInv, ProgressInv, Pending,
         Holding

LEMMA ProgressEdit ==
    ASSUME Safe, ProgressInv, Edit, ~EditsWhileApplying
    PROVE  ProgressInv'
  <1>1. pc \in {"idle", "planned"} /\ UNCHANGED <<pc, phase, path>>
    BY DEF Edit, DeleteFile, DeleteFolder, WriteIgnored, WriteFile, Editing
  <1> QED
    BY <1>1 DEF Safe, TypeOK, ProgressInv, Holding

LEMMA ProgressNext ==
    ASSUME Safe, JournalInv, ProgressInv, [Next]_vars, ~EditsWhileApplying
    PROVE  ProgressInv'
  <1>1. CASE UNCHANGED vars
    BY <1>1 DEF vars, ProgressInv, Pending, Holding
  <1>2. CASE Push
    BY <1>2, ProgressPush
  <1>3. CASE StartRecovery
    BY <1>3, ProgressStartRecovery
  <1>4. CASE Progress
    <2>1. ASSUME NEW p \in Paths, Apply(p)
          PROVE  ProgressInv'
      BY <2>1, ProgressBackUp, ProgressRemove, ProgressPrune, ProgressCopyIn,
         ProgressRename, ProgressCopySpoiled
         DEF Apply
    <2>2. ASSUME NEW p \in Paths, Undo(p)
          PROVE  ProgressInv'
      BY <2>2, ProgressAlreadyUndone, ProgressStartUndo, ProgressLeaveStuck DEF Undo
    <2> QED
      BY <1>4, <2>1, <2>2, ProgressRecordBaseline, ProgressRefuse, ProgressWriteJournal,
         ProgressCommit, ProgressFinished, ProgressApplyBlocked, ProgressStartSweep,
         ProgressSweep
         DEF Progress
  <1>5. CASE Failure
    BY <1>5, ProgressApplyFails, ProgressCommitFailsLate, ProgressCrash,
       ProgressSpoilStage, ProgressUndoFails
       DEF Failure
  <1>6. CASE Edit
    BY <1>6, ProgressEdit
  <1> QED
    BY <1>1, <1>2, <1>3, <1>4, <1>5, <1>6 DEF Next, System

(***************************************************************************)
(* What the three invariants give when no edit falls between the steps of  *)
(* apply or recover.                                                       *)
(***************************************************************************)
Whole == Safe /\ JournalInv /\ ProgressInv

LEMMA WholeAlways ==
    ASSUME ~EditsWhileApplying
    PROVE  Spec => []Whole
  <1>1. Safe /\ JournalInv /\ ProgressInv /\ [Next]_vars => ProgressInv'
    BY ProgressNext
  <1> QED
    BY <1>1, ProgressInit, SafeAlways, JournalAlways, PTL DEF Spec, Whole

\* A reported rollback left every path as it was or, after the commit point, as the
\* transfer wanted it: never a mixture (sync.rs apply, its error path).
THEOREM RollbacksAreWhole ==
    ASSUME ~EditsWhileApplying
    PROVE  Spec => RolledBackIsWhole
  <1>1. ASSUME Whole, [Next]_vars, pc = "sweep", outcome' = "rolledBack"
        PROVE  \/ Holding(journal.changes, journal.before)
               \/ base = journal.baseline /\ Holding(journal.changes, journal.after)
    <2>1. journal # None /\ outcome \in {"failing", "recovering"} /\ plan = None
      BY <1>1 DEF Whole, Safe, TypeOK
    <2>2. Sweep
      <3>1. ~UNCHANGED vars
        BY <1>1, <2>1 DEF vars
      <3>2. ~Push /\ ~StartRecovery /\ ~Edit /\ ~Failure
        BY <1>1 DEF Push, PlanFrom, StartRecovery, Edit, Editing, WriteFile, DeleteFile,
             DeleteFolder, WriteIgnored, Failure, ApplyFails, CommitFailsLate, Crash,
             SpoilStage, UndoFails
      <3>3. ASSUME NEW p \in Paths
            PROVE  ~Apply(p) /\ ~Undo(p)
        BY <1>1, <2>1
           DEF Apply, BackUp, Remove, Prune, CopyIn, Rename, CopySpoiled, Undo,
               AlreadyUndone, StartUndo, LeaveStuck
      <3> QED
        BY <1>1, <3>1, <3>2, <3>3
           DEF Next, System, Progress, RecordBaseline, Refuse, WriteJournal, Commit,
               Finished, ApplyBlocked, StartSweep
    <2>3. stuck = {} /\ outcome = "failing"
      BY <1>1, <2>1, <2>2 DEF Sweep
    <2> QED
      BY <1>1, <2>1, <2>3 DEF Whole, ProgressInv, Pending, Holding
  <1> QED
    BY <1>1, WholeAlways, PTL DEF Spec, RolledBackIsWhole

(***************************************************************************)
(* Every step maps to a step of AtomicSync or leaves what it sees alone.   *)
(***************************************************************************)
Mapped == Promised \in Manifest /\ Baseline \in Manifest

LEMMA MappedType == Safe => Mapped
  <1> SUFFICES ASSUME Safe PROVE Mapped
    OBVIOUS
  <1>1. Files(tree) \in Manifest
    BY FilesType DEF Safe, TypeOK, NeverBroken
  <1>2. Pending => journal.before \in Manifest
    BY DEF Safe, TypeOK, Pending, Transfers
  <1> QED
    BY <1>1, <1>2, MergeType, BaselineType DEF Mapped, Promised, Safe

Unseen == UNCHANGED <<Promised, Baseline, edits>>

LEMMA FilesKept ==
    ASSUME Files(tree') = Files(tree), UNCHANGED <<journal, base, edits>>
    PROVE  Unseen
  BY DEF Unseen, Promised, Pending, Baseline

LEMMA OnlyPathChanges ==
    ASSUME Whole, NEW p \in Paths, Remove(p) \/ Rename(p)
    PROVE  Unseen
  <1>1. /\ p \in journal.changes /\ Pending
        /\ UNCHANGED <<journal, base, edits>>
    BY KindsAssumption DEF Whole, Safe, TypeOK, JournalInv, Remove, Rename
  <1>2. \A q \in Paths \ {p} : Files(tree')[q] = Files(tree)[q]
    BY FilesRemoved, FilesRenamed DEF Files, Whole, Safe
  <1> QED
    BY <1>1, <1>2 DEF Unseen, Promised, Pending, Baseline, Merge

LEMMA BeginsUnseen ==
    ASSUME Whole, WriteJournal
    PROVE  Unseen
  <1>1. /\ plan \in Transfers /\ journal = None
        /\ journal' = plan /\ UNCHANGED <<tree, base, edits>>
    BY KindsAssumption DEF Whole, Safe, TypeOK, JournalInv, WriteJournal
  <1>2. \A p \in plan.changes : Files(tree)[p] = plan.before[p]
    BY <1>1, VerifiedUntouched DEF WriteJournal
  <1>3. Promised = Files(tree) /\ Baseline' = Baseline
    BY <1>1 DEF Promised, Pending, Baseline
  <1>4. Merge(Files(tree), plan.changes, plan.before) = Files(tree)
    BY <1>2 DEF Merge, Files
  <1> QED
    BY <1>1, <1>3, <1>4 DEF Unseen, Promised, Pending

LEMMA EndsUnseen ==
    ASSUME Whole, Sweep \/ Finished
    PROVE  Unseen
  <1>1. UNCHANGED <<tree, base, edits>> /\ journal' \in {None, journal}
    BY DEF Sweep, Finished
  <1>2. CASE journal' = journal
    BY <1>1, <1>2, FilesKept
  <1>3. CASE journal' = None
    <2>1. Pending => Holding(journal.changes, journal.before)
      BY <1>3 DEF Whole, Safe, TypeOK, JournalInv, ProgressInv, Pending, Holding, Sweep,
                  Finished
    <2>2. Promised = Files(tree)
      BY <2>1 DEF Promised, Holding, Merge, Files
    <2> QED
      BY <1>1, <1>3, <2>2 DEF Unseen, Promised, Pending, Baseline
  <1> QED
    BY <1>1, <1>2, <1>3

LEMMA PushPlans ==
    ASSUME Push
    PROVE  Atomic!Plan
  BY DEF Push, PlanFrom, Atomic!Plan, Promised, Pending, Baseline

LEMMA GivingUpDrops ==
    ASSUME Unseen, seen' = Empty
    PROVE  Atomic!Drop
  BY DEF Unseen, Atomic!Drop, Atomic!Empty, Empty

LEMMA CommitTransfers ==
    ASSUME Whole, Mapped', Commit \/ CommitFailsLate
    PROVE  Atomic!Transfer
  <1>1. /\ UNCHANGED <<tree, journal, edits>> /\ base' = journal.baseline
        /\ pc = "apply" /\ todo = {} /\ seen' = Empty
    BY DEF Commit, CommitFailsLate, Recover
  <1>2. /\ Promised' = Files(tree) /\ Baseline' = journal.baseline
        /\ Promised = Merge(Files(tree), journal.changes, journal.before)
    BY <1>1, KindsAssumption
       DEF Whole, JournalInv, Safe, TypeOK, Promised, Pending, Baseline, Transfers
  <1>3. Promised' \in Manifest /\ Baseline' \in Manifest
    BY DEF Mapped
  <1>4. \A p \in journal.changes : Files(tree)[p] = journal.after[p]
    BY <1>1 DEF Whole, ProgressInv, Holding
  <1>5. WellPlanned(journal, Baseline) /\ Recorded(journal)
    BY <1>1 DEF Whole, JournalInv
  <1>6. ASSUME NEW p \in Paths
        PROVE  IF Promised'[p] # Promised[p]
               THEN Promised[p] = Baseline[p] /\ Baseline'[p] = Promised'[p]
               ELSE Baseline'[p] \in {Baseline[p], seen[p]}
    <2>1. CASE p \in journal.changes
      BY <2>1, <1>2, <1>4, <1>5 DEF WellPlanned, Merge
    <2>2. CASE p \notin journal.changes
      BY <2>2, <1>2, <1>5 DEF Recorded, Merge, Files
    <2> QED
      BY <2>1, <2>2
  <1> QED
    BY <1>1, <1>3, <1>6
       DEF Atomic!Transfer, Atomic!Manifest, Atomic!Value, Atomic!Empty, Manifest, Value,
           Empty

LEMMA RecordTransfers ==
    ASSUME Whole, Mapped', RecordBaseline
    PROVE  Atomic!Transfer
  <1>1. /\ UNCHANGED <<tree, journal, edits>> /\ journal = None /\ seen' = Empty
        /\ plan # None /\ plan.changes = {}
    BY DEF RecordBaseline, Whole, Safe, TypeOK, JournalInv
  <1>2. Promised' = Promised
    BY <1>1 DEF Promised, Pending
  <1>3. Promised' \in Manifest /\ Baseline' \in Manifest
    BY DEF Mapped
  <1>4. Baseline' = plan.baseline
    BY <1>1, KindsAssumption DEF RecordBaseline, Baseline, Whole, Safe, TypeOK, Transfers
  <1>5. Recorded(plan)
    BY <1>1 DEF Whole, JournalInv
  <1>6. \A p \in Paths : Baseline'[p] \in {Baseline[p], seen[p]}
    BY <1>1, <1>4, <1>5 DEF Recorded
  <1> QED
    BY <1>1, <1>2, <1>3, <1>6
       DEF Atomic!Transfer, Atomic!Manifest, Atomic!Value, Atomic!Empty, Manifest, Value,
           Empty

LEMMA EditEdits ==
    ASSUME Mapped', Edit
    PROVE  Atomic!Edit
  <1>1. edits' = edits + 1 /\ UNCHANGED <<base, seen>>
    BY DEF Edit, DeleteFile, DeleteFolder, WriteIgnored, WriteFile, Editing
  <1>2. Promised' \in Manifest
    BY DEF Mapped
  <1> QED
    BY <1>1, <1>2 DEF Atomic!Edit, Atomic!Manifest, Atomic!Value, Manifest, Value, Baseline

LEMMA EachStepMaps ==
    ASSUME Whole, Mapped', [Next]_vars
    PROVE  Atomic!Next \/ (Unseen /\ UNCHANGED seen)
  <1>1. CASE UNCHANGED vars
    BY <1>1, FilesKept DEF vars
  <1>2. CASE Push
    BY <1>2, PushPlans DEF Atomic!Next
  <1>3. CASE StartRecovery
    BY <1>3, FilesKept, GivingUpDrops DEF StartRecovery, Recover, Atomic!Next
  <1>4. CASE Progress
    <2>1. ASSUME NEW p \in Paths, Apply(p) \/ Undo(p)
          PROVE  Unseen /\ seen' \in {seen, Empty}
      <3>1. CASE Remove(p) \/ Rename(p)
        BY <3>1, OnlyPathChanges DEF Remove, Rename
      <3>2. CASE Prune(p) \/ CopyIn(p) \/ CopySpoiled(p)
        BY <3>2, FilesKept, FilesPruned, FilesCopied
           DEF Whole, Safe, Prune, CopyIn, CopySpoiled, Recover
      <3>3. CASE BackUp(p) \/ Undo(p)
        BY <3>3, FilesKept DEF BackUp, Undo, AlreadyUndone, StartUndo, LeaveStuck
      <3> QED
        BY <2>1, <3>1, <3>2, <3>3 DEF Apply
    <2>2. CASE Refuse \/ ApplyBlocked \/ StartSweep
      BY <2>2, FilesKept, GivingUpDrops
         DEF Refuse, ApplyBlocked, Recover, StartSweep, Atomic!Next
    <2>3. CASE WriteJournal \/ Sweep \/ Finished
      BY <2>3, BeginsUnseen, EndsUnseen DEF WriteJournal, Sweep, Finished
    <2> QED
      BY <1>4, <2>1, <2>2, <2>3, GivingUpDrops, CommitTransfers, RecordTransfers
         DEF Progress, Atomic!Next
  <1>5. CASE Failure
    BY <1>5, FilesKept, GivingUpDrops, CommitTransfers
       DEF Failure, ApplyFails, Recover, Crash, SpoilStage, UndoFails, Atomic!Next
  <1>6. CASE Edit
    BY <1>6, EditEdits DEF Atomic!Next
  <1> QED
    BY <1>1, <1>2, <1>3, <1>4, <1>5, <1>6 DEF Next, System

LEMMA FirstStateMaps == Init => Atomic!Init
  <1> SUFFICES ASSUME Init PROVE Atomic!Init
    OBVIOUS
  <1>1. Promised \in Manifest /\ Baseline \in Manifest
    BY SafeInit, MappedType DEF Mapped
  <1> QED
    BY <1>1
       DEF Init, Atomic!Init, Atomic!Manifest, Atomic!Value, Atomic!Empty, Manifest, Value,
           Empty

\* Through crashes, failures, rollbacks and recoveries a transfer is one indivisible
\* step that replaces only what both machines last agreed on (sync.rs apply, recover).
THEOREM TransfersAreAtomic ==
    ASSUME ~EditsWhileApplying
    PROVE  Spec => AppliedAtomically
  <1>1. Whole /\ Mapped' /\ [Next]_vars => [Atomic!Next]_(Atomic!vars)
    BY EachStepMaps DEF Unseen, Atomic!vars
  <1>2. Whole => Mapped
    BY MappedType DEF Whole
  <1> QED
    BY <1>1, <1>2, WholeAlways, FirstStateMaps, PTL DEF Spec, AppliedAtomically, Atomic!Spec
=============================================================================
