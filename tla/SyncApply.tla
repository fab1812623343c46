----------------------------- MODULE SyncApply ------------------------------
(***************************************************************************)
(* The receiver's side of one project's synchronization: planning against  *)
(* the baseline file, the checks before anything is touched, the journal,  *)
(* the step by step replacement of files, the commit, and the recovery of  *)
(* an interrupted or failed transfer (crates/slingshot-core/src/sync.rs,   *)
(* driven by crates/slingshot-agent/src/projects.rs, begin and finish).    *)
(*                                                                         *)
(* The process may crash between any two file system operations, any       *)
(* operation may fail, and people or tools edit the project while it is    *)
(* synchronized. Transfers of one project never overlap: the project lock  *)
(* (module RunWork) sees to that.                                          *)
(***************************************************************************)
EXTENDS ThreeWay, Naturals

CONSTANTS
    Dir,       \* what a path holds when it is a folder
    Broken,    \* content no manifest describes: half written or tampered with
    NoFile,    \* baseline.json does not exist
    None,      \* no journal, no plan, no path
    Above,     \* Above[p]: the paths that are folders on the way to p
    Rank,      \* the order of names
    EditsWhileApplying,  \* whether edits may fall between two steps of apply
    MaxSyncs, MaxEdits, MaxFaults  \* bounds on transfers, edits and failures

\* A transfer: the paths it changes, what they hold before and after it, and the
\* baseline it records.
Transfers == [changes : SUBSET Paths, before : Manifest, after : Manifest,
              baseline : Manifest]

ASSUME KindsAssumption ==
    /\ Dir \notin Value /\ Broken \notin Value /\ Dir # Broken
    /\ NoFile \notin Manifest
    /\ None \notin Paths /\ None \notin Transfers
ASSUME NamesAssumption ==
    /\ Above \in [Paths -> SUBSET Paths]
    /\ \A p \in Paths : \A q \in Above[p] : Above[q] \subseteq Above[p]
    /\ Rank \in [Paths -> Nat]
    /\ \A p, q \in Paths : p # q => Rank[p] # Rank[q]
ASSUME BoundsAssumption ==
    /\ EditsWhileApplying \in BOOLEAN
    /\ MaxSyncs \in Nat /\ MaxEdits \in Nat /\ MaxFaults \in Nat

VARIABLES
    tree,      \* what each path of the project holds on disk
    ignored,   \* folders that also hold files no manifest lists
    temps,     \* the partial file beside each path, Absent when there is none
    base,      \* baseline.json
    journal,   \* journal.json
    backup,    \* the backup folder of the current transfer
    plan,      \* a transfer planned and staged but not yet checked
    seen,      \* the receiver's manifest that transfer was planned with
    spoiled,   \* staged files whose content is not what the plan says
    pc,        \* where the process stands, "idle" between transfers
    phase,     \* the operation of apply_step or undo_step that comes next
    path,      \* the path that operation works on
    todo,      \* steps not yet taken
    stuck,     \* steps this recovery could not undo
    outcome,   \* what the last transfer or recovery reported
    syncs, edits, faults,  \* how much of each bound is used
    disturbed  \* history: an edit or a failure since the journal was written

files   == <<tree, ignored, temps>>
state   == <<base, journal, backup>>
process == <<plan, seen, spoiled, pc, phase, path, todo, stuck, outcome>>
bounds  == <<syncs, edits, faults, disturbed>>
vars    == <<files, state, process, bounds>>

-----------------------------------------------------------------------------
(* The file system *)

\* A manifest lists files and links; a folder is not an entry of its own.
Files(t) == [p \in Paths |-> IF t[p] = Dir THEN Absent ELSE t[p]]

WellNested(m) == \A p \in Paths : m[p] # Absent => \A q \in Above[p] : m[q] = Absent

\* storage::safe_path: every level that exists on the way to p is a folder.
ParentsReal(p) == \A q \in Above[p] : tree[q] \in {Dir, Absent}

\* storage::create_parents
WithParents(t, p) == [q \in Paths |-> IF q \in Above[p] THEN Dir ELSE t[q]]

\* remove_empty_parents: folders above p, upwards, until one still holds something.
Emptied(p) ==
    LET empty(q) ==
            /\ tree[q] = Dir /\ q \notin ignored
            /\ \A r \in Paths : q \in Above[r] =>
                   temps[r] = Absent /\ (tree[r] = Absent \/ r \in Above[p])
    IN {q \in Above[p] : \A r \in Above[p] : r = q \/ q \in Above[r] => empty(r)}

\* StateDir::baseline: a missing file reads as the empty manifest.
Baseline == IF base = NoFile THEN Empty ELSE base

Only(names, m) == Merge(Empty, names, m)

-----------------------------------------------------------------------------
Init ==
    /\ tree = Empty /\ ignored = {} /\ temps = Empty
    /\ base = NoFile /\ journal = None /\ backup = Empty
    /\ plan = None /\ seen = Empty /\ spoiled = {}
    /\ pc = "idle" /\ phase = "next" /\ path = None
    /\ todo = {} /\ stuck = {} /\ outcome = "none"
    /\ syncs = 0 /\ edits = 0 /\ faults = 0 /\ disturbed = FALSE

-----------------------------------------------------------------------------
(* Planning and the checks before anything is touched *)

Planned(b, sender, receiver) ==
    LET changes == Changes(b, sender, receiver)
    IN [changes  |-> changes,
        before   |-> Only(changes, receiver),
        after    |-> Only(changes, sender),
        baseline |-> PlanBaseline(b, sender, receiver)]

(***************************************************************************)
(* The rescan, plan and staging of a transfer from a sender whose manifest *)
(* is `sender`, planned against baseline `b`. A conflict stops it.         *)
(***************************************************************************)
PlanFrom(b, sender) ==
    /\ pc = "idle" /\ journal = None /\ syncs < MaxSyncs
    /\ Conflicts(b, sender, Files(tree)) = {}
    /\ plan' = Planned(b, sender, Files(tree)) /\ seen' = Files(tree)
    /\ pc' = "planned" /\ outcome' = "none" /\ spoiled' = {}
    /\ syncs' = syncs + 1
    /\ UNCHANGED <<files, state, phase, path, todo, stuck, edits, faults, disturbed>>

\* A push: the Agent plans against its own baseline file.
Push == \E sender \in {m \in Manifest : WellNested(m)} : PlanFrom(Baseline, sender)

\* The staged copy of p stops matching the plan: a transfer cut short, or a
\* writer that outlived its connection.
SpoilStage(p) ==
    /\ pc \in {"planned", "apply"} /\ faults < MaxFaults
    /\ LET t == IF pc = "planned" THEN plan ELSE journal
       IN p \in t.changes /\ t.after[p] # Absent
    /\ spoiled' = spoiled \cup {p}
    /\ faults' = faults + 1
    /\ disturbed' = (disturbed \/ journal # None)
    /\ UNCHANGED <<files, state, plan, seen, pc, phase, path, todo, stuck, outcome,
                   syncs, edits>>

Deleted(t) == {p \in t.changes : t.after[p] = Absent}

\* A folder the plan empties counts as absent already.
FolderEmptied(t, p) == tree[p] = Dir /\ \E q \in Deleted(t) : p \in Above[q]

\* source::entry, compared with what the plan expects to find.
AsPlanned(t, p) ==
    IF FolderEmptied(t, p)
    THEN t.before[p] = Absent
    ELSE ParentsReal(p) /\ tree[p] # Dir /\ tree[p] = t.before[p]

\* check_parents
ParentsClear(t, p) ==
    \A q \in Above[p] : tree[q] \in {Dir, Absent} \/ q \in Deleted(t)

StagedAsPlanned(t, p) == t.after[p] # Absent => p \notin spoiled

Verified(t) ==
    \A p \in t.changes : AsPlanned(t, p) /\ ParentsClear(t, p) /\ StagedAsPlanned(t, p)

\* Nothing to change: only the baseline is written.
RecordBaseline ==
    /\ pc = "planned" /\ plan.changes = {}
    /\ base' = plan.baseline
    /\ plan' = None /\ seen' = Empty /\ pc' = "idle" /\ outcome' = "applied"
    /\ UNCHANGED <<files, journal, backup, spoiled, phase, path, todo, stuck, bounds>>

Refuse ==
    /\ pc = "planned" /\ ~Verified(plan)
    /\ plan' = None /\ seen' = Empty /\ pc' = "idle" /\ outcome' = "refused"
    /\ UNCHANGED <<files, state, spoiled, phase, path, todo, stuck, bounds>>

\* Everything is checked; the journal goes to disk and a fresh backup folder is used.
WriteJournal ==
    /\ pc = "planned" /\ plan.changes # {} /\ Verified(plan)
    /\ journal' = plan /\ plan' = None
    /\ backup' = Empty
    /\ pc' = "apply" /\ todo' = plan.changes /\ stuck' = {}
    /\ disturbed' = FALSE
    /\ UNCHANGED <<files, base, seen, spoiled, phase, path, outcome, syncs, edits,
                   faults>>

-----------------------------------------------------------------------------
(* Steps: deletions first and children before parents, then writes by name *)

Deletes(p) == journal.after[p] = Absent

Precedes(p, q) ==
    \/ Deletes(p) /\ ~Deletes(q)
    \/ Deletes(p) /\ Deletes(q) /\ Rank[p] > Rank[q]
    \/ ~Deletes(p) /\ ~Deletes(q) /\ Rank[p] < Rank[q]

\* apply takes the first step left, recovery the last one.
NextStep(p) ==
    /\ p \in todo
    /\ \A q \in todo \ {p} : IF pc = "apply" THEN Precedes(p, q) ELSE Precedes(q, p)

\* What the step at hand installs at p, and whether that means removing it.
Target(p) == IF pc = "apply" THEN journal.after[p] ELSE journal.before[p]

\* Mutant of StepDone: the step is forgotten to be struck off the list.
StepRepeated(p) == /\ todo' = todo
                   /\ phase' = "next" /\ path' = None

\* Mutant of StepDone: the path stays set.
StepKeepsPath(p) == /\ todo' = todo \ {p}
                    /\ phase' = "next" /\ path' = path

StepDone(p) == /\ todo' = todo \ {p}
               /\ phase' = "next" /\ path' = None

\* copy_entry can read p, when there is anything to back up.
CanBackUp(p) ==
    ParentsReal(p) /\ (journal.before[p] # Absent => tree[p] \notin {Absent, Dir})

\* Mutant of BackUp: saves what the transfer adds instead of what it replaces.
BackUpAdded(p) ==
    /\ pc = "apply" /\ phase = "next" /\ NextStep(p) /\ CanBackUp(p)
    /\ backup' = IF journal.before[p] # Absent THEN backup
                 ELSE [backup EXCEPT ![p] = journal.after[p]]
    /\ phase' = "install" /\ path' = p
    /\ UNCHANGED <<files, base, journal, plan, seen, spoiled, pc, todo, stuck, outcome,
                   bounds>>

\* apply_step: save what is there now.
BackUp(p) ==
    /\ pc = "apply" /\ phase = "next" /\ NextStep(p) /\ CanBackUp(p)
    /\ backup' = IF journal.before[p] = Absent THEN backup
                 ELSE [backup EXCEPT ![p] = tree[p]]
    /\ phase' = "install" /\ path' = p
    /\ UNCHANGED <<files, base, journal, plan, seen, spoiled, pc, todo, stuck, outcome,
                   bounds>>

\* install without an entry: remove the file,
Remove(p) ==
    /\ phase = "install" /\ path = p /\ Target(p) = Absent
    /\ tree[p] \notin {Absent, Dir}
    /\ tree' = [tree EXCEPT ![p] = Absent]
    /\ phase' = "prune"
    /\ UNCHANGED <<ignored, temps, state, plan, seen, spoiled, pc, path, todo, stuck,
                   outcome, bounds>>

\* then the folders it leaves empty.
Prune(p) ==
    /\ phase = "prune" /\ path = p
    /\ tree' = [q \in Paths |-> IF q \in Emptied(p) THEN Absent ELSE tree[q]]
    /\ StepDone(p)
    /\ UNCHANGED <<ignored, temps, state, plan, seen, spoiled, pc, stuck, outcome,
                   bounds>>

\* What install copies: the staged file, or in a recovery the backup.
Source(p) == IF pc = "undo" THEN backup[p]
             ELSE IF p \in spoiled THEN Broken ELSE journal.after[p]

\* Mutant of CopyVerified: the copy is taken for what was staged when it was checked.
CopyTrusted(p) == TRUE

\* Only content that crossed the network is hashed again once it is copied.
CopyVerified(p) == pc = "undo" \/ Source(p) = Target(p)

\* install with an entry: copy it beside the destination and verify the copy,
CopyIn(p) ==
    /\ phase = "install" /\ path = p /\ Target(p) # Absent
    /\ ParentsReal(p) /\ CopyVerified(p)
    /\ tree' = WithParents(tree, p)
    /\ temps' = [temps EXCEPT ![p] = Source(p)]
    /\ phase' = "rename"
    /\ UNCHANGED <<ignored, state, plan, seen, spoiled, pc, path, todo, stuck, outcome,
                   bounds>>

\* then rename it over the top.
CanRename(p) == temps[p] # Absent /\ tree[p] # Dir

Rename(p) ==
    /\ phase = "rename" /\ path = p /\ CanRename(p)
    /\ tree' = [tree EXCEPT ![p] = temps[p]]
    /\ temps' = [temps EXCEPT ![p] = Absent]
    /\ StepDone(p)
    /\ UNCHANGED <<ignored, state, plan, seen, spoiled, pc, stuck, outcome, bounds>>

\* Mutant of Commit: the baseline goes out before the last steps.
CommitEarly ==
    /\ pc = "apply" /\ phase = "next"
    /\ base' = journal.baseline /\ seen' = Empty
    /\ pc' = "clean" /\ todo' = {}
    /\ UNCHANGED <<files, journal, backup, plan, spoiled, phase, path, stuck, outcome,
                   bounds>>

\* Writing the baseline is the commit point.
Commit ==
    /\ pc = "apply" /\ todo = {}
    /\ base' = journal.baseline /\ seen' = Empty
    /\ pc' = "clean"
    /\ UNCHANGED <<files, journal, backup, plan, spoiled, phase, path, todo, stuck,
                   outcome, bounds>>

Finished ==
    /\ pc = "clean"
    /\ journal' = None /\ pc' = "idle" /\ outcome' = "applied"
    /\ UNCHANGED <<files, base, backup, plan, seen, spoiled, phase, path, todo, stuck,
                   bounds>>

-----------------------------------------------------------------------------
(* Recovery, right after a failed step or before the next transfer *)

Committed(b) == b = journal.baseline

\* Mutant of Recover: undoes only the steps that were still to be taken.
RecoverRest(b) ==
    /\ pc' = IF Committed(b) THEN "sweep" ELSE "undo"
    /\ todo' = IF Committed(b) THEN {} ELSE todo
    /\ seen' = Empty /\ stuck' = {} /\ phase' = "next" /\ path' = None

\* The start of recover: undo every step unless the baseline file says the transfer
\* completed.
Recover(b) ==
    /\ pc' = IF Committed(b) THEN "sweep" ELSE "undo"
    /\ todo' = IF Committed(b) THEN {} ELSE journal.changes
    /\ seen' = Empty /\ stuck' = {} /\ phase' = "next" /\ path' = None

StartRecovery ==
    /\ pc = "idle" /\ journal # None
    /\ Recover(base) /\ outcome' = "recovering"
    /\ UNCHANGED <<files, state, plan, spoiled, bounds>>

\* What makes the next operation of a step fail by itself.
Blocked(p) ==
    \/ phase = "next" /\ pc = "apply" /\ NextStep(p) /\ ~CanBackUp(p)
    \/ phase = "install" /\ path = p /\ Target(p) = Absent /\ tree[p] \in {Absent, Dir}
    \/ phase = "install" /\ path = p /\ Target(p) # Absent /\ ~ParentsReal(p)
    \/ phase = "rename" /\ path = p /\ ~CanRename(p)

\* The staged content changed after it was checked: the copy stays behind.
CopySpoiled(p) ==
    /\ pc = "apply" /\ phase = "install" /\ path = p /\ Target(p) # Absent
    /\ ParentsReal(p) /\ ~CopyVerified(p)
    /\ tree' = WithParents(tree, p)
    /\ temps' = [temps EXCEPT ![p] = Source(p)]
    /\ Recover(base) /\ outcome' = "failing"
    /\ UNCHANGED <<ignored, state, plan, spoiled, bounds>>

\* A step of apply that cannot be done starts the rollback.
ApplyBlocked ==
    /\ pc = "apply" /\ \E p \in todo : Blocked(p)
    /\ Recover(base) /\ outcome' = "failing"
    /\ UNCHANGED <<files, state, plan, spoiled, bounds>>

\* Any operation of apply may fail; a backup may be left half written.
ApplyFails ==
    /\ pc = "apply" /\ faults < MaxFaults
    /\ \/ UNCHANGED backup
       \/ \E p \in todo : /\ phase = "next" /\ NextStep(p) /\ journal.before[p] # Absent
                          /\ backup' = [backup EXCEPT ![p] = Broken]
    /\ Recover(base) /\ outcome' = "failing"
    /\ faults' = faults + 1 /\ disturbed' = TRUE
    /\ UNCHANGED <<files, base, journal, plan, spoiled, syncs, edits>>

\* write_bytes fails after its rename: the baseline is in place all the same.
CommitFailsLate ==
    /\ pc = "apply" /\ todo = {} /\ faults < MaxFaults
    /\ base' = journal.baseline
    /\ Recover(base') /\ outcome' = "failing"
    /\ faults' = faults + 1 /\ disturbed' = TRUE
    /\ UNCHANGED <<files, journal, backup, plan, spoiled, syncs, edits>>

\* undo_step, when p already holds what it held before.
AlreadyUndone(p) ==
    /\ pc = "undo" /\ phase = "next" /\ NextStep(p)
    /\ ParentsReal(p) /\ tree[p] # Dir /\ tree[p] = journal.before[p]
    /\ StepDone(p)
    /\ UNCHANGED <<files, state, plan, seen, spoiled, pc, stuck, outcome, bounds>>

\* p holds what the transfer wrote, and its backup is intact.
Undoable(p) ==
    /\ ParentsReal(p) /\ tree[p] # Dir
    /\ tree[p] # journal.before[p] /\ tree[p] = journal.after[p]
    /\ journal.before[p] # Absent => backup[p] = journal.before[p]

StartUndo(p) ==
    /\ pc = "undo" /\ phase = "next" /\ NextStep(p) /\ Undoable(p)
    /\ phase' = "install" /\ path' = p
    /\ UNCHANGED <<files, state, plan, seen, spoiled, pc, todo, stuck, outcome, bounds>>

\* Mutant of NotUndoable: expects every path to hold what the transfer wrote.
NotInstalled(p) ==
    \/ ~ParentsReal(p) \/ tree[p] = Dir
    \/ tree[p] # journal.after[p]

NotUndoable(p) ==
    \/ ~ParentsReal(p) \/ tree[p] = Dir
    \/ tree[p] # journal.before[p] /\ ~Undoable(p)

\* The step is left as it is and reported; recovery goes on with the others.
LeaveStuck(p) ==
    /\ pc = "undo"
    /\ \/ phase = "next" /\ NextStep(p) /\ NotUndoable(p)
       \/ phase # "next" /\ path = p /\ Blocked(p)
    /\ stuck' = stuck \cup {p} /\ StepDone(p)
    /\ UNCHANGED <<files, state, plan, seen, spoiled, pc, outcome, bounds>>

UndoFails(p) ==
    /\ pc = "undo" /\ faults < MaxFaults
    /\ IF phase = "next" THEN NextStep(p) ELSE path = p /\ phase # "prune"
    /\ stuck' = stuck \cup {p} /\ StepDone(p)
    /\ faults' = faults + 1 /\ disturbed' = TRUE
    /\ UNCHANGED <<files, state, plan, seen, spoiled, pc, outcome, syncs, edits>>

StartSweep ==
    /\ pc = "undo" /\ todo = {}
    /\ pc' = "sweep"
    /\ UNCHANGED <<files, state, plan, seen, spoiled, phase, path, todo, stuck, outcome,
                   bounds>>

\* Mutant of Sweep: partial files are left behind.
SweepKeepsTemps ==
    /\ pc = "sweep"
    /\ journal' = IF stuck = {} THEN None ELSE journal
    /\ outcome' = CASE outcome = "failing"    /\ stuck = {}  -> "rolledBack"
                    [] outcome = "failing"    /\ stuck # {} -> "rollbackFailed"
                    [] outcome = "recovering" /\ stuck = {}  -> "recovered"
                    [] outcome = "recovering" /\ stuck # {} -> "needsHelp"
    /\ pc' = "idle" /\ stuck' = {}
    /\ UNCHANGED <<tree, ignored, temps, base, backup, plan, seen, spoiled, phase, path,
                   todo, bounds>>

\* Mutant of Sweep: the journal is left behind.
SweepKeepsJournal ==
    /\ pc = "sweep"
    /\ temps' = Merge(temps, {p \in journal.changes : ParentsReal(p)}, Empty)
    /\ outcome' = CASE outcome = "failing"    /\ stuck = {}  -> "rolledBack"
                    [] outcome = "failing"    /\ stuck # {} -> "rollbackFailed"
                    [] outcome = "recovering" /\ stuck = {}  -> "recovered"
                    [] outcome = "recovering" /\ stuck # {} -> "needsHelp"
    /\ pc' = "idle" /\ stuck' = {}
    /\ UNCHANGED <<tree, ignored, base, journal, backup, plan, seen, spoiled, phase,
                   path, todo, bounds>>

(***************************************************************************)
(* The end of recover: partial files are removed, and the journal goes     *)
(* only if every path was put back (or the transfer had committed).        *)
(***************************************************************************)
Sweep ==
    /\ pc = "sweep"
    /\ temps' = Merge(temps, {p \in journal.changes : ParentsReal(p)}, Empty)
    /\ journal' = IF stuck = {} THEN None ELSE journal
    /\ outcome' = CASE outcome = "failing"    /\ stuck = {}  -> "rolledBack"
                    [] outcome = "failing"    /\ stuck # {} -> "rollbackFailed"
                    [] outcome = "recovering" /\ stuck = {}  -> "recovered"
                    [] outcome = "recovering" /\ stuck # {} -> "needsHelp"
    /\ pc' = "idle" /\ stuck' = {}
    /\ UNCHANGED <<tree, ignored, base, backup, plan, seen, spoiled, phase, path, todo,
                   bounds>>

-----------------------------------------------------------------------------
(* The process dies; whatever it had on disk stays *)

Crash ==
    /\ pc # "idle" /\ faults < MaxFaults
    /\ \/ UNCHANGED backup
       \/ \E p \in todo : /\ pc = "apply" /\ phase = "next" /\ NextStep(p)
                          /\ journal.before[p] # Absent
                          /\ backup' = [backup EXCEPT ![p] = Broken]
    /\ faults' = faults + 1
    /\ plan' = None /\ seen' = Empty /\ pc' = "idle" /\ phase' = "next" /\ path' = None
    /\ todo' = {} /\ stuck' = {} /\ outcome' = "none"
    /\ UNCHANGED <<files, base, journal, spoiled, syncs, edits, disturbed>>

-----------------------------------------------------------------------------
(* People and tools working in the project; sessions do not block transfers *)

Editing == /\ edits < MaxEdits
           /\ pc \in {"idle", "planned"} \/ EditsWhileApplying
           /\ edits' = edits + 1
           /\ disturbed' = (disturbed \/ journal # None)
           /\ UNCHANGED <<state, process, syncs, faults>>

WriteFile(p, v) ==
    /\ Editing
    /\ tree[p] # Dir /\ tree[p] # v /\ ParentsReal(p)
    /\ tree' = [WithParents(tree, p) EXCEPT ![p] = v]
    /\ UNCHANGED <<ignored, temps>>

DeleteFile(p) ==
    /\ Editing
    /\ tree[p] \notin {Absent, Dir}
    /\ tree' = [tree EXCEPT ![p] = Absent]
    /\ UNCHANGED <<ignored, temps>>

DeleteFolder(d) ==
    /\ Editing
    /\ tree[d] = Dir
    /\ LET gone == {d} \cup {p \in Paths : d \in Above[p]}
       IN /\ tree' = [p \in Paths |-> IF p \in gone THEN Absent ELSE tree[p]]
          /\ ignored' = ignored \ gone
          /\ temps' = Merge(temps, {p \in Paths : d \in Above[p]}, Empty)

\* A build writes a file that no manifest lists into a folder of the project.
WriteIgnored(d) ==
    /\ Editing
    /\ tree[d] = Dir /\ d \notin ignored
    /\ ignored' = ignored \cup {d}
    /\ UNCHANGED <<tree, temps>>

-----------------------------------------------------------------------------
Apply(p) == BackUp(p) \/ Remove(p) \/ Prune(p) \/ CopyIn(p) \/ Rename(p) \/ CopySpoiled(p)
Undo(p)  == AlreadyUndone(p) \/ StartUndo(p) \/ LeaveStuck(p)

\* What the process does on its own once a transfer or a recovery has begun.
Progress ==
    \/ RecordBaseline \/ Refuse \/ WriteJournal \/ Commit \/ Finished
    \/ ApplyBlocked \/ StartSweep \/ Sweep
    \/ \E p \in Paths : Apply(p) \/ Undo(p)

Failure ==
    \/ ApplyFails \/ CommitFailsLate \/ Crash
    \/ \E p \in Paths : SpoilStage(p) \/ UndoFails(p)

Edit ==
    \E p \in Paths : \/ DeleteFile(p) \/ DeleteFolder(p) \/ WriteIgnored(p)
                     \/ \E v \in Content : WriteFile(p, v)

System == Progress \/ StartRecovery \/ Failure \/ Edit

Next == Push \/ System

Spec == Init /\ [][Next]_vars

\* The process runs on, and whoever saw a transfer fail tries again.
FairSpec == Spec /\ WF_vars(Progress) /\ WF_vars(StartRecovery)
-----------------------------------------------------------------------------
(* Properties *)

\* Every variable holds a value of its type, and nothing is left half started: a
\* journal exists while steps are taken, and a path is worked on only within a step.
TypeOK ==
    /\ tree \in [Paths -> Value \cup {Dir, Broken}]
    /\ ignored \subseteq {p \in Paths : tree[p] = Dir}
    /\ temps \in [Paths -> Value \cup {Broken}]
    /\ base \in Manifest \cup {NoFile}
    /\ journal \in Transfers \cup {None}
    /\ backup \in [Paths -> Value \cup {Broken}]
    /\ plan \in Transfers \cup {None}
    /\ seen \in Manifest
    /\ spoiled \subseteq Paths
    /\ pc \in {"idle", "planned", "apply", "clean", "undo", "sweep"}
    /\ phase \in {"next", "install", "prune", "rename"}
    /\ path \in Paths \cup {None}
    /\ todo \subseteq Paths /\ stuck \subseteq Paths
    /\ outcome \in {"none", "applied", "refused", "failing", "rolledBack",
                    "rollbackFailed", "recovering", "recovered", "needsHelp"}
    /\ syncs \in Nat /\ edits \in Nat /\ faults \in Nat
    /\ disturbed \in BOOLEAN
    /\ pc = "planned" <=> plan # None
    /\ pc \in {"apply", "clean", "undo", "sweep"} => journal # None
    /\ phase # "next" <=> path # None
    /\ path # None => path \in todo
    /\ todo # {} => pc \in {"apply", "undo"} /\ todo \subseteq journal.changes
    /\ pc \in {"undo", "sweep"} => outcome \in {"failing", "recovering"}

\* The journal describes a transfer that has not reached its commit point.
Pending == journal # None /\ base # journal.baseline

\* The project holds what the manifest m says of these names.
Holding(names, m) == \A p \in names : Files(tree)[p] = m[p]

\* A project never shows half written or unverified content: partial files are renamed
\* only once verified, and a torn backup is never restored (sync.rs install, undo_step).
NeverBroken == \A p \in Paths : tree[p] # Broken

\* As long as nobody interfered, whatever a pending transfer has replaced can be put
\* back: the backup of a path it changed is whole, whenever the process dies
\* (sync.rs apply_step saves before it installs; undo_step relies on it).
BackupsHold ==
    Pending /\ ~disturbed =>
        \A p \in journal.changes :
            tree[p] = journal.after[p] /\ journal.before[p] # Absent =>
                backup[p] = journal.before[p]

\* A file takes the place of a folder the same transfer empties.
FolderBecomesFile(t) ==
    \E p, q \in t.changes : q \in Above[p] /\ t.after[q] # Absent

\* Recovery gives a path up only if somebody edited the project or an operation failed
\* after the journal was written, or if a file was replacing a folder (sync.rs recover).
StuckOnlyIfDisturbed ==
    stuck # {} => disturbed \/ FolderBecomesFile(journal)

\* A transfer that reports a rollback left every path as it was, or, when the failure
\* came after the commit point, every path as the transfer wanted it: never a mixture
\* (sync.rs apply, its error path).
RolledBackIsWhole ==
    [][pc = "sweep" /\ outcome' = "rolledBack" =>
        \/ Holding(journal.changes, journal.before)
        \/ base = journal.baseline /\ Holding(journal.changes, journal.after)]_vars

\* Partial files never outlive the journal that names them: once a project has no
\* journal, no partial file is left in it (sync.rs recover, apply).
NoPartialsLeft == journal = None => temps = Empty

\* A transfer or a recovery that has begun comes to an end, whatever fails
\* (sync.rs apply and recover are finite and wait for nobody).
Settles == pc # "idle" ~> pc = "idle"

\* As long as nobody edits the project, an interrupted or failed transfer is recovered
\* once somebody tries again, unless a file was replacing a folder (projects.rs begin
\* calls recover before anything else).
Recovers ==
    journal # None /\ ~FolderBecomesFile(journal) ~> journal = None \/ edits > 0

(***************************************************************************)
(* The project as a transfer promises it: until the commit point the paths *)
(* of a pending transfer count as what they held before.                   *)
(***************************************************************************)
Promised == IF Pending THEN Merge(Files(tree), journal.changes, journal.before)
            ELSE Files(tree)

Atomic == INSTANCE AtomicSync WITH content <- Promised, baseline <- Baseline

\* Seen that way every transfer is one indivisible step that replaces only what both
\* machines last agreed on, through crashes, failures and rollbacks (docs/ARCHITECTURE.md
\* section How A Sync Works, sync.rs apply and recover).
AppliedAtomically == Atomic!Spec

-----------------------------------------------------------------------------
(* The inductive invariants behind these properties; SyncApplyProofs proves them *)

\* The step at hand: a backup to be restored is whole, a partial file about to be
\* renamed holds what the step installs.
StepInv ==
    /\ pc = "undo" /\ phase = "install" /\ journal.before[path] # Absent =>
           backup[path] = journal.before[path]
    /\ phase = "rename" =>
           /\ Target(path) # Absent
           /\ temps[path] \in {Target(path), Absent}
    /\ phase = "prune" => Target(path) = Absent

\* What a transfer planned against the baseline b says.
WellPlanned(t, b) ==
    \A p \in t.changes : /\ t.before[p] = b[p]
                          /\ t.after[p] # t.before[p]
                          /\ t.after[p] = t.baseline[p]

\* Beside what it changes, a transfer records only what the receiver held already.
Recorded(t) == \A p \in Paths \ t.changes : t.baseline[p] \in {Baseline[p], seen[p]}

\* The baseline file tells a pending transfer from a completed one.
JournalInv ==
    /\ plan # None => /\ journal = None
                      /\ WellPlanned(plan, Baseline)
                      /\ plan.changes # {} => plan.baseline # Baseline
                      /\ Recorded(plan)
    /\ Pending => WellPlanned(journal, Baseline)
    /\ pc \in {"apply", "undo"} => Pending
    /\ pc = "apply" => Recorded(journal)
    /\ pc = "clean" => ~Pending

\* How far apply or recovery has come, when nobody edits the project meanwhile.
ProgressInv ==
    /\ phase = "prune" => Files(tree)[path] = Absent
    /\ pc = "apply" => Holding(journal.changes \ todo, journal.after)
    /\ pc = "undo" => Holding(journal.changes \ (todo \cup stuck), journal.before)
    /\ pc = "sweep" /\ Pending => Holding(journal.changes \ stuck, journal.before)
    /\ pc = "sweep" /\ ~Pending /\ outcome = "failing" =>
           Holding(journal.changes, journal.after)

\* Undisturbed, a path of a pending transfer holds its old content or has it backed up.
RestoreInv ==
    Pending /\ ~disturbed =>
        LET untouched(p) == Files(tree)[p] = journal.before[p]
            saved(p) == journal.before[p] = Absent \/ backup[p] = journal.before[p]
        IN /\ \A p \in journal.changes : untouched(p) \/ saved(p)
           /\ pc = "apply" => \A p \in todo : p # path => untouched(p)
           /\ pc = "apply" /\ path # None => saved(path)

\* A partial file lies where the journal says, in a folder recovery can reach; while
\* apply runs only the step at hand may have one.
PartialsInv ==
    /\ \A p \in Paths : temps[p] # Absent =>
           /\ journal # None /\ p \in journal.changes
           /\ \A q \in Above[p] : tree[q] = Dir
           /\ pc = "apply" => phase = "rename" /\ p = path
    /\ pc = "clean" => temps = Empty

\* Undisturbed, the steps of a pending transfer never stand in each other's way: every
\* path it changes holds its old or its new content, below folders only.
ClearWay ==
    Pending /\ ~disturbed /\ ~FolderBecomesFile(journal) =>
        /\ \A p \in journal.changes :
               /\ Above[p] \cap journal.changes = {} /\ ParentsReal(p)
               /\ tree[p] \in {journal.before[p], journal.after[p]}
        /\ phase = "install" /\ Target(path) = Absent => tree[path] # Absent
        /\ phase = "rename" => temps[path] # Absent

\* No path is given up outside a recovery, and none in an undisturbed one.
StuckInv == /\ stuck # {} => pc \in {"undo", "sweep"}
            /\ StuckOnlyIfDisturbed

-----------------------------------------------------------------------------
(* What the documentation says and the code does not do in every case *)

\* docs/ARCHITECTURE.md:239, "If anything fails, it restores the previous state".
FailureRestores == outcome # "rollbackFailed"

\* sync.rs:247, "Every existing parent must be a real directory, unless it is a file this
\* plan deletes": a plan is refused only for what those checks name.
RefusedOnlyByChecks ==
    [][pc = "planned" /\ outcome' = "refused" =>
        \E p \in plan.changes :
            \/ ~ParentsClear(plan, p)
            \/ ~StagedAsPlanned(plan, p)
            \/ Files(tree)[p] # plan.before[p]
            \/ tree[p] = Dir /\ ~FolderEmptied(plan, p)]_vars

\* docs/USAGE.md:184, "Edits made on only one machine are kept": a transfer never
\* replaces or removes a file that is not what its plan expected to find.
EditsKept ==
    [][\A p \in Paths :
        pc = "apply" /\ pc' # "idle" /\ edits' = edits /\ Files(tree')[p] # Files(tree)[p] =>
            tree[p] = journal.before[p]]_vars
=============================================================================
