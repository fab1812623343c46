----------------------------- MODULE ClientSync -----------------------------
(***************************************************************************)
(* One project, its copy on the Client and its copy on the Agent, and the  *)
(* slingshot commands on the Client that move edits between them: sync,    *)
(* sync --pull and sync --check, and run and attach, which push first      *)
(* (crates/slingshot-cli/src/transfer.rs against                           *)
(* crates/slingshot-agent/src/service.rs and projects.rs).                 *)
(*                                                                         *)
(* The Agent holds one lease per project; the Client has no lock of its    *)
(* own, so two commands may work on its files at once. A path is replaced  *)
(* in one step here, and the Agent's apply is one step: module SyncApply   *)
(* shows that it may be seen so. Contents are numbered in the order of the *)
(* edits that made them, so that one can be older than another: 1 is what  *)
(* the project starts with, even numbers are edits on the Client, the      *)
(* other odd ones edits on the Agent, and Absent is 0.                     *)
(***************************************************************************)
EXTENDS ThreeWay, Naturals

CONSTANTS
    Commands,  \* slingshot processes on the Client
    None,      \* no journal, no lease, no transfer
    NoFile,    \* the Client's baseline.json does not exist
    Reverts,   \* whether an edit may bring back an earlier content
    MaxStarts, MaxEdits, MaxFaults  \* bounds on commands, edits and failures

Transfers == [token : Nat, changes : SUBSET Paths, before : Manifest, after : Manifest,
              baseline : Manifest]

\* Unless edits bring back contents, there is a number for the content of each.
ASSUME ContentAssumption ==
    /\ Content \subseteq Nat \ {0} /\ Absent = 0 /\ 1 \in Content
    /\ ~Reverts => \A n \in 0 .. MaxEdits - 1 : {2 * n + 2, 2 * n + 3} \subseteq Content
ASSUME ClientAssumption ==
    /\ None \notin Commands \cup Transfers /\ NoFile \notin Manifest
    /\ Reverts \in BOOLEAN
    /\ MaxStarts \in Nat /\ MaxEdits \in Nat /\ MaxFaults \in Nat

VARIABLES
    local,     \* what the Client's project holds
    base,      \* the Client's baseline.json, written by pulls only
    journal,   \* the Client's journal.json
    backups,   \* backups[n]: the backup folder of the n-th command's pull
    remote,    \* what the Agent's copy holds
    shared,    \* the Agent's baseline.json
    lease,     \* the command that holds the Agent's lease on the project
    pc, kind,  \* where each command stands, and what it was asked to do
    token,     \* the number a command was started under
    seen,      \* the Agent's manifest and baseline as the lease found them
    sent,      \* the manifest a command reports with Finish
    job,       \* the transfer a command applies or undoes, in its memory
    todo, stuck,  \* paths it has still to do, and paths it could not undo
    starts, edits, faults,
    clash      \* history: a command met the journal of another one at work

client  == <<local, base, journal, backups>>
agent   == <<remote, shared, lease>>
command == <<pc, kind, token, seen, sent, job, todo, stuck>>
bounds  == <<starts, edits, faults, clash>>
vars    == <<client, agent, command, bounds>>

Snapshots == [manifest : Manifest, baseline : Manifest]

NoSnapshot == [manifest |-> Empty, baseline |-> Empty]

Set(f, c, v) == f' = [f EXCEPT ![c] = v]

-----------------------------------------------------------------------------
\* A project that was never synchronized: the Client's files are there, the Agent's
\* copy is empty.
Init ==
    /\ local = [p \in Paths |-> 1] /\ base = NoFile
    /\ journal = None /\ backups = [n \in 1 .. MaxStarts |-> Empty]
    /\ remote = Empty /\ shared = Empty /\ lease = None
    /\ pc = [c \in Commands |-> "idle"]
    /\ kind = [c \in Commands |-> "none"]
    /\ token = [c \in Commands |-> 0]
    /\ seen = [c \in Commands |-> NoSnapshot]
    /\ sent = [c \in Commands |-> Empty]
    /\ job = [c \in Commands |-> None]
    /\ todo = [c \in Commands |-> {}] /\ stuck = [c \in Commands |-> {}]
    /\ starts = 0 /\ edits = 0 /\ faults = 0 /\ clash = FALSE

\* Mutant of Ends: the Agent forgets to drop the lease.
EndsLeased(c) ==
    /\ Set(pc, c, "idle") /\ Set(kind, c, "none") /\ Set(token, c, 0)
    /\ Set(seen, c, NoSnapshot) /\ Set(sent, c, Empty) /\ Set(job, c, None)
    /\ Set(todo, c, {}) /\ Set(stuck, c, {})
    /\ lease' = lease

\* A command ends, and its connection with it: a lease it holds is given back.
Ends(c) ==
    /\ Set(pc, c, "idle") /\ Set(kind, c, "none") /\ Set(token, c, 0)
    /\ Set(seen, c, NoSnapshot) /\ Set(sent, c, Empty) /\ Set(job, c, None)
    /\ Set(todo, c, {}) /\ Set(stuck, c, {})
    /\ lease' = IF lease = c THEN None ELSE lease

Start(c) ==
    /\ pc[c] = "idle" /\ starts < MaxStarts
    /\ \E k \in {"push", "pull", "check"} : Set(kind, c, k)
    /\ Set(pc, c, "recover") /\ Set(token, c, starts + 1)
    /\ starts' = starts + 1
    /\ UNCHANGED <<client, agent, seen, sent, job, todo, stuck, edits, faults, clash>>

-----------------------------------------------------------------------------
(* recover_local, also the rollback of a pull that failed: it holds no lock *)

\* The journal says the transfer reached its commit point.
Committed == base = journal.baseline

\* A rollback ends the command, a recovery lets it go on.
AfterRecovery(c) == IF kind[c] = "failed" THEN Ends(c)
                    ELSE /\ Set(pc, c, "ready")
                         /\ Set(job, c, None)
                         /\ UNCHANGED <<lease, kind, token, seen, sent, todo, stuck>>

NothingToRecover(c) ==
    /\ pc[c] = "recover" /\ journal = None
    /\ AfterRecovery(c)
    /\ UNCHANGED <<client, remote, shared, bounds>>

ReadJournal(c) ==
    /\ pc[c] = "recover" /\ journal # None
    /\ Set(job, c, journal)
    /\ Set(todo, c, IF Committed THEN {} ELSE journal.changes)
    /\ Set(pc, c, "undo")
    /\ clash' = (clash \/ \E d \in Commands \ {c} : pc[d] \in {"apply", "committed", "undo"})
    /\ UNCHANGED <<client, agent, kind, token, seen, sent, stuck, starts, edits, faults>>

\* undo_step
UndoPath(c, p) ==
    /\ pc[c] = "undo" /\ p \in todo[c]
    /\ LET j == job[c]
           undoable == /\ local[p] = j.after[p]
                       /\ j.before[p] # Absent => backups[j.token][p] = j.before[p]
       IN IF local[p] = j.before[p] \/ undoable
          THEN local' = [local EXCEPT ![p] = j.before[p]] /\ UNCHANGED stuck
          ELSE Set(stuck, c, stuck[c] \cup {p}) /\ UNCHANGED local
    /\ Set(todo, c, todo[c] \ {p})
    /\ UNCHANGED <<base, journal, backups, agent, pc, kind, token, seen, sent, job, bounds>>

\* Removing the journal fails when another command already has.
EndRecovery(c) ==
    /\ pc[c] = "undo" /\ todo[c] = {}
    /\ IF stuck[c] = {} /\ journal # None THEN journal' = None /\ AfterRecovery(c)
       ELSE Ends(c) /\ UNCHANGED journal
    /\ UNCHANGED <<local, base, backups, remote, shared, bounds>>

-----------------------------------------------------------------------------
(* Begin: the Agent's lease and its snapshot *)

\* preview asks for a snapshot without a lease and prints a plan.
Preview(c) ==
    /\ pc[c] = "ready" /\ kind[c] = "check"
    /\ Ends(c)
    /\ UNCHANGED <<client, remote, shared, bounds>>

Begin(c) ==
    /\ pc[c] = "ready" /\ kind[c] \in {"push", "pull"}
    /\ lease = None
    /\ lease' = c
    /\ Set(seen, c, [manifest |-> remote, baseline |-> shared])
    /\ Set(pc, c, "leased")
    /\ UNCHANGED <<client, remote, shared, kind, token, sent, job, todo, stuck, bounds>>

\* The Agent answers that the project is busy.
Busy(c) ==
    /\ pc[c] = "ready" /\ kind[c] \in {"push", "pull"}
    /\ lease # None
    /\ Ends(c)
    /\ UNCHANGED <<client, remote, shared, bounds>>

\* refuse_conflicts: nothing is copied.
Conflict(c) ==
    /\ pc[c] = "leased"
    /\ Conflicts(seen[c].baseline, local, seen[c].manifest) # {}
    /\ Ends(c)
    /\ UNCHANGED <<client, remote, shared, bounds>>

\* The Client's files are read, perhaps in the middle of another command's pull.
Scans == clash' = (clash \/ journal # None) /\ UNCHANGED <<starts, edits, faults>>

\* rsync fails, or what it copied is not what the plan says.
CopyFails(c) ==
    /\ pc[c] = "leased"
    /\ Conflicts(seen[c].baseline, local, seen[c].manifest) = {}
    /\ Ends(c)
    /\ UNCHANGED <<client, remote, shared, bounds>>

-----------------------------------------------------------------------------
(* A push *)

\* Scanning and copying: an edit between the two makes the copy useless, which is a
\* copy that fails.
ScanAndSend(c) ==
    /\ pc[c] = "leased" /\ kind[c] = "push"
    /\ Conflicts(seen[c].baseline, local, seen[c].manifest) = {}
    /\ Set(sent, c, local)
    /\ Set(pc, c, "finish")
    /\ Scans
    /\ UNCHANGED <<client, agent, kind, token, seen, job, todo, stuck>>

\* service.rs with_lease: a Finish is only for the connection that has the lease.
Holds(c) == lease = c

\* Mutant of Accepted: the copy is not scanned again.
AcceptedUnseen(c) == Holds(c)

\* projects::finish checks the lease and that the copy is as the lease found it.
Accepted(c) == Holds(c) /\ remote = seen[c].manifest

\* Mutant of Recorded: the baseline becomes what the Agent holds after the push.
RecordedAll(c) == Merge(seen[c].manifest, Changes(shared, sent[c], seen[c].manifest), sent[c])

\* The baseline a push leaves: kept paths stay at what both machines last agreed on.
Recorded(c) == PlanBaseline(shared, sent[c], seen[c].manifest)

FinishPush(c) ==
    /\ pc[c] = "finish" /\ kind[c] = "push" /\ Accepted(c)
    /\ remote' = Merge(remote, Changes(shared, sent[c], seen[c].manifest), sent[c])
    /\ shared' = Recorded(c)
    /\ Ends(c)
    /\ UNCHANGED <<client, bounds>>

Rejected(c) ==
    /\ pc[c] = "finish" /\ ~Accepted(c)
    /\ Ends(c)
    /\ UNCHANGED <<client, remote, shared, bounds>>

-----------------------------------------------------------------------------
(* A pull: the Client applies, then reports what it holds *)

\* Mutant of PullPlan: the journal is given the Client's own baseline file.
PullPlanOwnBase(c) ==
    LET changes == Changes(seen[c].baseline, seen[c].manifest, local)
    IN [token    |-> token[c],
        changes  |-> changes,
        before   |-> Merge(Empty, changes, local),
        after    |-> Merge(Empty, changes, seen[c].manifest),
        baseline |-> base]

PullPlan(c) ==
    LET changes == Changes(seen[c].baseline, seen[c].manifest, local)
    IN [token    |-> token[c],
        changes  |-> changes,
        before   |-> Merge(Empty, changes, local),
        after    |-> Merge(Empty, changes, seen[c].manifest),
        baseline |-> PlanBaseline(seen[c].baseline, seen[c].manifest, local)]

\* Without changes apply is not called, and the Client's baseline.json stays as it is.
\* What was copied into the stage is what the plan says.
PlanPull(c) ==
    /\ pc[c] = "leased" /\ kind[c] = "pull"
    /\ Conflicts(seen[c].baseline, seen[c].manifest, local) = {}
    /\ LET t == PullPlan(c)
       IN /\ \A p \in t.changes : t.after[p] \in {Absent, remote[p]}
          /\ Set(sent, c, Merge(local, t.changes, seen[c].manifest))
          /\ Set(job, c, t)
          /\ Set(pc, c, IF t.changes = {} THEN "finish" ELSE "staged")
    /\ Scans
    /\ UNCHANGED <<client, agent, kind, token, seen, todo, stuck>>

\* The checks of apply: no journal is there, and the paths are as planned.
Verified(c) ==
    /\ journal = None
    /\ \A p \in job[c].changes : local[p] = job[c].before[p]

WriteJournal(c) ==
    /\ pc[c] = "staged" /\ Verified(c)
    /\ journal' = job[c]
    /\ Set(todo, c, job[c].changes)
    /\ Set(pc, c, "apply")
    /\ UNCHANGED <<local, base, backups, agent, kind, token, seen, sent, job, stuck, bounds>>

Refuse(c) ==
    /\ pc[c] = "staged" /\ ~Verified(c)
    /\ Ends(c)
    /\ UNCHANGED <<client, remote, shared, bounds>>

\* apply_step
ApplyPath(c, p) ==
    /\ pc[c] = "apply" /\ p \in todo[c]
    /\ backups' = IF job[c].before[p] = Absent THEN backups
                  ELSE [backups EXCEPT ![token[c]][p] = local[p]]
    /\ local' = [local EXCEPT ![p] = job[c].after[p]]
    /\ Set(todo, c, todo[c] \ {p})
    /\ UNCHANGED <<base, journal, agent, pc, kind, token, seen, sent, job, stuck, bounds>>

Commit(c) ==
    /\ pc[c] = "apply" /\ todo[c] = {}
    /\ base' = job[c].baseline
    /\ Set(pc, c, "committed")
    /\ UNCHANGED <<local, journal, backups, agent, kind, token, seen, sent, job, todo, stuck,
                   bounds>>

Applied(c) ==
    /\ pc[c] = "committed" /\ journal # None
    /\ journal' = None
    /\ Set(pc, c, "finish")
    /\ UNCHANGED <<local, base, backups, agent, kind, token, seen, sent, job, todo, stuck,
                   bounds>>

\* Another command has removed the journal: the pull fails after its commit.
JournalGone(c) ==
    /\ pc[c] = "committed" /\ journal = None
    /\ Ends(c)
    /\ UNCHANGED <<client, remote, shared, bounds>>

\* The baseline advances where both machines now hold the same.
FinishPull(c) ==
    /\ pc[c] = "finish" /\ kind[c] = "pull" /\ Accepted(c)
    /\ shared' = Agreed(shared, seen[c].manifest, sent[c])
    /\ Ends(c)
    /\ UNCHANGED <<client, remote, bounds>>

-----------------------------------------------------------------------------
(* Failures, and people who work on both machines *)

\* A step of apply fails, which starts the rollback at once.
ApplyFails(c) ==
    /\ pc[c] = "apply" /\ faults < MaxFaults
    /\ Set(kind, c, "failed") /\ Set(pc, c, "recover") /\ Set(todo, c, {})
    /\ faults' = faults + 1
    /\ UNCHANGED <<client, agent, token, seen, sent, job, stuck, starts, edits, clash>>

\* The connection breaks or is silent for too long, and the command does not know yet.
LoseLease(c) ==
    /\ lease = c /\ faults < MaxFaults
    /\ lease' = None /\ faults' = faults + 1
    /\ UNCHANGED <<client, remote, shared, command, starts, edits, clash>>

Crash(c) ==
    /\ pc[c] # "idle" /\ faults < MaxFaults
    /\ Ends(c) /\ faults' = faults + 1
    /\ UNCHANGED <<client, remote, shared, starts, edits, clash>>

\* What an edit may write over `old`; `fresh` is the number a new content gets.
Writes(old, fresh) == IF Reverts THEN Value \ {old} ELSE {fresh}

\* Edits of a path between its check and its replacement are those of SyncApply.
LocalEdit(p) ==
    /\ edits < MaxEdits
    /\ \A c \in Commands : pc[c] = "apply" => p \notin todo[c]
    /\ \E v \in Writes(local[p], 2 * edits + 2) : local' = [local EXCEPT ![p] = v]
    /\ edits' = edits + 1
    /\ UNCHANGED <<base, journal, backups, agent, command, starts, faults, clash>>

RemoteEdit(p) ==
    /\ edits < MaxEdits
    /\ \E v \in Writes(remote[p], 2 * edits + 3) : remote' = [remote EXCEPT ![p] = v]
    /\ edits' = edits + 1
    /\ UNCHANGED <<client, shared, lease, command, starts, faults, clash>>

-----------------------------------------------------------------------------
Pull(c) ==
    \/ PlanPull(c) \/ WriteJournal(c) \/ Refuse(c) \/ Commit(c) \/ Applied(c)
    \/ JournalGone(c) \/ FinishPull(c) \/ \E p \in Paths : ApplyPath(c, p)

\* What a started command does by itself.
Step(c) ==
    \/ NothingToRecover(c) \/ ReadJournal(c) \/ EndRecovery(c) \/ Preview(c)
    \/ \E p \in Paths : UndoPath(c, p)
    \/ Begin(c) \/ Busy(c) \/ Conflict(c) \/ CopyFails(c)
    \/ ScanAndSend(c) \/ FinishPush(c) \/ Rejected(c)
    \/ Pull(c)

Next ==
    \/ \E c \in Commands : \/ Start(c) \/ Step(c)
                          \/ ApplyFails(c) \/ LoseLease(c) \/ Crash(c)
    \/ \E p \in Paths : LocalEdit(p) \/ RemoteEdit(p)

Spec == Init /\ [][Next]_vars

\* Some started command keeps working; nobody has to start one or to edit.
FairSpec == Spec /\ WF_vars(\E c \in Commands : Step(c))

-----------------------------------------------------------------------------
TypeOK ==
    /\ local \in Manifest /\ remote \in Manifest /\ shared \in Manifest
    /\ base \in Manifest \cup {NoFile}
    /\ journal \in Transfers \cup {None}
    /\ backups \in [1 .. MaxStarts -> Manifest]
    /\ lease \in Commands \cup {None}
    /\ pc \in [Commands -> {"idle", "recover", "undo", "ready", "leased", "staged",
                            "apply", "committed", "finish"}]
    /\ kind \in [Commands -> {"none", "push", "pull", "check", "failed"}]
    /\ token \in [Commands -> 0 .. MaxStarts]
    /\ seen \in [Commands -> Snapshots] /\ sent \in [Commands -> Manifest]
    /\ job \in [Commands -> Transfers \cup {None}]
    /\ todo \in [Commands -> SUBSET Paths] /\ stuck \in [Commands -> SUBSET Paths]
    /\ starts \in 0 .. MaxStarts /\ edits \in 0 .. MaxEdits /\ faults \in 0 .. MaxFaults
    /\ clash \in BOOLEAN

\* What the machines are said to have agreed on is never newer than what either holds:
\* the reason why a path that equals the baseline may be replaced by the other side's
\* (plan in sync.rs, finish in projects.rs). Only a command that meets the journal of
\* another one breaks it, as AgentEditsKept shows.
AgreedIsBehind ==
    clash \/ \A p \in Paths : shared[p] <= local[p] /\ shared[p] <= remote[p]

\* Synchronizing never replaces a newer file by an older one: the Agent's copy of a path
\* only moves forward, and the Client's does unless a pull is undone (push and pull in
\* transfer.rs).
NeverBackwards ==
    [][clash \/ \A p \in Paths :
          /\ remote'[p] >= remote[p]
          /\ local'[p] < local[p] => \E c \in Commands : pc[c] = "undo"]_vars

\* Every command ends, and does not leave the project busy: not the conflict, the failed
\* copy, the refused answer or the rollback, nor two commands in each other's way
\* (release_on_error in transfer.rs, connection in service.rs).
CommandsEnd == \A c \in Commands : pc[c] # "idle" ~> pc[c] = "idle" /\ lease # c

\* docs/ARCHITECTURE.md: "A file changed only on the Agent is kept." No push ever takes
\* an edit made on the Agent for an old version (push in transfer.rs, recover_local
\* without a lock).
AgentEditsKept == [][\A p \in Paths : remote'[p] >= remote[p]]_vars

\* sync.rs says of recover: "If the new baseline was already written, the sync completed
\* and only the journal remains." What recovery takes for completed has replaced every
\* path, so the backup of each is there.
CommittedMeansApplied ==
    [][\A c \in Commands : ReadJournal(c) /\ Committed =>
         \A p \in journal.changes :
             journal.before[p] \in {Absent, backups[journal.token][p]}]_vars

\* docs/ARCHITECTURE.md: a conflict is a file that both sides edited. The copy a conflict
\* finds on the Client was written there, and not by the last pull (pull in transfer.rs,
\* whose Finish may fail after the files are in place).
ConflictsAreReal ==
    [][\A c \in Commands : Conflict(c) =>
         \A p \in Conflicts(seen[c].baseline, local, seen[c].manifest) :
             local[p] = Absent \/ local[p] = 1 \/ local[p] % 2 = 0]_vars
=============================================================================
