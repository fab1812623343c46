------------------------------ MODULE RunWork -------------------------------
(***************************************************************************)
(* Who works on one project's copy on the Agent: the runs of slingshot     *)
(* run, each under a helper process of its own, and synchronizations; and  *)
(* slingshot stop and ps, which only see the runs' records                 *)
(* (crates/slingshot-agent/src/jobs.rs, runner.rs and projects.rs).        *)
(*                                                                         *)
(* The project lock belongs to a process and goes with it; a record stays. *)
(* What a record claims is corrected against the process table each time   *)
(* the records are listed. Helpers may be killed at any point and the      *)
(* Agent may be restarted.                                                 *)
(***************************************************************************)
EXTENDS Naturals

CONSTANTS
    Runs,   \* runs of the project, each started once
    Syncs,  \* connections that synchronize it
    Stops,  \* stop requests
    None,   \* no record, no run, nobody
    MaxFaults, MaxBoots  \* bounds on failures and on starts of the Agent's machine

\* Whether a record has a PID, and the start time to tell a process by.
PidKinds == {"none", "known", "noStart"}
States   == {"running", "completed", "failed", "interrupted", "stopped"}
Records  == [state : States, pid : PidKinds, stop : BOOLEAN, boot : Nat]

ASSUME ActorsAssumption ==
    /\ Runs \cap Syncs = {} /\ Runs \cap Stops = {} /\ Syncs \cap Stops = {}
    /\ None \notin Runs \cup Syncs \cup Stops \cup Records
    /\ MaxFaults \in Nat /\ MaxBoots \in Nat

Actors  == Runs \cup Syncs \cup Stops
Workers == Runs \cup Syncs

VARIABLES
    lock,      \* who holds the project lock
    record,    \* record[r]: the job record of a run, None before it is saved
    old,       \* runs whose record is more than 30 seconds old
    child,     \* child[r]: the process a run's helper started
    stranger,  \* runs whose PID now belongs to a process of somebody else
    struck,    \* history: a stop killed a process of somebody else
    at,        \* where each actor stands
    target,    \* the run a stop request found, in its memory
    known,     \* the PID a stop request found in that run's record
    grasp,     \* the process a stop request is going to kill
    boot, faults

records   == <<record, old>>
processes == <<child, stranger, struck>>
stopping  == <<target, known, grasp>>
bounds    == <<boot, faults>>
vars      == <<lock, records, processes, at, stopping, bounds>>

Goes(a, place) == at' = [at EXCEPT ![a] = place]

Init ==
    /\ lock = None
    /\ record = [r \in Runs |-> None] /\ old = {}
    /\ child = [r \in Runs |-> "none"] /\ stranger = {} /\ struck = FALSE
    /\ at = [a \in Actors |-> "idle"]
    /\ target = [q \in Stops |-> None] /\ known = [q \in Stops |-> "none"]
    /\ grasp = [q \in Stops |-> None]
    /\ boot = 0 /\ faults = 0

-----------------------------------------------------------------------------
(* Records *)

Active(rec) == rec # None /\ rec.state = "running"

\* Mutant of Lives: a run without a PID is never given up.
LivesUntracked(r) ==
    /\ record[r].boot = boot
    /\ \/ record[r].pid = "known" /\ child[r] = "alive"
       \/ record[r].pid = "none"

\* reconcile: a record that claims to run is right.
Lives(r) ==
    /\ record[r].boot = boot
    /\ \/ record[r].pid = "known" /\ child[r] = "alive"
       \/ record[r].pid = "none" /\ r \notin old

Verdict(r) == IF record[r].boot = boot /\ record[r].stop THEN "stopped" ELSE "interrupted"

\* The records once they are listed, which is under the records lock.
Listed ==
    [r \in Runs |-> IF Active(record[r]) /\ ~Lives(r)
                    THEN [record[r] EXCEPT !.state = Verdict(r)]
                    ELSE record[r]]

Blocked == \E r \in Runs : Active(Listed[r])

List ==
    /\ record' = Listed
    /\ UNCHANGED <<lock, old, processes, at, stopping, bounds>>

-----------------------------------------------------------------------------
(* projects::acquire, for a sync or a run *)

\* Refused before it has the lock, or while it has it.
Refused(a) == Goes(a, IF a \in Runs THEN "done" ELSE "idle")

Look(a) ==
    /\ at[a] = "idle" /\ a \in Workers
    /\ record' = Listed
    /\ IF Blocked THEN Refused(a) ELSE Goes(a, "looked")
    /\ UNCHANGED <<lock, old, processes, stopping, bounds>>

TryLock(a) ==
    /\ at[a] = "looked"
    /\ IF lock = None THEN lock' = a /\ Goes(a, "locked")
       ELSE Refused(a) /\ UNCHANGED lock
    /\ UNCHANGED <<records, processes, stopping, bounds>>

\* Mutant of LookAgain: the records are not read again under the lock.
LookOnce(a) ==
    /\ at[a] = "locked"
    /\ Goes(a, "ready")
    /\ UNCHANGED <<lock, records, processes, stopping, bounds>>

\* The records are read again under the lock.
LookAgain(a) ==
    /\ at[a] = "locked"
    /\ record' = Listed
    /\ IF Blocked THEN Refused(a) /\ lock' = None
       ELSE Goes(a, "ready") /\ UNCHANGED lock
    /\ UNCHANGED <<old, processes, stopping, bounds>>

\* A lease is given back, or a run finds the copy not ready.
Leave(a) ==
    /\ at[a] = "ready"
    /\ lock' = None /\ Refused(a)
    /\ UNCHANGED <<records, processes, stopping, bounds>>

-----------------------------------------------------------------------------
(* runner::run *)

\* Mutant of Save: the boot time is left out.
SaveUnbooted(r) ==
    /\ r \in Runs /\ at[r] = "ready"
    /\ record' = [record EXCEPT ![r] =
                     [state |-> "running", pid |-> "none", stop |-> FALSE, boot |-> None]]
    /\ Goes(r, "saved")
    /\ UNCHANGED <<lock, old, processes, stopping, bounds>>

Save(r) ==
    /\ r \in Runs /\ at[r] = "ready"
    /\ record' = [record EXCEPT ![r] =
                     [state |-> "running", pid |-> "none", stop |-> FALSE, boot |-> boot]]
    /\ Goes(r, "saved")
    /\ UNCHANGED <<lock, old, processes, stopping, bounds>>

Spawn(r) ==
    /\ at[r] = "saved"
    /\ child' = [child EXCEPT ![r] = "alive"]
    /\ Goes(r, "spawned")
    /\ UNCHANGED <<lock, records, stranger, struck, stopping, bounds>>

SpawnFails(r) ==
    /\ at[r] = "saved"
    /\ record' = [record EXCEPT ![r].state = "failed"]
    /\ Goes(r, "recorded")
    /\ UNCHANGED <<lock, old, processes, stopping, bounds>>

\* The PID is recorded; a process that ended already has no start time.
Track(r) ==
    /\ at[r] = "spawned"
    /\ record' = [record EXCEPT ![r].pid = IF child[r] = "alive" THEN "known" ELSE "noStart"]
    /\ Goes(r, "running")
    /\ UNCHANGED <<lock, old, processes, stopping, bounds>>

\* The record cannot be written: the process is killed.
TrackFails(r) ==
    /\ at[r] = "spawned" /\ faults < MaxFaults
    /\ child' = [child EXCEPT ![r] = "gone"]
    /\ Goes(r, "recorded")
    /\ faults' = faults + 1
    /\ UNCHANGED <<lock, records, stranger, struck, stopping, boot>>

\* supervise returns once the process has ended and was waited for.
Reap(r) ==
    /\ at[r] = "running" /\ child[r] = "zombie"
    /\ child' = [child EXCEPT ![r] = "gone"]
    /\ Goes(r, "ended")
    /\ UNCHANGED <<lock, records, stranger, struck, stopping, bounds>>

\* final_state: how the run ended, unless a stop was asked for.
Finish(r) ==
    /\ at[r] = "ended"
    /\ \E s \in IF record[r].stop THEN {"stopped"} ELSE {"completed", "failed", "interrupted"} :
           record' = [record EXCEPT ![r].state = s]
    /\ Goes(r, "recorded")
    /\ UNCHANGED <<lock, old, processes, stopping, bounds>>

Release(r) ==
    /\ at[r] = "recorded"
    /\ lock' = None /\ Goes(r, "done")
    /\ UNCHANGED <<records, processes, stopping, bounds>>

-----------------------------------------------------------------------------
(* jobs::stop *)

\* A process that ended is a zombie until its helper waits for it.
Dead(r) == IF at[r] \in {"spawned", "running"} THEN "zombie" ELSE "gone"

Find(q) ==
    /\ q \in Stops /\ at[q] = "idle"
    /\ record' = Listed
    /\ \E r \in Runs : /\ Active(Listed[r])
                       /\ target' = [target EXCEPT ![q] = r]
                       /\ known' = [known EXCEPT ![q] = record[r].pid]
    /\ Goes(q, "found")
    /\ UNCHANGED <<lock, old, processes, grasp, bounds>>

Request(q) ==
    /\ at[q] = "found"
    /\ record' = [record EXCEPT ![target[q]].stop = TRUE]
    /\ Goes(q, "asked")
    /\ UNCHANGED <<lock, old, processes, stopping, bounds>>

\* stop_run: without a PID there is nothing to stop.
NothingToStop(q) ==
    /\ at[q] = "asked" /\ known[q] # "known"
    /\ Goes(q, "killed")
    /\ UNCHANGED <<lock, records, processes, stopping, bounds>>

\* process_tree takes whatever process has the PID now.
Grasp(q) ==
    /\ at[q] = "asked" /\ known[q] = "known"
    /\ LET r == target[q]
       IN grasp' = [grasp EXCEPT ![q] = CASE child[r] = "alive" -> "child"
                                          [] r \in stranger     -> "stranger"
                                          [] OTHER              -> None]
    /\ Goes(q, "grasped")
    /\ UNCHANGED <<lock, records, processes, target, known, bounds>>

\* Mutant of Kill: only the polite signal is sent.
AskOnly(q) ==
    /\ at[q] = "grasped"
    /\ Goes(q, "killed")
    /\ UNCHANGED <<lock, records, processes, stopping, bounds>>

\* wait_for_exit and kill_remaining: what was grasped and still has its start time ends.
Ended(q) ==
    LET r == target[q]
    IN  IF grasp[q] = "child" /\ child[r] = "alive"
        THEN [child EXCEPT ![r] = Dead(r)] ELSE child

\* The signal, the five seconds, and the end.
Kill(q) ==
    /\ at[q] = "grasped"
    /\ child' = Ended(q)
    /\ struck' = (struck \/ grasp[q] = "stranger")
    /\ grasp' = [grasp EXCEPT ![q] = None]
    /\ Goes(q, "killed")
    /\ UNCHANGED <<lock, records, stranger, target, known, bounds>>

Confirm(q) ==
    /\ at[q] = "killed"
    /\ record' = Listed
    /\ Goes(q, "listed")
    /\ UNCHANGED <<lock, old, processes, stopping, bounds>>

\* A record that still claims to run is closed.
Settle(q) ==
    /\ at[q] = "listed"
    /\ record' = IF Active(record[target[q]])
                 THEN [record EXCEPT ![target[q]].state = "stopped"] ELSE record
    /\ known' = [known EXCEPT ![q] = "none"]
    /\ Goes(q, "done")
    /\ UNCHANGED <<lock, old, processes, target, grasp, bounds>>

-----------------------------------------------------------------------------
(* Processes and the machine *)

\* A run's process ends, by itself or on a signal its helper passes on.
Exit(r) ==
    /\ child[r] = "alive"
    /\ child' = [child EXCEPT ![r] = Dead(r)]
    /\ UNCHANGED <<lock, records, stranger, struck, at, stopping, bounds>>

\* The system gives a free PID to somebody else's process; only a stop would notice.
Reuse(r) ==
    /\ child[r] = "gone" /\ r \notin stranger
    /\ \E q \in Stops : at[q] # "done" /\ target[q] = r /\ known[q] = "known"
    /\ stranger' = stranger \cup {r}
    /\ UNCHANGED <<lock, records, child, struck, at, stopping, bounds>>

\* Half a minute after a record was saved; it counts only for one without a PID.
GrowsOld(r) ==
    /\ Active(record[r]) /\ record[r].pid = "none" /\ r \notin old
    /\ old' = old \cup {r}
    /\ UNCHANGED <<lock, record, processes, at, stopping, bounds>>

\* A helper is killed: its lock is free, its process goes on.
HelperDies(r) ==
    /\ at[r] \notin {"idle", "done"} /\ faults < MaxFaults
    /\ lock' = IF lock = r THEN None ELSE lock
    /\ child' = [child EXCEPT ![r] = IF @ = "zombie" THEN "gone" ELSE @]
    /\ Goes(r, "done") /\ faults' = faults + 1
    /\ UNCHANGED <<records, stranger, struck, stopping, boot>>

\* The Agent's machine starts again: only the records are left.
Reboot ==
    /\ boot < MaxBoots /\ boot' = boot + 1
    /\ lock' = None
    /\ child' = [r \in Runs |-> IF child[r] = "none" THEN "none" ELSE "gone"]
    /\ stranger' = {}
    /\ at' = [a \in Actors |-> IF at[a] # "idle" /\ a \notin Syncs THEN "done" ELSE "idle"]
    /\ known' = [q \in Stops |-> "none"] /\ grasp' = [q \in Stops |-> None]
    /\ UNCHANGED <<records, struck, target, faults>>

-----------------------------------------------------------------------------
Acquire(a) == Look(a) \/ TryLock(a) \/ LookAgain(a) \/ Leave(a)

Run(r) ==
    \/ Save(r) \/ Spawn(r) \/ SpawnFails(r) \/ Track(r) \/ Reap(r) \/ Finish(r)
    \/ Release(r)

Stop(q) ==
    \/ Find(q) \/ Request(q) \/ NothingToStop(q) \/ Grasp(q) \/ Kill(q)
    \/ Confirm(q) \/ Settle(q)

Next ==
    \/ List \/ Reboot
    \/ \E a \in Workers : Acquire(a)
    \/ \E r \in Runs : \/ Run(r) \/ TrackFails(r) \/ HelperDies(r)
                       \/ Exit(r) \/ Reuse(r) \/ GrowsOld(r)
    \/ \E q \in Stops : Stop(q)

Spec == Init /\ [][Next]_vars

\* Time passes, and now and then somebody lists the jobs.
FairSpec == Spec /\ WF_vars(List) /\ \A r \in Runs : WF_vars(GrowsOld(r))

-----------------------------------------------------------------------------
TypeOK ==
    /\ lock \in Workers \cup {None}
    /\ \A r \in Runs : record[r] = None \/ record[r] \in Records
    /\ DOMAIN record = Runs /\ old \subseteq Runs
    /\ child \in [Runs -> {"none", "alive", "zombie", "gone"}]
    /\ stranger \subseteq Runs /\ struck \in BOOLEAN
    /\ at \in [Actors -> {"idle", "looked", "locked", "ready", "saved", "spawned", "running",
                          "ended", "recorded", "done", "found", "asked", "grasped", "killed",
                          "listed"}]
    /\ target \in [Stops -> Runs \cup {None}] /\ known \in [Stops -> PidKinds]
    /\ grasp \in [Stops -> {None, "child", "stranger"}]
    /\ boot \in 0 .. MaxBoots /\ faults \in 0 .. MaxFaults

\* A run's process works for Slingshot: its helper lives, or its record shows it.
Works(r) ==
    /\ child[r] = "alive"
    /\ at[r] # "done" \/ (Active(record[r]) /\ record[r].pid = "known")

\* While a run works on the copy, no synchronization and no other run does, even when
\* the helper that held the lock was killed (projects.rs acquire, jobs.rs reconcile).
RunOwnsCopy ==
    \A r \in Runs : Works(r) =>
        /\ \A s \in Syncs : at[s] # "ready"
        /\ \A o \in Runs \ {r} : ~Works(o)

\* A stop that found the run's PID does not return while the run's process is alive
\* (jobs.rs stop_run).
StopKills ==
    \A q \in Stops : at[q] \in {"killed", "listed"} /\ known[q] = "known" =>
        child[target[q]] # "alive"

\* However runs end, the records are right again and again: none claims forever that a
\* run is at work that is over, which would block the project (jobs.rs list and reconcile).
RecordsSettle == []<>(\A r \in Runs : Active(record[r]) => child[r] = "alive")

\* docs/ARCHITECTURE.md:281, "slingshot stop <id> asks a job to finish, then forces it
\* after five seconds": when stop has answered, the run is over.
StoppedIsOver ==
    \A q \in Stops : at[q] = "done" /\ target[q] # None => child[target[q]] # "alive"

\* jobs.rs:442, "Every process is matched by PID and start time": stop kills nothing else.
StrangersSpared == ~struck
=============================================================================
