------------------------------- MODULE Sessions -------------------------------
(***************************************************************************)
(* The persistent sessions of slingshot attach: tmux sessions with a job   *)
(* record each, in one project's copy or in the Agent's home folder, next  *)
(* to slingshot stop, ps and unlink and to synchronizations                *)
(* (crates/slingshot-agent/src/jobs.rs and projects.rs,                    *)
(* crates/slingshot-cli/src/commands/attach.rs).                           *)
(*                                                                         *)
(* A record and the tmux session it describes are two things, written one  *)
(* after the other. tmux goes on when the daemon dies and ends with the    *)
(* machine. Each attach would create the session that has its own name.    *)
(***************************************************************************)
EXTENDS Naturals

CONSTANTS
    AtProject, AtHome,  \* attach requests, in the project and outside of one
    Stops, Unlinks,     \* stop requests, unlink requests
    Others,             \* synchronizations: they hold the project lock for a while
    None,
    MaxFaults           \* bound on failures, tmux's included, and restarts

ASSUME SessionsAssumption ==
    /\ None \notin AtProject \cup AtHome \cup Stops \cup Unlinks \cup Others
    /\ AtProject \cap AtHome = {}
    /\ (AtProject \cup AtHome) \cap (Stops \cup Unlinks \cup Others) = {}
    /\ Stops \cap Unlinks = {} /\ Stops \cap Others = {} /\ Unlinks \cap Others = {}
    /\ MaxFaults \in Nat

Sessions == AtProject \cup AtHome
Holders  == AtProject \cup Unlinks \cup Others
Actors   == Sessions \cup Holders \cup Stops

VARIABLES
    active,   \* sessions whose record claims that they run
    tmux,     \* sessions that live in tmux
    coming,   \* sessions whose tmux command outlived the daemon
    early,    \* history: sessions whose record was closed before tmux had them
    missed,   \* history: living sessions that tmux failed to tell of, or to end
    lock,     \* who holds the project lock
    home,     \* who holds home.lock
    at,       \* where each request stands
    target,   \* target[q]: the session a stop request found
    faults

locks == <<lock, home>>
vars  == <<active, tmux, coming, early, missed, locks, at, target, faults>>

Goes(a, place) == at' = [at EXCEPT ![a] = place]

Init ==
    /\ active = {} /\ tmux = {} /\ coming = {} /\ early = {} /\ missed = {}
    /\ lock = None /\ home = None
    /\ at = [a \in Actors |-> "idle"]
    /\ target = [q \in Stops |-> None]
    /\ faults = 0

-----------------------------------------------------------------------------
(* Records: how a closed one ended makes no difference here (RunWork has that) *)

\* tmux has-session, for which failing to run or to answer is the same as "no such session".
SessionExists(s, failing) == s \in tmux /\ s \notin failing

\* The active records once they are listed, which is under the records lock: reconcile
\* asks tmux, which has no session of an earlier boot.
Listed(failing) == {s \in active : SessionExists(s, failing)}

\* The living sessions for which has-session may fail in one reading of the records.
Failures == {failing \in SUBSET (active \cap tmux) : failing # {} => faults < MaxFaults}

Reads(failing) ==
    /\ active' = Listed(failing)
    /\ missed' = missed \cup failing
    /\ faults' = IF failing = {} THEN faults ELSE faults + 1

ReadRecords == \E failing \in Failures : Reads(failing)

\* An advisory lock (flock) nobody holds: the system frees those of a process that dies.
Free(mutex) == mutex = None

Place(a) == IF a \in AtProject THEN AtProject ELSE AtHome

\* active_session: the sessions listed where a works.
Live(a) == active \cap Place(a)

List ==
    /\ ReadRecords
    /\ UNCHANGED <<tmux, coming, early, locks, at, target>>

-----------------------------------------------------------------------------
(* jobs::session *)

\* The request looks for a live session; if there is one it is given that one and is
\* done, and if there is none it goes on to place.
LookThen(a, place) ==
    /\ ReadRecords
    /\ Goes(a, IF Live(a)' # {} THEN "done" ELSE place)

Look(a) ==
    /\ a \in Sessions /\ at[a] = "idle"
    /\ LookThen(a, "looked")
    /\ UNCHANGED <<tmux, coming, early, locks, target>>

\* acquire(Blocking::Runs): another session does not block it, and both of its readings of
\* the records only correct them.
TakeProject(a) ==
    /\ a \in AtProject /\ at[a] = "looked" /\ Free(lock)
    /\ lock' = a
    /\ ReadRecords
    /\ Goes(a, "ready")
    /\ UNCHANGED <<tmux, coming, early, home, target>>

\* The project is busy: a session that came meanwhile will do, or the request is refused.
ProjectBusy(a) ==
    /\ a \in AtProject /\ at[a] = "looked" /\ ~Free(lock)
    /\ LookThen(a, "done")
    /\ UNCHANGED <<tmux, coming, early, locks, target>>

\* home.lock is waited for.
TakeHome(a) ==
    /\ a \in AtHome /\ at[a] = "looked" /\ Free(home)
    /\ home' = a
    /\ Goes(a, "held")
    /\ UNCHANGED <<active, tmux, coming, early, missed, lock, target, faults>>

LetGo(a) ==
    /\ lock' = IF lock = a THEN None ELSE lock
    /\ home' = IF home = a THEN None ELSE home

\* Mutant of LookAgain: the home folder's session is not looked for under the lock.
LookOnce(a) ==
    /\ at[a] = "held"
    /\ Goes(a, "ready")
    /\ UNCHANGED <<active, tmux, coming, early, missed, locks, target, faults>>

\* For the home folder the live session is looked for again, with the lock.
LookAgain(a) ==
    /\ at[a] = "held"
    /\ LookThen(a, "ready")
    /\ IF Live(a)' # {} THEN LetGo(a) ELSE UNCHANGED locks
    /\ UNCHANGED <<tmux, coming, early, target>>

\* The records cannot be read, or ensure_ready, prepare_artifacts or prepare_server fails.
NotReady(a) ==
    /\ a \in Sessions /\ at[a] \in {"looked", "held", "ready"} /\ faults < MaxFaults
    /\ LetGo(a) /\ Goes(a, "done")
    /\ faults' = faults + 1
    /\ UNCHANGED <<active, tmux, coming, early, missed, target>>

Save(a) ==
    /\ a \in Sessions /\ at[a] = "ready"
    /\ active' = active \cup {a}
    /\ Goes(a, "saved")
    /\ UNCHANGED <<tmux, coming, early, missed, locks, target, faults>>

\* tmux new-session. The record may have been closed already, as tmux had no such session.
Born(s) ==
    /\ tmux' = tmux \cup {s}
    /\ early' = IF s \in active THEN early ELSE early \cup {s}

Create(a) ==
    /\ at[a] = "saved"
    /\ Born(a)
    /\ Goes(a, "created")
    /\ UNCHANGED <<active, missed, coming, locks, target, faults>>

CreateFails(a) ==
    /\ at[a] = "saved" /\ faults < MaxFaults
    /\ active' = active \ {a}
    /\ LetGo(a) /\ Goes(a, "done")
    /\ faults' = faults + 1
    /\ UNCHANGED <<tmux, coming, early, missed, target>>

\* Mutant of Answer: an attach outside of a project keeps home.lock.
AnswerHolding(a) ==
    /\ at[a] = "created"
    /\ lock' = IF lock = a THEN None ELSE lock
    /\ Goes(a, "done")
    /\ UNCHANGED <<active, tmux, coming, early, missed, home, target, faults>>

Answer(a) ==
    /\ at[a] = "created"
    /\ LetGo(a) /\ Goes(a, "done")
    /\ UNCHANGED <<active, tmux, coming, early, missed, target, faults>>

-----------------------------------------------------------------------------
(* jobs::stop with stop_session *)

Find(q) ==
    /\ q \in Stops /\ at[q] = "idle"
    /\ ReadRecords
    /\ \E s \in active' : target' = [target EXCEPT ![q] = s]
    /\ Goes(q, "found")
    /\ UNCHANGED <<tmux, coming, early, locks>>

\* Mutant of Kill: Ctrl C is sent to every pane and the session is left to end.
AskOnly(q) ==
    /\ at[q] = "found"
    /\ Goes(q, "killed")
    /\ UNCHANGED <<active, tmux, coming, early, missed, locks, target, faults>>

\* Ctrl C to every pane, the grace period, tmux kill-session, and SIGKILL for what is left of
\* the panes' processes.
Kill(q) ==
    /\ at[q] = "found"
    /\ tmux' = tmux \ {target[q]}
    /\ Goes(q, "killed")
    /\ UNCHANGED <<active, coming, early, missed, locks, target, faults>>

\* tmux neither names the panes nor ends the session, and stop goes on all the same.
KillFails(q) ==
    /\ at[q] = "found" /\ target[q] \in tmux
    /\ faults < MaxFaults /\ faults' = faults + 1
    /\ missed' = missed \cup {target[q]}
    /\ Goes(q, "killed")
    /\ UNCHANGED <<active, tmux, coming, early, locks, target>>

\* The records are read once more, or cannot be, which makes no difference.
Confirm(q) ==
    /\ at[q] = "killed"
    /\ ReadRecords \/ UNCHANGED <<active, missed, faults>>
    /\ Goes(q, "listed")
    /\ UNCHANGED <<tmux, coming, early, locks, target>>

\* A record that still claims to run is closed, whether the session is gone or not.
Settle(q) ==
    /\ at[q] = "listed"
    /\ active' = active \ {target[q]}
    /\ target' = [target EXCEPT ![q] = None]
    /\ Goes(q, "idle")
    /\ UNCHANGED <<tmux, coming, early, missed, locks, faults>>

-----------------------------------------------------------------------------
(* projects::unlink and the others that take the project lock *)

Blocked == active \cap AtProject # {}

\* acquire(Blocking::AllJobs): the project's jobs, then the lock, then its jobs again.
LookForJobs(u) ==
    /\ u \in Unlinks /\ at[u] = "idle"
    /\ ReadRecords
    /\ Goes(u, IF Blocked' THEN "idle" ELSE "looked")
    /\ UNCHANGED <<tmux, coming, early, locks, target>>

TakeIdle(u) ==
    /\ u \in Unlinks /\ at[u] = "looked"
    /\ IF Free(lock) THEN lock' = u /\ Goes(u, "held")
       ELSE Goes(u, "idle") /\ UNCHANGED lock
    /\ UNCHANGED <<active, tmux, coming, early, missed, home, target, faults>>

\* Mutant of LookForJobsAgain: what was seen before the lock is trusted.
TrustFirstLook(u) ==
    /\ u \in Unlinks /\ at[u] = "held"
    /\ Goes(u, "removing")
    /\ UNCHANGED <<active, tmux, coming, early, missed, locks, target, faults>>

LookForJobsAgain(u) ==
    /\ u \in Unlinks /\ at[u] = "held"
    /\ ReadRecords
    /\ IF Blocked' THEN Goes(u, "idle") /\ LetGo(u)
       ELSE Goes(u, "removing") /\ UNCHANGED locks
    /\ UNCHANGED <<tmux, coming, early, target>>

\* The environment files are gone and the lock is let go.
Removed(u) ==
    /\ at[u] = "removing"
    /\ LetGo(u) /\ Goes(u, "idle")
    /\ UNCHANGED <<active, tmux, coming, early, missed, target, faults>>

\* A synchronization takes the project lock and gives it back, sessions or not.
OtherTakes(o) ==
    /\ o \in Others /\ at[o] = "idle" /\ Free(lock)
    /\ lock' = o
    /\ ReadRecords
    /\ Goes(o, "working")
    /\ UNCHANGED <<tmux, coming, early, home, target>>

OtherLeaves(o) ==
    /\ o \in Others /\ at[o] = "working"
    /\ LetGo(o) /\ Goes(o, "idle")
    /\ UNCHANGED <<active, tmux, coming, early, missed, target, faults>>

-----------------------------------------------------------------------------
(* tmux, the daemon and the machine *)

\* The last shell of a session exits.
Exit(s) ==
    /\ s \in tmux
    /\ tmux' = tmux \ {s}
    /\ UNCHANGED <<active, coming, early, missed, locks, at, target, faults>>

\* The requests under way are gone; a stop, an unlink or a sync may come again.
Halted == [a \in Actors |-> IF at[a] = "idle" \/ a \notin Sessions THEN "idle" ELSE "done"]

\* The daemon is killed: its requests and locks are gone, a tmux command goes on.
DaemonDies ==
    /\ faults < MaxFaults /\ faults' = faults + 1
    /\ coming' = coming \cup {a \in Sessions : at[a] = "saved"}
    /\ lock' = None /\ home' = None
    /\ at' = Halted /\ target' = [q \in Stops |-> None]
    /\ UNCHANGED <<active, tmux, early, missed>>

CreateLate(s) ==
    /\ s \in coming
    /\ coming' = coming \ {s}
    /\ Born(s)
    /\ UNCHANGED <<active, missed, locks, at, target, faults>>

\* The machine starts again: only the records are left.
Reboot ==
    /\ faults < MaxFaults /\ faults' = faults + 1
    /\ tmux' = {} /\ coming' = {} /\ lock' = None /\ home' = None
    /\ at' = Halted /\ target' = [q \in Stops |-> None]
    /\ UNCHANGED <<active, early, missed>>

-----------------------------------------------------------------------------
\* What a request does next by itself.
Attach(a) ==
    \/ Look(a) \/ TakeProject(a) \/ ProjectBusy(a) \/ TakeHome(a) \/ LookAgain(a)
    \/ Save(a) \/ Create(a) \/ Answer(a)

Stop(q)   == Find(q) \/ Kill(q) \/ KillFails(q) \/ Confirm(q) \/ Settle(q)
Unlink(u) == LookForJobs(u) \/ TakeIdle(u) \/ LookForJobsAgain(u) \/ Removed(u)

Next ==
    \/ List \/ DaemonDies \/ Reboot
    \/ \E a \in Sessions : \/ Attach(a) \/ NotReady(a) \/ CreateFails(a)
                           \/ Exit(a) \/ CreateLate(a)
    \/ \E q \in Stops : Stop(q)
    \/ \E u \in Unlinks : Unlink(u)
    \/ \E o \in Others : OtherTakes(o) \/ OtherLeaves(o)

Spec == Init /\ [][Next]_vars

\* A request the daemon has taken goes on: flock wakes a waiter when the lock is free, and
\* whoever waits long enough gets it.
FairSpec ==
    /\ Spec
    /\ \A a \in Sessions : WF_vars(at[a] # "idle" /\ Attach(a))
    /\ \A a \in AtHome : SF_vars(TakeHome(a))

-----------------------------------------------------------------------------
TypeOK ==
    /\ active \subseteq Sessions /\ tmux \subseteq Sessions
    /\ coming \subseteq Sessions /\ early \subseteq Sessions /\ missed \subseteq Sessions
    /\ lock \in Holders \cup {None} /\ home \in AtHome \cup {None}
    /\ at \in [Actors -> {"idle", "looked", "held", "ready", "saved", "created", "done",
                          "found", "killed", "listed", "removing", "working"}]
    /\ target \in [Stops -> Sessions \cup {None}]
    /\ faults \in 0 .. MaxFaults

\* The sessions that may live although no record says so: jobs.rs:405 saves the record before
\* new-session, and jobs.rs:197-202 and 506 take a tmux that fails for one that obeys.
Unrecorded == early \cup missed

\* The home folder has one session (docs/ARCHITECTURE.md, Runs And Sessions): whoever attaches,
\* a second one comes only beside one whose record was lost to a race with list or to tmux.
OneHomeSession == \A s, t \in (tmux \cap AtHome) \ Unrecorded : s = t

\* A session that lives is listed, so ps shows it, attach returns to it, stop finds it and
\* unlink waits for it, unless tmux failed for this very session or did not have it yet.
LivingIsListed == tmux \ Unrecorded \subseteq active

\* unlink removes nothing while a session of the project is being made or lives with a record
\* (projects.rs unlink, "Every project must be idle first").
UnlinkWaits ==
    \A u \in Unlinks : at[u] = "removing" =>
        \A s \in AtProject : (s \in tmux => s \in Unrecorded) /\ at[s] \notin {"saved", "created"}

\* Every attach is answered, although home.lock is waited for without a limit.
AttachAnswered == \A a \in Sessions : at[a] = "looked" ~> at[a] = "done"

\* docs/ARCHITECTURE.md:271, "Each project has one session".
OneProjectSession == \A s, t \in (tmux \cap AtProject) \ Unrecorded : s = t

\* docs/ARCHITECTURE.md:271, "and the home folder has one".
HomeHasOne == \A s, t \in tmux \cap AtHome : s = t

\* projects.rs:443, "Every project must be idle first."
IdleFirst == \A u \in Unlinks : at[u] = "removing" => tmux \cap AtProject = {}
=============================================================================
