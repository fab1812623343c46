--------------------------------- MODULE Watch ---------------------------------
(***************************************************************************)
(* slingshot internal-watch and the menu bar app that starts it: one       *)
(* connection to a box over whichever of its paths answers, polled for its *)
(* health and its jobs, found again after it was lost, and the notices     *)
(* that come of it (crates/slingshot-cli/src/watch/, route.rs, ssh.rs and  *)
(* client.rs, and mac/menubar/Sources/Watcher.swift).                      *)
(*                                                                         *)
(* The helper sees the box now and then only: jobs start, end and are      *)
(* forgotten, and its resources run out and recover, between two answers.  *)
(***************************************************************************)
EXTENDS Naturals, Sequences, FiniteSets

CONSTANTS
    Boxes, Measured,   \* the boxes, and those whose resource can be measured
    Candidates, Iroh,  \* a box's addresses, most preferred first; its path through iroh
    None,
    HISTORY,           \* finished jobs a box remembers
    MaxJobs,           \* bound on jobs
    Place,             \* Place[j]: the box of job j
    MaxEvents          \* bound on what happens to paths, configuration and helper

FailuresBeforeUnreachable == 2

Jobs    == 1 .. MaxJobs
Watches == [name : Boxes, based : BOOLEAN, known : SUBSET Jobs,
            failures : 0 .. FailuresBeforeUnreachable, unreachable : BOOLEAN, alarm : BOOLEAN]

ASSUME WatchAssumption ==
    /\ Candidates \in Seq(STRING) /\ Candidates # <<>>
    /\ Measured \subseteq Boxes /\ None \notin Boxes \cup Watches
    /\ Iroh \notin {Candidates[i] : i \in DOMAIN Candidates}
    /\ Place \in [1 .. MaxJobs -> Boxes]
    /\ HISTORY \in Nat /\ MaxJobs \in Nat /\ MaxEvents \in Nat

Direct == {Candidates[i] : i \in DOMAIN Candidates}
Paths  == Direct \cup {Iroh}
Levels == {"fine", "high", "between"}   \* a resource is below its warning, or too high

VARIABLES
    open,      \* the paths that lead to the boxes now
    strangers, \* the addresses at which another machine answers now
    linked,    \* the box config.toml means, None when it means none
    level,     \* how a box's resource is
    jobs,      \* jobs in the order they started: none, running, ended, brief or gone
    phase,     \* where the helper stands; "dead" or "off" when there is none
    watch,     \* what the helper remembers of the box, None before there is one
    chosen,    \* CHOSEN: the path of this process, None before it is probed
    even,      \* whether this tick asks for jobs too
    heard,     \* the health of this tick, until its jobs are here too
    shown,     \* what the app shows
    told,      \* history: how often each job was told
    eased,     \* history: the resource was fine since this Watch last warned of it
    events

box    == <<open, strangers, linked, level, jobs>>
helper == <<phase, watch, chosen, even, heard>>
vars   == <<box, helper, shown, told, eased, events>>

\* Watch::new. failures counts to FAILURES_BEFORE_UNREACHABLE; more only lengthen a wait.
New(b) == [name |-> b, based |-> FALSE, known |-> {}, failures |-> 0,
           unreachable |-> FALSE, alarm |-> FALSE]

Init ==
    /\ open = Paths /\ strangers = {} /\ linked \in Boxes
    /\ level = [b \in Boxes |-> "fine"]
    /\ jobs = [j \in Jobs |-> "none"]
    /\ phase = "load" /\ watch = None /\ chosen = None /\ even = TRUE /\ heard = "fine"
    /\ shown = "nothing"
    /\ told = [j \in Jobs |-> 0] /\ eased = TRUE /\ events = 0

-----------------------------------------------------------------------------
(* The boxes *)

\* A job starts once the one before it has: jobs are numbered by when they started.
Start(j) ==
    /\ jobs[j] = "none" /\ \A i \in 1 .. (j - 1) : jobs[i] # "none"
    /\ jobs' = [jobs EXCEPT ![j] = "running"]
    /\ UNCHANGED <<open, strangers, linked, level, helper, shown, told, eased, events>>

\* What ends is worth a notice, or is brief (a short run, a session that was left).
End(j) ==
    /\ jobs[j] = "running"
    /\ \E how \in {"ended", "brief"} : jobs' = [jobs EXCEPT ![j] = how]
    /\ UNCHANGED <<open, strangers, linked, level, helper, shown, told, eased, events>>

Finished(b) == {j \in Jobs : Place[j] = b /\ jobs[j] \in {"ended", "brief"}}

\* The HISTORY finished jobs that started last.
Kept(b) == {j \in Finished(b) : Cardinality({k \in Finished(b) : k > j}) < HISTORY}

\* jobs::list forgets the others, whoever lists.
ListJobs(b) ==
    jobs' = [j \in Jobs |-> IF j \in Finished(b) \ Kept(b) THEN "gone" ELSE jobs[j]]

SomebodyLists(b) ==
    /\ ListJobs(b)
    /\ UNCHANGED <<open, strangers, linked, level, helper, shown, told, eased, events>>

Eases(b, how) == eased' = (eased \/ (watch # None /\ watch.name = b /\ how = "fine"))

ResourceChanges(b) ==
    /\ b \in Measured
    /\ \E how \in Levels :
        /\ level' = [level EXCEPT ![b] = how]
        /\ Eases(b, how)
    /\ UNCHANGED <<open, strangers, linked, jobs, helper, shown, told, events>>

Event == events < MaxEvents /\ events' = events + 1

\* The machine moves to another network, where some other machine may have an address of the
\* box, or the box goes to sleep and wakes.
PathsChange ==
    /\ Event
    /\ open' \in SUBSET Paths
    /\ strangers' \in SUBSET (Direct \ open')
    /\ UNCHANGED <<linked, level, jobs, helper, shown, told, eased>>

\* slingshot link and unlink, next to the helper.
LinkChanges ==
    /\ Event
    /\ linked' \in Boxes \cup {None}
    /\ UNCHANGED <<open, strangers, level, jobs, helper, shown, told, eased>>

-----------------------------------------------------------------------------
(* The helper: mod.rs run and session *)

\* route::answers: somebody takes the connection. ssh finds out whether it is the box.
Answers(host) == host \in open \cup strangers

\* route::probe: the first address that answers, or else iroh.
Probe ==
    LET answering == {i \in DOMAIN Candidates : Answers(Candidates[i])}
    IN  IF answering = {} THEN Iroh
        ELSE Candidates[CHOOSE i \in answering : \A k \in answering : i <= k]

\* Mutant of Forgotten: the path is never probed again.
StillChosen == chosen

\* route::forget
Forgotten == None

\* Watch::failed counts as far as it matters.
Failures(w) == IF w.failures < FailuresBeforeUnreachable THEN w.failures + 1 ELSE w.failures

\* Mutant of Fails: a lost box is watched from a new baseline.
FailsBlank(w) == [w EXCEPT !.failures = Failures(w), !.based = FALSE, !.known = {}]

\* Watch::failed: two failures in a row are an outage, which is said once.
Fails(w) ==
    [w EXCEPT !.failures = Failures(w),
              !.unreachable = @ \/ Failures(w) = FailuresBeforeUnreachable]

\* The attempt ends: the box is shown offline, the path is forgotten, and there is a wait.
Gone ==
    /\ watch' = IF watch = None THEN None ELSE Fails(watch)
    /\ shown' = "offline"
    /\ chosen' = Forgotten
    /\ phase' = "wait"
    /\ heard' = "fine"
    /\ UNCHANGED <<box, even, told>>

\* The configuration is read for every attempt. Another box begins another Watch.
Load ==
    /\ phase = "load"
    /\ IF linked = None
       THEN Gone /\ UNCHANGED <<eased, events>>
       ELSE /\ IF watch # None /\ watch.name = linked
               THEN UNCHANGED <<watch, eased>>
               ELSE watch' = New(linked) /\ eased' = TRUE
            /\ phase' = "dial"
            /\ UNCHANGED <<box, chosen, even, heard, shown, told, events>>

\* route::resolve keeps the first answer of a probe.
Resolved == IF chosen = None THEN Probe ELSE chosen

\* RemoteCommand::to and Control::connect: ssh is started on the path of this process.
Dial ==
    /\ phase = "dial"
    /\ chosen' = Resolved
    /\ even' = TRUE
    /\ phase' = "health"
    /\ UNCHANGED <<box, watch, heard, shown, told, eased, events>>

\* Mutant of Alarm: an alarm is armed again as soon as it is not triggered.
AlarmTwitchy(w, how) == how = "high"

\* Watch::alarm: once triggered it is armed again only by a recovery.
Alarm(w, how) == how # "fine" /\ (w.alarm \/ how = "high")

\* Mutant of Baseline: the first list is compared with nothing.
NoBaseline(w) == w.known

\* The finished jobs the next list is compared with; the first is only remembered.
Baseline(w) == IF w.based THEN w.known ELSE Finished(w.name)

\* Watch::jobs: what of a list is news, without the brief ones.
News(w) == {j \in Kept(w.name) \ Baseline(w) : jobs[j] = "ended"}

\* An answer: the box is shown, an outage is over, and the resource is looked at.
Answered(w, how) ==
    /\ watch' = [w EXCEPT !.failures = 0, !.unreachable = FALSE, !.alarm = Alarm(w, how)]
    /\ eased' = IF ~w.alarm /\ Alarm(w, how) THEN level[w.name] = "fine" ELSE eased
    /\ shown' = "online"
    /\ heard' = "fine"
    /\ phase' = "sleep"

\* telemetry::health, as the box measures it now.
Health(b) == level[b]

AskHealth ==
    /\ phase = "health" /\ chosen \in open
    /\ IF even
       THEN /\ heard' = Health(watch.name)
            /\ phase' = "jobs"
            /\ UNCHANGED <<watch, shown, eased>>
       ELSE Answered(watch, level[watch.name])
    /\ UNCHANGED <<box, chosen, even, told, events>>

AskJobs ==
    /\ phase = "jobs" /\ chosen \in open
    /\ ListJobs(watch.name)
    /\ told' = [j \in Jobs |-> told[j] + (IF j \in News(watch) THEN 1 ELSE 0)]
    /\ Answered([watch EXCEPT !.based = TRUE, !.known = Kept(watch.name)], heard)
    /\ UNCHANGED <<open, strangers, linked, level, chosen, even, events>>

\* The connection ends, or never came about: nobody answers, or a machine without the box's
\* host key does.
Lose ==
    /\ phase \in {"health", "jobs"} /\ chosen \notin open
    /\ Gone /\ UNCHANGED <<eased, events>>

\* TICK_LIMIT: an answer that takes too long is as good as none.
TooSlow ==
    /\ phase \in {"health", "jobs"} /\ events < MaxEvents
    /\ events' = events + 1
    /\ Gone /\ UNCHANGED eased

NextTick ==
    /\ phase = "sleep"
    /\ even' = ~even
    /\ phase' = "health"
    /\ UNCHANGED <<box, watch, chosen, heard, shown, told, eased, events>>

\* The wait is over, or Try again was pressed.
TryAgain ==
    /\ phase = "wait"
    /\ phase' = "load"
    /\ UNCHANGED <<box, watch, chosen, even, heard, shown, told, eased, events>>

-----------------------------------------------------------------------------
(* The app *)

\* The helper ends for some reason, with all it remembers.
HelperEnds ==
    /\ Event
    /\ phase \notin {"dead", "off"}
    /\ phase' = "dead" /\ watch' = None /\ chosen' = None
    /\ even' = TRUE /\ heard' = "fine" /\ eased' = TRUE
    /\ UNCHANGED <<box, shown, told>>

\* Watcher.ended starts another one after a while.
Relaunch ==
    /\ phase = "dead"
    /\ phase' = "load"
    /\ UNCHANGED <<box, watch, chosen, even, heard, shown, told, eased, events>>

\* It is not tried a second time when the program is not there at that moment.
ProgramMissing ==
    /\ Event
    /\ phase = "dead"
    /\ phase' = "off"
    /\ UNCHANGED <<box, watch, chosen, even, heard, shown, told, eased>>

\* Try again, without a helper.
Retry ==
    /\ phase = "off"
    /\ phase' = "load"
    /\ UNCHANGED <<box, watch, chosen, even, heard, shown, told, eased, events>>

-----------------------------------------------------------------------------
Helper == Load \/ Dial \/ AskHealth \/ AskJobs \/ Lose \/ NextTick \/ TryAgain

Next ==
    \/ \E j \in Jobs : Start(j) \/ End(j)
    \/ \E b \in Boxes : SomebodyLists(b) \/ ResourceChanges(b)
    \/ PathsChange \/ LinkChanges
    \/ Helper \/ TooSlow
    \/ HelperEnds \/ Relaunch \/ ProgramMissing \/ Retry

Spec == Init /\ [][Next]_vars

\* The helper's loop never rests for good, and the app's timer fires.
FairSpec == Spec /\ WF_vars(Helper) /\ WF_vars(Relaunch)

-----------------------------------------------------------------------------
TypeOK ==
    /\ open \subseteq Paths /\ strangers \subseteq Direct /\ linked \in Boxes \cup {None}
    /\ level \in [Boxes -> Levels]
    /\ jobs \in [Jobs -> {"none", "running", "ended", "brief", "gone"}]
    /\ phase \in {"load", "dial", "health", "jobs", "sleep", "wait", "dead", "off"}
    /\ watch \in Watches \cup {None}
    /\ chosen \in Paths \cup {None} /\ even \in BOOLEAN /\ heard \in Levels
    /\ shown \in {"nothing", "offline", "online"}
    /\ told \in [Jobs -> Nat] /\ eased \in BOOLEAN
    /\ events \in 0 .. MaxEvents
    /\ phase \in {"dial", "health", "jobs", "sleep"} => watch # None

\* The box of j is watched, and its jobs were listed before.
Follows(j) == watch # None /\ watch.name = Place[j] /\ watch.based

\* A job is told once at most: lost connections, other boxes, new helpers and forgotten
\* records never replay it (state.rs, "starting the menu bar never replays history").
ToldOnce == \A j \in Jobs : told[j] <= 1

\* A resource that went too high is warned of again only after it was fine in between, as
\* long as one Watch goes on (state.rs, "then again only after it has clearly recovered").
WarnsOnce ==
    [][ watch # None /\ watch' # None /\ watch.name = watch'.name
            /\ ~watch.alarm /\ watch'.alarm => eased ]_vars

\* Why a job is not told again: it is over, and the next list is compared with it.
ToldInv ==
    \A j \in Jobs : /\ told[j] <= 1
                    /\ told[j] = 1 => jobs[j] \in {"ended", "gone"}
                    /\ told[j] = 1 /\ jobs[j] = "ended" /\ Follows(j) => j \in watch.known

\* A resource that is fine now, or was in the last answer, has been fine since the last
\* warning, and so has one whose alarm is armed.
EasedInv ==
    watch # None => /\ level[watch.name] = "fine" => eased
                    /\ phase = "jobs" /\ heard = "fine" => eased
                    /\ ~watch.alarm => eased

\* Some path leads to the box, and no other machine answers at an address that is preferred to
\* the first that does.
Found ==
    /\ open # {}
    /\ \A i \in DOMAIN Candidates : Candidates[i] \in strangers =>
        \E k \in DOMAIN Candidates : k < i /\ Candidates[k] \in open

Reachable == Found /\ linked # None /\ phase # "off"

\* However often a path was lost before, a box that can be reached is shown as online in the
\* end: a path that is dead, or leads to a stranger, is given up for one that leads to the box
\* once a probe finds it (route.rs forget).
ShownAgain == <>[]Reachable => <>[](shown = "online")

\* docs/ARCHITECTURE.md:183, of iroh: it reaches a box when "Both machines have internet access,
\* anywhere." But an address that a stranger answers at is preferred each time.
ShownAnywhere ==
    <>[](Iroh \in open /\ linked # None /\ phase # "off") => <>[](shown = "online")

\* A job that ends while its box is watched is told once the box is found again, unless
\* HISTORY jobs that started later ended before the next list, the box is not the one any
\* more, or the helper was started again.
Unheard(j) == Follows(j) /\ jobs[j] = "ended" /\ j \notin watch.known

FinishesAreTold ==
    <>[]Reachable =>
        \A j \in Jobs : Unheard(j) ~>
            (told[j] = 1 \/ jobs[j] = "gone" \/ watch = None \/ watch.name # Place[j])
=============================================================================
