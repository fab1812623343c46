---------------------------- MODULE RunWorkProofs ----------------------------
(***************************************************************************)
(* Proofs about RunWork, for any runs, synchronizations and stop requests, *)
(* and any number of killed helpers and restarts.                          *)
(***************************************************************************)
EXTENDS RunWork, TLAPS

USE DEF records, processes, stopping, bounds

LEMMA ActorsApart ==
    /\ Workers \subseteq Actors /\ Runs \subseteq Workers /\ Syncs \subseteq Workers
    /\ Stops \subseteq Actors /\ Runs \cap Syncs = {} /\ Workers \cap Stops = {}
    /\ None \notin Actors /\ None \notin Records
  BY ActorsAssumption DEF Actors, Workers

(***************************************************************************)
(* Where a run stands tells what there is of its record and its process;   *)
(* where a stop request stands tells what it knows of them.                *)
(***************************************************************************)
Early == {"idle", "looked", "locked", "ready"}
Later == {"saved", "spawned", "running", "ended", "recorded"}

Stages ==
    \A r \in Runs :
        /\ at[r] \in Early \cup Later \cup {"done"}
        /\ at[r] \in Early => record[r] = None /\ child[r] = "none"
        /\ at[r] \in {"saved", "spawned", "running", "ended"} => record[r] # None
        /\ at[r] \in {"saved", "spawned"} => record[r].pid = "none"
        /\ at[r] = "saved" => child[r] = "none"
        /\ at[r] \in {"ended", "recorded"} => child[r] # "alive"
        /\ child[r] = "alive" \/ at[r] = "saved" =>
               record[r] # None /\ record[r].boot = boot
        /\ r \in stranger => child[r] = "gone"

Tasks ==
    \A q \in Stops :
        /\ at[q] \in {"found", "asked", "grasped", "killed", "listed"} =>
               target[q] \in Runs /\ record[target[q]] # None
        /\ known[q] = "known" =>
               target[q] \in Runs /\ at[target[q]] \notin Early \cup {"saved", "spawned"}
        /\ at[q] = "grasped" =>
               known[q] = "known" /\ (child[target[q]] = "alive" => grasp[q] = "child")

Base == TypeOK /\ Stages /\ Tasks /\ StopKills

\* What listing the records leaves of them.
LEMMA Relisted ==
    ASSUME TypeOK, record' = Listed
    PROVE  /\ DOMAIN record' = Runs
           /\ \A r \in Runs :
                  /\ record'[r] = None <=> record[r] = None
                  /\ record[r] # None => /\ record'[r] \in Records
                                         /\ record'[r].pid = record[r].pid
                                         /\ record'[r].boot = record[r].boot
                  /\ Active(record'[r]) => record'[r] = record[r]
  BY ActorsApart DEF TypeOK, Listed, Active, Verdict, Records, States

LEMMA BaseInit == Init => Base
  <1> SUFFICES ASSUME Init PROVE Base
    OBVIOUS
  <1> USE ActorsApart, ActorsAssumption DEF Init
  <1>1. \A a \in Actors : at[a] = "idle"
    OBVIOUS
  <1>2. TypeOK
    <2>1. known \in [Stops -> PidKinds]
      BY DEF PidKinds
    <2>2. DOMAIN record = Runs /\ \A r \in Runs : record[r] = None
      OBVIOUS
    <2>3. /\ child \in [Runs -> {"none", "alive", "zombie", "gone"}] /\ stranger \subseteq Runs
          /\ struck \in BOOLEAN
      OBVIOUS
    <2>4. /\ target \in [Stops -> Runs \cup {None}]
          /\ grasp \in [Stops -> {None, "child", "stranger"}]
      OBVIOUS
    <2>5. at \in [Actors -> {"idle"}]
      OBVIOUS
    <2>6. lock \in Workers \cup {None} /\ old \subseteq Runs
      OBVIOUS
    <2>7. boot \in 0 .. MaxBoots /\ faults \in 0 .. MaxFaults
      OBVIOUS
    <2> QED
      BY <2>1, <2>2, <2>3, <2>4, <2>5, <2>6, <2>7 DEF TypeOK
  <1>3. Stages
    BY <1>1 DEF Stages, Early, Later
  <1>4. Tasks /\ StopKills
    BY <1>1 DEF Tasks, StopKills
  <1> QED
    BY <1>2, <1>3, <1>4 DEF Base

(***************************************************************************)
(* Base, for the parts of Next.                                            *)
(***************************************************************************)
LEMMA BaseAcquire ==
    ASSUME Base, NEW a \in Workers, Acquire(a)
    PROVE  Base'
  <1> USE ActorsApart DEF Base, TypeOK, Stages, Tasks, StopKills, Early, Later, Goes, Refused
  <1>1. CASE Look(a)
    BY <1>1, Relisted DEF Look
  <1>2. CASE TryLock(a)
    BY <1>2 DEF TryLock
  <1>3. CASE LookAgain(a)
    BY <1>3, Relisted DEF LookAgain
  <1>4. CASE Leave(a)
    BY <1>4 DEF Leave
  <1> QED
    BY <1>1, <1>2, <1>3, <1>4 DEF Acquire

LEMMA NewRecord ==
    ASSUME NEW b \in Nat
    PROVE  LET new == [state |-> "running", pid |-> "none", stop |-> FALSE, boot |-> b]
           IN  new \in Records /\ new # None
  <1> DEFINE new == [state |-> "running", pid |-> "none", stop |-> FALSE, boot |-> b]
  <1>1. new \in Records
    BY DEF Records, States, PidKinds
  <1>2. new # None
    BY <1>1, ActorsApart
  <1> QED
    BY <1>1, <1>2

LEMMA BaseRun ==
    ASSUME Base, NEW r \in Runs, Run(r) \/ TrackFails(r)
    PROVE  Base'
  <1> USE ActorsApart, ActorsAssumption
      DEF Base, TypeOK, Stages, Tasks, StopKills, Early, Later, Goes, Records, PidKinds, States
  <1>1. CASE Save(r)
    <2> DEFINE new == [state |-> "running", pid |-> "none", stop |-> FALSE, boot |-> boot]
    <2>1. boot \in Nat
      OBVIOUS
    <2>2. new \in Records /\ new # None
      BY <2>1, NewRecord
    <2>3. new.pid = "none" /\ new.boot = boot
      OBVIOUS
    <2>4. record' = [record EXCEPT ![r] = new]
      BY <1>1 DEF Save
    <2> HIDE DEF new
    <2>5. /\ at'[r] = "saved" /\ record'[r] = new
          /\ \A s \in Runs \ {r} : at'[s] = at[s] /\ record'[s] = record[s]
          /\ \A q \in Stops : at'[q] = at[q]
      BY <1>1, <2>4 DEF Save
    <2>6. UNCHANGED <<lock, old, processes, stopping, bounds>> /\ at[r] = "ready"
      BY <1>1 DEF Save
    <2>7. TypeOK'
      BY <1>1, <2>2, <2>4 DEF Save
    <2>8. Stages'
      BY <2>2, <2>3, <2>5, <2>6
    <2>9. Tasks' /\ StopKills'
      BY <2>2, <2>5, <2>6
    <2> QED
      BY <2>7, <2>8, <2>9
  <1>2. CASE Spawn(r)
    BY <1>2 DEF Spawn
  <1>3. CASE SpawnFails(r)
    BY <1>3 DEF SpawnFails
  <1>4. CASE Track(r)
    BY <1>4 DEF Track
  <1>5. CASE TrackFails(r)
    BY <1>5 DEF TrackFails
  <1>6. CASE Reap(r)
    BY <1>6 DEF Reap
  <1>7. CASE Finish(r)
    BY <1>7 DEF Finish
  <1>8. CASE Release(r)
    BY <1>8 DEF Release
  <1> QED
    BY <1>1, <1>2, <1>3, <1>4, <1>5, <1>6, <1>7, <1>8 DEF Run

LEMMA BaseStop ==
    ASSUME Base, NEW q \in Stops, Stop(q)
    PROVE  Base'
  <1> USE ActorsApart DEF Base, TypeOK, Stages, Tasks, StopKills, Early, Later, Goes
  <1>1. CASE Find(q)
    <2>1. PICK r \in Runs : /\ Active(record'[r])
                            /\ target' = [target EXCEPT ![q] = r]
                            /\ known' = [known EXCEPT ![q] = record[r].pid]
      BY <1>1 DEF Find
    <2>2. record[r] # None /\ record'[r] # None /\ record[r].pid \in PidKinds
      BY <1>1, <2>1, Relisted DEF Active, Find, Records
    <2> QED
      BY <1>1, <2>1, <2>2, Relisted DEF Find
  <1>2. CASE Request(q)
    <2>1. PICK new \in Records : /\ record' = [record EXCEPT ![target[q]] = new]
                                /\ new.pid = record[target[q]].pid
                                /\ new.boot = record[target[q]].boot
      <3> DEFINE n == [record[target[q]] EXCEPT !.stop = TRUE]
      <3>1. record[target[q]] \in Records
        BY <1>2 DEF Request
      <3>2. n \in Records /\ n.pid = record[target[q]].pid /\ n.boot = record[target[q]].boot
        BY <3>1 DEF Records
      <3>3. record' = [record EXCEPT ![target[q]] = n]
        BY <1>2 DEF Request
      <3> QED
        BY <3>2, <3>3
    <2>2. target[q] \in Runs /\ record[target[q]] # None /\ new # None
      BY <1>2 DEF Request
    <2>3. UNCHANGED <<lock, old, processes, stopping, bounds>> /\ at[q] = "found"
          /\ at' = [at EXCEPT ![q] = "asked"]
      BY <1>2 DEF Request
    <2>4. record'[target[q]] = new /\ DOMAIN record' = Runs
          /\ \A r \in Runs \ {target[q]} : record'[r] = record[r]
      BY <2>1, <2>2
    <2>5. \A r \in Runs : /\ record'[r] = None \/ record'[r] \in Records
                          /\ record'[r] = None <=> record[r] = None
                          /\ record[r] # None => /\ record'[r].pid = record[r].pid
                                                 /\ record'[r].boot = record[r].boot
      BY <2>1, <2>2, <2>4
    <2>6. TypeOK'
      BY <2>3, <2>4, <2>5
    <2>7. \A r \in Runs : at'[r] = at[r]
      BY <2>3
    <2>8. Stages'
      BY <2>3, <2>5, <2>7
    <2>9. Tasks' /\ StopKills'
      BY <2>3, <2>5, <2>7
    <2> QED
      BY <2>6, <2>8, <2>9
  <1>3. CASE NothingToStop(q)
    BY <1>3 DEF NothingToStop
  <1>4. CASE Grasp(q)
    <2>1. PICK g \in {None, "child", "stranger"} :
              /\ grasp' = [grasp EXCEPT ![q] = g]
              /\ child[target[q]] = "alive" => g = "child"
      <3>1. CASE child[target[q]] = "alive"
        BY <1>4, <3>1 DEF Grasp
      <3>2. CASE child[target[q]] # "alive" /\ target[q] \in stranger
        BY <1>4, <3>2 DEF Grasp
      <3>3. CASE child[target[q]] # "alive" /\ target[q] \notin stranger
        BY <1>4, <3>3 DEF Grasp
      <3> QED
        BY <3>1, <3>2, <3>3
    <2>2. UNCHANGED <<lock, records, processes, target, known, bounds>> /\ Goes(q, "grasped")
          /\ at[q] = "asked" /\ known[q] = "known"
      BY <1>4 DEF Grasp
    <2>3. TypeOK'
      BY <2>1, <2>2
    <2>4. Stages'
      BY <2>2
    <2>5. Tasks'
      BY <2>1, <2>2
    <2>6. StopKills'
      BY <2>2
    <2> QED
      BY <2>3, <2>4, <2>5, <2>6
  <1>5. CASE Kill(q)
    BY <1>5 DEF Kill, Ended, Dead
  <1>6. CASE Confirm(q)
    BY <1>6, Relisted DEF Confirm
  <1>7. CASE Settle(q)
    BY <1>7 DEF Settle, Records, States, PidKinds
  <1> QED
    BY <1>1, <1>2, <1>3, <1>4, <1>5, <1>6, <1>7 DEF Stop

LEMMA BaseProcess ==
    ASSUME Base, NEW r \in Runs, HelperDies(r) \/ Exit(r) \/ Reuse(r) \/ GrowsOld(r)
    PROVE  Base'
  <1> USE ActorsApart, ActorsAssumption
      DEF Base, TypeOK, Stages, Tasks, StopKills, Early, Later, Goes
  <1>1. CASE HelperDies(r)
    BY <1>1 DEF HelperDies
  <1>2. CASE Exit(r)
    BY <1>2 DEF Exit, Dead
  <1>3. CASE Reuse(r) \/ GrowsOld(r)
    BY <1>3 DEF Reuse, GrowsOld
  <1> QED
    BY <1>1, <1>2, <1>3

LEMMA BaseReboot ==
    ASSUME Base, Reboot
    PROVE  Base'
  BY ActorsApart, ActorsAssumption
     DEF Base, TypeOK, Stages, Tasks, StopKills, Early, Later, Reboot, PidKinds

LEMMA BaseNext ==
    ASSUME Base, [Next]_vars
    PROVE  Base'
  <1> USE DEF Base, TypeOK, Stages, Tasks, StopKills
  <1>1. CASE List
    BY <1>1, Relisted DEF List
  <1>2. CASE UNCHANGED vars
    BY <1>2 DEF vars
  <1> QED
    BY <1>1, <1>2, BaseAcquire, BaseRun, BaseStop, BaseProcess, BaseReboot DEF Next

LEMMA BaseAlways == Spec => []Base
  BY BaseInit, BaseNext, PTL DEF Spec

\* Type correctness: records, processes, the lock and every request stay what they are, also
\* for a stop request whose run ended, was closed or lost its helper meanwhile.
THEOREM TypeCorrect == Spec => []TypeOK
  <1>1. Base => TypeOK
    BY DEF Base
  <1> QED
    BY <1>1, BaseAlways, PTL

\* A stop that found the run's PID returns only once the run's process is dead: nothing can
\* start it again behind the request (jobs.rs stop_run).
THEOREM StopAlwaysKills == Spec => []StopKills
  <1>1. Base => StopKills
    BY DEF Base
  <1> QED
    BY <1>1, BaseAlways, PTL

-----------------------------------------------------------------------------
(***************************************************************************)
(* The lock is held from TryLock to the end of the work under it. A run    *)
(* whose helper was killed holds nothing, but its record blocks everybody  *)
(* from the second look at the records on.                                 *)
(***************************************************************************)
Held == \A a \in Workers : at[a] \in {"locked", "ready"} \cup Later => lock = a

\* A run that works on without its helper.
Orphan(r) == at[r] = "done" /\ child[r] = "alive" /\ Active(record[r]) /\ record[r].pid = "known"

Sure == {"ready", "saved", "spawned", "running"}

Alone ==
    \A o \in Runs : Orphan(o) =>
        /\ \A a \in Workers : at[a] \notin Sure
        /\ \A r \in Runs \ {o} : ~Orphan(r)

Living == \A r \in Runs : child[r] = "alive" => at[r] \in {"spawned", "running", "done"}

Inv == Base /\ Held /\ Living /\ Alone

LEMMA InvInit == Init => Inv
  <1> SUFFICES ASSUME Init PROVE Inv
    OBVIOUS
  <1>1. /\ \A a \in Workers : at[a] = "idle"
        /\ \A r \in Runs : child[r] = "none"
    BY ActorsApart DEF Init
  <1> QED
    BY <1>1, BaseInit, ActorsApart DEF Inv, Held, Living, Alone, Orphan, Later

LEMMA HeldNext ==
    ASSUME Inv, [Next]_vars
    PROVE  Held' /\ Living'
  <1> USE ActorsApart DEF Inv, Base, TypeOK, Stages, Held, Living, Early, Later, Goes, Refused
  <1>1. ASSUME NEW a \in Workers, Acquire(a) PROVE Held' /\ Living'
    BY <1>1 DEF Acquire, Look, TryLock, LookAgain, Leave
  <1>2. ASSUME NEW r \in Runs, Run(r) \/ TrackFails(r) PROVE Held' /\ Living'
    <2>1. CASE Save(r) \/ Spawn(r) \/ SpawnFails(r)
      BY <1>2, <2>1 DEF Save, Spawn, SpawnFails
    <2>2. CASE Track(r) \/ TrackFails(r) \/ Reap(r)
      BY <1>2, <2>2 DEF Track, TrackFails, Reap
    <2>3. CASE Finish(r) \/ Release(r)
      BY <1>2, <2>3 DEF Finish, Release
    <2> QED
      BY <1>2, <2>1, <2>2, <2>3 DEF Run
  <1>3. ASSUME NEW q \in Stops, Stop(q) PROVE Held' /\ Living'
    <2>1. CASE Find(q) \/ Request(q) \/ NothingToStop(q) \/ Confirm(q) \/ Settle(q)
      BY <1>3, <2>1 DEF Find, Request, NothingToStop, Confirm, Settle
    <2>2. CASE Grasp(q) \/ Kill(q)
      BY <1>3, <2>2 DEF Grasp, Kill, Ended, Dead
    <2> QED
      BY <1>3, <2>1, <2>2 DEF Stop
  <1>4. ASSUME NEW r \in Runs, HelperDies(r) PROVE Held' /\ Living'
    BY <1>4 DEF HelperDies
  <1>5. ASSUME NEW r \in Runs, Exit(r) \/ Reuse(r) \/ GrowsOld(r) PROVE Held' /\ Living'
    BY <1>5 DEF Exit, Dead, Reuse, GrowsOld
  <1>6. CASE Reboot
    BY <1>6 DEF Reboot
  <1>7. CASE List \/ UNCHANGED vars
    BY <1>7 DEF List, vars
  <1> QED
    BY <1>1, <1>2, <1>3, <1>4, <1>5, <1>6, <1>7 DEF Next

\* A step that makes no orphan and lets nobody be sure keeps Alone.
LEMMA AloneKept ==
    ASSUME Alone,
           \A r \in Runs : Orphan(r)' => Orphan(r),
           \A a \in Workers : at'[a] \in Sure => at[a] \in Sure
    PROVE  Alone'
  BY DEF Alone

\* An orphan's record is right, so it blocks.
LEMMA OrphansBlock ==
    ASSUME Base, NEW o \in Runs, Orphan(o)
    PROVE  Blocked
  <1>1. Lives(o)
    BY DEF Base, Stages, Orphan, Lives
  <1>2. Listed[o] = record[o]
    BY <1>1 DEF Listed
  <1> QED
    BY <1>2 DEF Orphan, Blocked

LEMMA AloneAcquire ==
    ASSUME Inv, NEW a \in Workers, Acquire(a)
    PROVE  Alone'
  <1> USE ActorsApart DEF Inv, Base, TypeOK, Stages, Early, Later, Goes, Refused
  <1>1. CASE Look(a) \/ TryLock(a) \/ Leave(a)
    <2>1. \A r \in Runs : Orphan(r)' => Orphan(r)
      BY <1>1, Relisted DEF Look, TryLock, Leave, Orphan
    <2>2. \A b \in Workers : at'[b] \in Sure => at[b] \in Sure
      BY <1>1 DEF Look, TryLock, Leave, Sure
    <2> QED
      BY <2>1, <2>2, AloneKept
  <1>2. CASE LookAgain(a)
    <2>1. \A r \in Runs : Orphan(r)' => Orphan(r)
      BY <1>2, Relisted DEF LookAgain, Orphan
    <2>2. CASE Blocked
      <3>1. \A b \in Workers : at'[b] \in Sure => at[b] \in Sure
        BY <1>2, <2>2 DEF LookAgain, Sure
      <3> QED
        BY <2>1, <3>1, AloneKept
    <2>3. CASE ~Blocked
      BY <2>1, <2>3, OrphansBlock DEF Alone
    <2> QED
      BY <2>2, <2>3
  <1> QED
    BY <1>1, <1>2 DEF Acquire

LEMMA AloneRun ==
    ASSUME Inv, NEW r \in Runs, Run(r) \/ TrackFails(r)
    PROVE  Alone'
  <1> USE ActorsApart DEF Inv, Base, TypeOK, Stages, Early, Later, Goes
  <1>1. \A b \in Workers : at'[b] \in Sure => at[b] \in Sure
    BY DEF Run, Save, Spawn, SpawnFails, Track, TrackFails, Reap, Finish, Release, Sure
  <1>2. \A o \in Runs : Orphan(o)' => Orphan(o)
    <2>1. CASE Save(r) \/ Spawn(r) \/ SpawnFails(r)
      BY <2>1 DEF Save, Spawn, SpawnFails, Orphan
    <2>2. CASE Track(r) \/ TrackFails(r) \/ Reap(r)
      BY <2>2 DEF Track, TrackFails, Reap, Orphan
    <2>3. CASE Finish(r) \/ Release(r)
      BY <2>3 DEF Finish, Release, Orphan
    <2> QED
      BY <2>1, <2>2, <2>3 DEF Run
  <1> QED
    BY <1>1, <1>2, AloneKept

LEMMA AloneStop ==
    ASSUME Inv, NEW q \in Stops, Stop(q)
    PROVE  Alone'
  <1> USE ActorsApart DEF Inv, Base, TypeOK, Stages, Tasks, Goes
  <1>1. \A b \in Workers : at'[b] = at[b]
    BY DEF Stop, Find, Request, NothingToStop, Grasp, Kill, Confirm, Settle
  <1>2. \A o \in Runs : Orphan(o)' => Orphan(o)
    <2>1. CASE Find(q) \/ Confirm(q)
      BY <2>1, <1>1, Relisted DEF Find, Confirm, Orphan
    <2>2. CASE Request(q)
      <3>1. target[q] \in Runs /\ record[target[q]] # None
        BY <2>2 DEF Request
      <3>2. record[target[q]] \in Records
        BY <3>1
      <3>3. \A o \in Runs : record'[o] # None =>
                record'[o].state = record[o].state /\ record'[o].pid = record[o].pid
        BY <2>2, <3>1, <3>2 DEF Request, Records
      <3>4. \A o \in Runs : record[o] = None => record'[o] = None
        BY <2>2, <3>1 DEF Request
      <3> QED
        BY <2>2, <1>1, <3>3, <3>4 DEF Request, Orphan, Active
    <2>3. CASE NothingToStop(q) \/ Grasp(q)
      BY <2>3, <1>1 DEF NothingToStop, Grasp, Orphan, Active
    <2>4. CASE Kill(q)
      BY <2>4, <1>1 DEF Kill, Ended, Dead, Orphan, Active
    <2>5. CASE Settle(q)
      <3>1. target[q] \in Runs /\ DOMAIN record = Runs
        BY <2>5 DEF Settle
      <3>2. \A o \in Runs : record'[o] = record[o] \/ record'[o].state = "stopped"
        BY <2>5, <3>1 DEF Settle
      <3> QED
        BY <2>5, <1>1, <3>2 DEF Settle, Orphan, Active
    <2> QED
      BY <2>1, <2>2, <2>3, <2>4, <2>5 DEF Stop
  <1> QED
    BY <1>1, <1>2, AloneKept

LEMMA AloneProcess ==
    ASSUME Inv, NEW r \in Runs, HelperDies(r) \/ Exit(r) \/ Reuse(r) \/ GrowsOld(r)
    PROVE  Alone'
  <1> USE ActorsApart DEF Inv, Base, TypeOK, Stages, Living, Goes
  <1>1. CASE HelperDies(r) /\ at[r] = "running"
    <2>1. \A a \in Workers \ {r} : at[a] \notin Sure
      BY <1>1 DEF Held, Sure, Later
    <2>2. \A a \in Workers : at'[a] \notin Sure
      BY <1>1, <2>1 DEF HelperDies, Sure
    <2>3. \A o \in Runs : ~Orphan(o)
      BY <1>1 DEF Alone, Sure
    <2>4. \A o \in Runs \ {r} : ~Orphan(o)'
      BY <1>1, <2>3 DEF HelperDies, Orphan, Active
    <2> QED
      BY <2>2, <2>4 DEF Alone
  <1>2. CASE HelperDies(r) /\ at[r] # "running"
    <2>1. \A a \in Workers : at'[a] \in Sure => at[a] \in Sure
      BY <1>2 DEF HelperDies, Sure
    <2>2. ~Orphan(r)'
      BY <1>2 DEF HelperDies, Orphan, Active
    <2>3. \A o \in Runs \ {r} : Orphan(o)' => Orphan(o)
      BY <1>2 DEF HelperDies, Orphan, Active
    <2> QED
      BY <2>1, <2>2, <2>3, AloneKept
  <1>3. CASE Exit(r) \/ Reuse(r) \/ GrowsOld(r)
    <2>1. \A a \in Workers : at'[a] = at[a]
      BY <1>3 DEF Exit, Reuse, GrowsOld
    <2>2. \A o \in Runs : Orphan(o)' => Orphan(o)
      BY <1>3 DEF Exit, Dead, Reuse, GrowsOld, Orphan, Active
    <2> QED
      BY <2>1, <2>2, AloneKept
  <1> QED
    BY <1>1, <1>2, <1>3

LEMMA InvNext ==
    ASSUME Inv, [Next]_vars
    PROVE  Inv'
  <1>1. Reboot => Alone'
    BY DEF Reboot, Alone, Orphan
  <1>2. List => Alone'
    BY Relisted DEF List, Inv, Base, TypeOK, Alone, Orphan
  <1>3. UNCHANGED vars => Alone'
    BY DEF vars, Inv, Alone, Orphan, Active
  <1>4. Base'
    BY BaseNext DEF Inv
  <1>5. Held' /\ Living'
    BY HeldNext
  <1>6. Alone'
    BY <1>1, <1>2, <1>3, AloneAcquire, AloneRun, AloneStop, AloneProcess DEF Next, Inv
  <1> QED
    BY <1>4, <1>5, <1>6 DEF Inv

LEMMA InvAlways == Spec => []Inv
  BY InvInit, InvNext, PTL DEF Spec

\* While a run works on the copy nobody else does, also after its helper was killed, whatever
\* stops, listings and restarts do meanwhile (projects.rs acquire, jobs.rs reconcile).
THEOREM RunAlwaysOwnsCopy == Spec => []RunOwnsCopy
  <1>1. Inv => RunOwnsCopy
    <2> SUFFICES ASSUME Inv, NEW r \in Runs, Works(r)
                 PROVE  /\ \A s \in Syncs : at[s] # "ready"
                        /\ \A o \in Runs \ {r} : ~Works(o)
      BY DEF RunOwnsCopy
    <2> USE ActorsApart DEF Inv, Living, Works
    <2>1. \A o \in Runs : Works(o) => at[o] \in {"spawned", "running"} \/ Orphan(o)
      BY DEF Orphan
    <2>2. CASE Orphan(r)
      BY <2>1, <2>2 DEF Alone, Sure
    <2>3. CASE at[r] \in {"spawned", "running"}
      BY <2>1, <2>3 DEF Alone, Sure, Held, Later
    <2> QED
      BY <2>1, <2>2, <2>3
  <1> QED
    BY <1>1, InvAlways, PTL
=============================================================================
