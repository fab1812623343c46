----------------------------- MODULE SessionsProofs -----------------------------
(***************************************************************************)
(* Proofs about Sessions, for any attaches, stops, unlinks and             *)
(* synchronizations, and any number of failures and restarts.              *)
(***************************************************************************)
EXTENDS Sessions, TLAPS

USE DEF locks

LEMMA ActorsApart ==
    /\ AtProject \subseteq Sessions /\ AtHome \subseteq Sessions /\ AtProject \cap AtHome = {}
    /\ Sessions \subseteq Actors /\ Stops \subseteq Actors /\ Unlinks \subseteq Actors
    /\ Others \subseteq Actors /\ AtProject \subseteq Holders /\ Unlinks \subseteq Holders
    /\ Others \subseteq Holders /\ Sessions \cap (Stops \cup Unlinks \cup Others) = {}
    /\ Stops \cap Unlinks = {} /\ Stops \cap Others = {} /\ Unlinks \cap Others = {}
    /\ None \notin Actors
  BY SessionsAssumption DEF Sessions, Actors, Holders

\* What a reading of the records does, whether tmux answers or not: it only closes records, and
\* those of living sessions only when tmux fails for them.
LEMMA ReadsKeep ==
    ASSUME TypeOK, ReadRecords
    PROVE  /\ active' \subseteq active /\ active' \subseteq tmux
           /\ missed \subseteq missed' /\ missed' \subseteq Sessions
           /\ active \cap tmux \subseteq active' \cup missed'
           /\ faults' \in 0 .. MaxFaults
  <1>1. PICK failing \in Failures : Reads(failing)
    BY DEF ReadRecords
  <1>2. failing \subseteq active \cap tmux /\ (failing # {} => faults < MaxFaults)
    BY DEF Failures
  <1>3. active' = Listed(failing) /\ missed' = missed \cup failing
        /\ faults' = IF failing = {} THEN faults ELSE faults + 1
    BY <1>1 DEF Reads
  <1>4. faults' \in 0 .. MaxFaults
    BY <1>2, <1>3, SessionsAssumption DEF TypeOK
  <1> QED
    BY <1>2, <1>3, <1>4 DEF Listed, SessionExists, TypeOK

LEMMA TypeInit == Init => TypeOK
  BY SessionsAssumption DEF Init, TypeOK

(***************************************************************************)
(* TypeOK, for the parts of Next.                                          *)
(***************************************************************************)
LEMMA TypeAttach ==
    ASSUME TypeOK, NEW a \in Sessions,
           Attach(a) \/ NotReady(a) \/ CreateFails(a) \/ Exit(a) \/ CreateLate(a)
    PROVE  TypeOK'
  <1> USE ActorsApart, SessionsAssumption, ReadsKeep DEF TypeOK, Goes
  <1>1. CASE Look(a) \/ ProjectBusy(a)
    BY <1>1 DEF Look, ProjectBusy, LookThen
  <1>2. CASE TakeProject(a) \/ TakeHome(a)
    BY <1>2 DEF TakeProject, TakeHome, Free
  <1>3. CASE LookAgain(a)
    BY <1>3 DEF LookAgain, LookThen, LetGo
  <1>4. CASE Save(a) \/ Create(a)
    BY <1>4 DEF Save, Create, Born
  <1>5. CASE Answer(a)
    BY <1>5 DEF Answer, LetGo
  <1>6. CASE NotReady(a) \/ CreateFails(a)
    BY <1>6 DEF NotReady, CreateFails, LetGo
  <1>7. CASE Exit(a) \/ CreateLate(a)
    BY <1>7 DEF Exit, CreateLate, Born
  <1> QED
    BY <1>1, <1>2, <1>3, <1>4, <1>5, <1>6, <1>7 DEF Attach

LEMMA TypeStop ==
    ASSUME TypeOK, NEW q \in Stops, Stop(q)
    PROVE  TypeOK'
  <1> USE ActorsApart, ReadsKeep DEF TypeOK, Goes
  <1>1. CASE Find(q) \/ Confirm(q)
    BY <1>1 DEF Find, Confirm
  <1>2. CASE Kill(q) \/ KillFails(q) \/ Settle(q)
    BY <1>2, SessionsAssumption DEF Kill, KillFails, Settle
  <1> QED
    BY <1>1, <1>2 DEF Stop

LEMMA TypeUnlink ==
    ASSUME TypeOK, NEW u \in Unlinks, Unlink(u)
    PROVE  TypeOK'
  <1> USE ActorsApart, ReadsKeep DEF TypeOK, Goes
  <1>1. CASE LookForJobs(u) \/ TakeIdle(u)
    BY <1>1 DEF LookForJobs, TakeIdle
  <1>2. CASE LookForJobsAgain(u) \/ Removed(u)
    BY <1>2 DEF LookForJobsAgain, Removed, LetGo
  <1> QED
    BY <1>1, <1>2 DEF Unlink

LEMMA TypeOther ==
    ASSUME TypeOK, NEW o \in Others, OtherTakes(o) \/ OtherLeaves(o)
    PROVE  TypeOK'
  BY ActorsApart, ReadsKeep DEF TypeOK, Goes, OtherTakes, OtherLeaves, LetGo

LEMMA TypeDies ==
    ASSUME TypeOK, DaemonDies \/ Reboot
    PROVE  TypeOK'
  BY ActorsApart, SessionsAssumption DEF TypeOK, DaemonDies, Reboot, Halted

LEMMA TypeNext ==
    ASSUME TypeOK, [Next]_vars
    PROVE  TypeOK'
  <1>1. CASE List \/ UNCHANGED vars
    BY <1>1, ReadsKeep DEF List, vars, TypeOK
  <1> QED
    BY <1>1, TypeAttach, TypeStop, TypeUnlink, TypeOther, TypeDies DEF Next

\* Type correctness: records, tmux sessions, locks and requests stay what they are.
THEOREM TypeCorrect == Spec => []TypeOK
  BY TypeInit, TypeNext, PTL DEF Spec

-----------------------------------------------------------------------------
(***************************************************************************)
(* The locks are held from the first look under them to the answer, a tmux *)
(* session is made once by its own attach, and a stop ends a session that  *)
(* was made.                                                               *)
(***************************************************************************)
Under == {"held", "ready", "saved", "created"}

Turns ==
    /\ \A s \in AtProject : at[s] \in Under => lock = s
    /\ \A h \in AtHome : at[h] \in Under => home = h
    /\ \A u \in Unlinks : at[u] \in {"held", "removing"} => lock = u

Made(s) == at[s] \in {"created", "done"}

Births ==
    /\ \A s \in tmux \cup coming : Made(s)
    /\ tmux \cap coming = {}

TargetsMade ==
    \A q \in Stops : at[q] \in {"found", "killed", "listed"} =>
        /\ target[q] \in Sessions /\ Made(target[q]) /\ target[q] \notin coming
        /\ at[q] # "found" => target[q] \notin tmux \ missed

Basic == TypeOK /\ Turns /\ Births /\ TargetsMade /\ LivingIsListed

LEMMA BasicInit == Init => Basic
  <1> SUFFICES ASSUME Init PROVE Basic
    OBVIOUS
  <1>1. \A a \in Actors : at[a] = "idle"
    BY DEF Init
  <1> QED
    BY <1>1, TypeInit, ActorsApart
       DEF Init, Basic, Turns, Births, TargetsMade, LivingIsListed, Unrecorded, Under

\* The steps of an attach up to its lock.
LEMMA BasicLook ==
    ASSUME Basic, TypeOK', NEW a \in Sessions,
           Look(a) \/ ProjectBusy(a) \/ TakeProject(a) \/ TakeHome(a)
    PROVE  Basic'
  <1> USE ActorsApart, ReadsKeep DEF Basic, TypeOK, Goes, Look, ProjectBusy, TakeProject,
                          TakeHome, LookThen, Free
  <1>1. at[a] \in {"idle", "looked"} /\ a \notin tmux \cup coming
    BY DEF Births, Made
  <1>2. Turns'
    BY DEF Turns, Under
  <1>3. Births'
    BY <1>1 DEF Births, Made
  <1>4. TargetsMade'
    BY <1>1 DEF TargetsMade, Made
  <1>5. LivingIsListed'
    BY DEF LivingIsListed, Unrecorded
  <1> QED
    BY <1>2, <1>3, <1>4, <1>5

LEMMA BasicHeld ==
    ASSUME Basic, TypeOK', NEW a \in Sessions, LookAgain(a) \/ NotReady(a) \/ Save(a)
    PROVE  Basic'
  <1> USE ActorsApart, ReadsKeep DEF Basic, TypeOK, Goes, LookAgain, NotReady, Save,
                          LookThen, LetGo
  <1>1. at[a] \in {"looked", "held", "ready"} /\ a \notin tmux \cup coming
    BY DEF Births, Made
  <1>2. Turns'
    BY DEF Turns, Under
  <1>3. Births'
    BY <1>1 DEF Births, Made
  <1>4. TargetsMade'
    BY <1>1 DEF TargetsMade, Made
  <1>5. LivingIsListed'
    BY DEF LivingIsListed, Unrecorded
  <1> QED
    BY <1>2, <1>3, <1>4, <1>5

LEMMA BasicCreate ==
    ASSUME Basic, TypeOK', NEW a \in Sessions, Create(a) \/ CreateFails(a) \/ Answer(a)
    PROVE  Basic'
  <1> USE ActorsApart DEF Basic, TypeOK, Goes, Create, CreateFails, Answer, Born, LetGo
  <1>1. at[a] = "saved" => a \notin tmux \cup coming
    BY DEF Births, Made
  <1>2. Turns'
    BY DEF Turns, Under
  <1>3. Births'
    BY <1>1 DEF Births, Made
  <1>4. TargetsMade'
    BY <1>1 DEF TargetsMade, Made
  <1>5. LivingIsListed'
    BY <1>1 DEF LivingIsListed, Unrecorded
  <1> QED
    BY <1>2, <1>3, <1>4, <1>5

LEMMA BasicTmux ==
    ASSUME Basic, TypeOK', NEW s \in Sessions, Exit(s) \/ CreateLate(s)
    PROVE  Basic'
  BY ActorsApart DEF Basic, TypeOK, Exit, CreateLate, Born, Turns, Births, TargetsMade,
                     LivingIsListed, Unrecorded, Made, Under

LEMMA BasicStop ==
    ASSUME Basic, TypeOK', NEW q \in Stops, Stop(q)
    PROVE  Basic'
  <1> USE ActorsApart, ReadsKeep DEF Basic, TypeOK, Goes
  <1>1. Turns'
    BY DEF Turns, Under, Stop, Find, Kill, KillFails, Confirm, Settle
  <1>2. Births'
    BY DEF Births, Made, Stop, Find, Kill, KillFails, Confirm, Settle
  <1>3. CASE Find(q)
    <2>1. TargetsMade'
      BY <1>3 DEF Find, TargetsMade, Births, Made
    <2> QED
      BY <1>1, <1>2, <1>3, <2>1 DEF Find, LivingIsListed, Unrecorded
  <1>4. CASE Kill(q) \/ KillFails(q) \/ Confirm(q) \/ Settle(q)
    <2>1. TargetsMade'
      BY <1>4 DEF Kill, KillFails, Confirm, Settle, TargetsMade, Made
    <2>2. LivingIsListed'
      BY <1>4 DEF Kill, KillFails, Confirm, Settle, TargetsMade, LivingIsListed, Unrecorded
    <2> QED
      BY <1>1, <1>2, <2>1, <2>2
  <1> QED
    BY <1>3, <1>4 DEF Stop

LEMMA BasicUnlink ==
    ASSUME Basic, TypeOK', NEW u \in Unlinks, Unlink(u)
    PROVE  Basic'
  <1> USE ActorsApart, ReadsKeep DEF Basic, TypeOK, Goes, Unlink, LookForJobs, TakeIdle,
                          LookForJobsAgain, Removed, LetGo, Free
  <1>1. Turns'
    BY DEF Turns, Under
  <1>2. Births' /\ TargetsMade' /\ LivingIsListed'
    BY DEF Births, TargetsMade, LivingIsListed, Unrecorded, Made
  <1> QED
    BY <1>1, <1>2

LEMMA BasicOther ==
    ASSUME Basic, TypeOK', NEW o \in Others, OtherTakes(o) \/ OtherLeaves(o)
    PROVE  Basic'
  <1> USE ActorsApart, ReadsKeep DEF Basic, TypeOK, Goes, OtherTakes, OtherLeaves, LetGo,
                          Free
  <1>1. Turns'
    BY DEF Turns, Under
  <1>2. Births' /\ TargetsMade' /\ LivingIsListed'
    BY DEF Births, TargetsMade, LivingIsListed, Unrecorded, Made
  <1> QED
    BY <1>1, <1>2

LEMMA BasicDies ==
    ASSUME Basic, TypeOK', DaemonDies \/ Reboot
    PROVE  Basic'
  <1>1. \A a \in Actors : at'[a] = IF at[a] = "idle" \/ a \notin Sessions THEN "idle" ELSE "done"
    BY DEF DaemonDies, Reboot, Halted
  <1> QED
    BY <1>1, ActorsApart DEF Basic, TypeOK, DaemonDies, Reboot, Turns, Births, TargetsMade,
                             LivingIsListed, Unrecorded, Made, Under

LEMMA BasicNext ==
    ASSUME Basic, [Next]_vars
    PROVE  Basic'
  <1>1. TypeOK'
    BY TypeNext DEF Basic
  <1>2. CASE List \/ UNCHANGED vars
    BY <1>1, <1>2, ReadsKeep DEF List, vars, Basic, Turns, Births, TargetsMade,
                      LivingIsListed, Unrecorded, Made
  <1> QED
    BY <1>1, <1>2, BasicLook, BasicHeld, BasicCreate, BasicTmux, BasicStop, BasicUnlink,
       BasicOther, BasicDies DEF Next, Attach

\* A session that lives is listed, whatever was listed, stopped, created late or restarted in
\* between, unless its record was closed before tmux had it or tmux failed for it (jobs.rs
\* reconcile, stop_session).
THEOREM LivingAlwaysListed == Spec => []LivingIsListed
  <1>1. Basic => LivingIsListed
    BY DEF Basic
  <1> QED
    BY <1>1, BasicInit, BasicNext, PTL DEF Spec

-----------------------------------------------------------------------------
(***************************************************************************)
(* The sessions that live, or will, with a record that claims they run. An *)
(* attach to the home folder goes on only when there is none of them, and  *)
(* an unlink only when the project has none.                               *)
(***************************************************************************)
Claimed ==
    {s \in Sessions : \/ s \in tmux \ Unrecorded
                      \/ s \in active /\ (s \in coming \/ at[s] = "saved")}

Alone ==
    /\ \A s, t \in Claimed \cap AtHome : s = t
    /\ \A h \in AtHome : at[h] = "ready" => Claimed \cap AtHome = {}
    /\ \A u \in Unlinks : at[u] = "removing" => Claimed \cap AtProject = {}

Inv == Basic /\ Alone

LEMMA AloneInit == Init => Inv
  <1> SUFFICES ASSUME Init PROVE Inv
    OBVIOUS
  <1>1. \A a \in Actors : at[a] = "idle"
    BY DEF Init
  <1>2. Claimed = {}
    BY DEF Init, Claimed
  <1> QED
    BY <1>1, <1>2, BasicInit, ActorsApart DEF Inv, Alone

\* A step that lets nobody past a check and claims nothing.
LEMMA AloneKept ==
    ASSUME Alone, Claimed' \subseteq Claimed,
           \A h \in AtHome : at'[h] = "ready" => at[h] = "ready",
           \A u \in Unlinks : at'[u] = "removing" => at[u] = "removing"
    PROVE  Alone'
  BY DEF Alone

\* When the records were just read, what is claimed is in them: a session for which tmux
\* failed is not claimed any more.
LEMMA ClaimedListed ==
    ASSUME TypeOK, LivingIsListed, ReadRecords, UNCHANGED <<tmux, early, coming>>,
           \A s \in Sessions : at'[s] = "saved" => at[s] = "saved"
    PROVE  Claimed' \subseteq active' /\ Claimed' \subseteq Claimed
  BY ReadsKeep DEF Claimed, LivingIsListed, Unrecorded

LEMMA AloneLook ==
    ASSUME Inv, NEW a \in Sessions, Look(a) \/ ProjectBusy(a) \/ TakeProject(a) \/ TakeHome(a)
    PROVE  Alone'
  <1> USE ActorsApart DEF Inv, Basic, TypeOK, Goes, Look, ProjectBusy, TakeProject, TakeHome,
                          LookThen
  <1>1. Claimed' \subseteq Claimed
    BY ReadsKeep DEF Claimed, Unrecorded
  <1>2. (\A h \in AtHome : at'[h] = "ready" => at[h] = "ready")
        /\ \A u \in Unlinks : at'[u] = "removing" => at[u] = "removing"
    OBVIOUS
  <1> QED
    BY <1>1, <1>2, AloneKept

\* Under home.lock an attach goes on only when nothing of the home folder is listed.
LEMMA AloneLookAgain ==
    ASSUME Inv, NEW a \in Sessions, LookAgain(a)
    PROVE  Alone'
  <1> USE ActorsApart DEF Inv, Basic, TypeOK, Goes, LookAgain, LookThen
  <1>1. Claimed' \subseteq active' /\ Claimed' \subseteq Claimed
    BY ClaimedListed
  <1>2. \A u \in Unlinks : at'[u] = "removing" => at[u] = "removing"
    OBVIOUS
  <1>3. ASSUME NEW h \in AtHome, at'[h] = "ready", at[h] # "ready"
        PROVE  Claimed' \cap AtHome = {}
    <2>1. h = a /\ Live(a)' = {} /\ a \notin AtProject
      BY <1>3
    <2> QED
      BY <1>1, <2>1 DEF Live, Place
  <1> QED
    BY <1>1, <1>2, <1>3 DEF Alone

\* Only Save claims a session, and it holds the lock of its place.
LEMMA AloneSave ==
    ASSUME Inv, NEW a \in Sessions, Save(a)
    PROVE  Alone'
  <1> USE ActorsApart DEF Inv, Basic, TypeOK, Goes, Save
  <1>1. Claimed' \subseteq Claimed \cup {a} /\ at[a] = "ready"
    BY DEF Claimed, Unrecorded
  <1>2. CASE a \in AtHome
    <2>1. Claimed \cap AtHome = {} /\ a \notin AtProject
      BY <1>1, <1>2 DEF Alone
    <2>2. \A h \in AtHome : at'[h] # "ready"
      BY <1>1, <1>2 DEF Turns, Under
    <2> QED
      BY <1>1, <2>1, <2>2 DEF Alone
  <1>3. CASE a \in AtProject
    <2>1. a \notin AtHome /\ \A u \in Unlinks : at'[u] # "removing"
      BY <1>1, <1>3 DEF Turns, Under
    <2> QED
      BY <1>1, <2>1 DEF Alone
  <1> QED
    BY <1>2, <1>3 DEF Sessions

LEMMA AloneRest ==
    ASSUME Inv, NEW a \in Sessions,
           Create(a) \/ CreateFails(a) \/ Answer(a) \/ NotReady(a) \/ Exit(a) \/ CreateLate(a)
    PROVE  Alone'
  <1> USE ActorsApart DEF Inv, Basic, TypeOK, Goes, Create, CreateFails, Answer, NotReady, Exit,
                          CreateLate, Born
  <1>1. Claimed' \subseteq Claimed
    BY DEF Claimed, Unrecorded
  <1>2. (\A h \in AtHome : at'[h] = "ready" => at[h] = "ready")
        /\ \A u \in Unlinks : at'[u] = "removing" => at[u] = "removing"
    OBVIOUS
  <1> QED
    BY <1>1, <1>2, AloneKept

LEMMA AloneStop ==
    ASSUME Inv, NEW q \in Stops, Stop(q)
    PROVE  Alone'
  <1> USE ActorsApart DEF Inv, Basic, TypeOK, Goes, Stop, Find, Kill, KillFails, Confirm, Settle
  <1>1. Claimed' \subseteq Claimed
    BY ReadsKeep DEF Claimed, Unrecorded
  <1>2. (\A h \in AtHome : at'[h] = "ready" => at[h] = "ready")
        /\ \A u \in Unlinks : at'[u] = "removing" => at[u] = "removing"
    OBVIOUS
  <1> QED
    BY <1>1, <1>2, AloneKept

\* With the project lock an unlink goes on only when nothing of the project is listed.
LEMMA AloneUnlink ==
    ASSUME Inv, NEW u \in Unlinks, Unlink(u)
    PROVE  Alone'
  <1> USE ActorsApart DEF Inv, Basic, TypeOK, Goes
  <1>1. Claimed' \subseteq Claimed
    BY ReadsKeep DEF Unlink, LookForJobs, TakeIdle, LookForJobsAgain, Removed, Claimed, Unrecorded
  <1>2. \A h \in AtHome : at'[h] = "ready" => at[h] = "ready"
    BY DEF Unlink, LookForJobs, TakeIdle, LookForJobsAgain, Removed
  <1>3. CASE LookForJobs(u) \/ TakeIdle(u) \/ Removed(u)
    <2>1. \A v \in Unlinks : at'[v] = "removing" => at[v] = "removing"
      BY <1>3 DEF LookForJobs, TakeIdle, Removed
    <2> QED
      BY <1>1, <1>2, <2>1, AloneKept
  <1>4. CASE LookForJobsAgain(u)
    <2>1. Claimed' \subseteq active'
      BY <1>4, ClaimedListed DEF LookForJobsAgain
    <2>2. \A v \in Unlinks :
              at'[v] = "removing" => at[v] = "removing" \/ active' \cap AtProject = {}
      BY <1>4 DEF LookForJobsAgain, Blocked
    <2> QED
      BY <1>1, <1>2, <2>1, <2>2 DEF Alone
  <1> QED
    BY <1>3, <1>4 DEF Unlink

LEMMA AloneOther ==
    ASSUME Inv, NEW o \in Others, OtherTakes(o) \/ OtherLeaves(o)
    PROVE  Alone'
  <1> USE ActorsApart DEF Inv, Basic, TypeOK, Goes, OtherTakes, OtherLeaves
  <1>1. Claimed' \subseteq Claimed
    BY ReadsKeep DEF Claimed, Unrecorded
  <1>2. (\A h \in AtHome : at'[h] = "ready" => at[h] = "ready")
        /\ \A u \in Unlinks : at'[u] = "removing" => at[u] = "removing"
    OBVIOUS
  <1> QED
    BY <1>1, <1>2, AloneKept

\* What dies with the daemon or the machine is claimed by nobody new.
LEMMA AloneDies ==
    ASSUME Inv, DaemonDies \/ Reboot
    PROVE  Alone'
  <1>1. \A a \in Actors : at'[a] = IF at[a] = "idle" \/ a \notin Sessions THEN "idle" ELSE "done"
    BY DEF DaemonDies, Reboot, Halted
  <1>2. Claimed' \subseteq Claimed
    BY <1>1, ActorsApart DEF Claimed, Unrecorded, DaemonDies, Reboot
  <1> QED
    BY <1>1, <1>2, ActorsApart, AloneKept DEF Inv

LEMMA InvNext ==
    ASSUME Inv, [Next]_vars
    PROVE  Inv'
  <1>1. Basic'
    BY BasicNext DEF Inv
  <1>2. CASE List \/ UNCHANGED vars
    <2>1. Claimed' \subseteq Claimed /\ at' = at
      BY <1>2, ReadsKeep DEF Inv, Basic, List, vars, Claimed, Unrecorded
    <2> QED
      BY <1>1, <2>1, AloneKept DEF Inv
  <1>3. CASE DaemonDies \/ Reboot
    BY <1>1, <1>3, AloneDies DEF Inv
  <1>4. ASSUME NEW a \in Sessions,
               Attach(a) \/ NotReady(a) \/ CreateFails(a) \/ Exit(a) \/ CreateLate(a)
        PROVE  Inv'
    BY <1>1, <1>4, AloneLook, AloneLookAgain, AloneSave, AloneRest DEF Inv, Attach
  <1> QED
    BY <1>1, <1>2, <1>3, <1>4, AloneStop, AloneUnlink, AloneOther DEF Inv, Next

LEMMA InvAlways == Spec => []Inv
  BY AloneInit, InvNext, PTL DEF Spec

\* The home folder has one session, however attaches, failing and late tmux commands, and
\* restarts interleave, but for those whose record was lost to list or to tmux.
THEOREM OneHomeSessionAlways == Spec => []OneHomeSession
  <1>1. Inv => OneHomeSession
    BY DEF Inv, Basic, TypeOK, Alone, Claimed, OneHomeSession
  <1> QED
    BY <1>1, InvAlways, PTL

\* unlink removes nothing while a session of the project is being made or lives with a record.
THEOREM UnlinkAlwaysWaits == Spec => []UnlinkWaits
  <1>1. Inv => UnlinkWaits
    <2> SUFFICES ASSUME Inv, NEW u \in Unlinks, at[u] = "removing", NEW s \in AtProject
                 PROVE  (s \in tmux => s \in Unrecorded) /\ at[s] \notin {"saved", "created"}
      BY DEF UnlinkWaits
    <2>1. s \notin Claimed /\ s \in Sessions
      BY ActorsApart DEF Inv, Alone
    <2>2. at[s] \notin {"saved", "created"}
      BY ActorsApart DEF Inv, Basic, Turns, Under
    <2> QED
      BY <2>1, <2>2 DEF Claimed
  <1> QED
    BY <1>1, InvAlways, PTL
=============================================================================
