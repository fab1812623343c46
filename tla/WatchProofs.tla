----------------------------- MODULE WatchProofs ------------------------------
(***************************************************************************)
(* Proofs about Watch: nothing is told twice and nothing is warned of      *)
(* twice in a row, for any boxes, jobs, addresses and events.              *)
(***************************************************************************)
EXTENDS Watch, WellFoundedInduction, TLAPS

USE DEF box, helper, Event, FailuresBeforeUnreachable

(***************************************************************************)
(* The operators of the model.                                             *)
(***************************************************************************)
LEMMA SmallestExists ==
    ASSUME NEW S \in SUBSET Nat, S # {}
    PROVE  \E i \in S : \A k \in S : i <= k
  <1>1. PICK i \in S : \A k \in S : ~(<<k, i>> \in OpToRel(<, Nat))
    BY NatLessThanWellFounded, WFMin
  <1>2. \A k \in S : ~(k < i)
    BY <1>1 DEF OpToRel
  <1> QED
    BY <1>2

LEMMA ProbeType == Probe \in Paths
  <1> DEFINE answering == {i \in DOMAIN Candidates : Answers(Candidates[i])}
  <1>1. answering \in SUBSET Nat
    BY WatchAssumption
  <1>2. CASE answering = {}
    BY <1>2 DEF Probe, Paths
  <1>3. CASE answering # {}
    <2>1. \E i \in answering : \A k \in answering : i <= k
      BY <1>1, <1>3, SmallestExists
    <2>2. PICK i \in answering : i = CHOOSE j \in answering : \A k \in answering : j <= k
      BY <2>1
    <2>3. Probe = Candidates[i]
      BY <1>3, <2>2 DEF Probe
    <2> QED
      BY <2>2, <2>3 DEF Paths, Direct
  <1> QED
    BY <1>2, <1>3

LEMMA NewType ==
    ASSUME NEW b \in Boxes
    PROVE  New(b) \in Watches
  BY DEF New, Watches

LEMMA FailsType ==
    ASSUME NEW w \in Watches
    PROVE  /\ Fails(w) \in Watches
           /\ Fails(w).name = w.name /\ Fails(w).based = w.based
           /\ Fails(w).known = w.known /\ Fails(w).alarm = w.alarm
  <1>1. Failures(w) \in 0 .. 2
    BY DEF Failures, Watches
  <1> QED
    BY <1>1 DEF Fails, Watches

LEMMA AnsweredType ==
    ASSUME NEW w \in Watches, NEW how, Answered(w, how)
    PROVE  /\ watch' \in Watches
           /\ watch'.name = w.name /\ watch'.based = w.based /\ watch'.known = w.known
           /\ watch'.alarm = Alarm(w, how)
  <1>1. PICK a \in BOOLEAN : a = Alarm(w, how)
    BY DEF Alarm
  <1>2. watch' = [w EXCEPT !.failures = 0, !.unreachable = FALSE, !.alarm = a]
    BY <1>1 DEF Answered
  <1>3. watch' = [name |-> w.name, based |-> w.based, known |-> w.known,
                  failures |-> 0, unreachable |-> FALSE, alarm |-> a]
    BY <1>2 DEF Watches
  <1>4. watch' \in Watches
    BY <1>3 DEF Watches
  <1>5. watch'.name = w.name /\ watch'.based = w.based /\ watch'.known = w.known
    BY <1>3
  <1>6. watch'.alarm = a
    BY <1>3
  <1> QED
    BY <1>1, <1>4, <1>5, <1>6

LEMMA ListedType ==
    ASSUME TypeOK, NEW b \in Boxes, ListJobs(b)
    PROVE  /\ jobs' \in [Jobs -> {"none", "running", "ended", "brief", "gone"}]
           /\ \A j \in Jobs : jobs'[j] \in {jobs[j], "gone"}
           /\ \A j \in Jobs : Place[j] = b /\ jobs'[j] = "ended" => j \in Kept(b)
           /\ Kept(b) \subseteq Jobs
  BY DEF TypeOK, ListJobs, Finished, Kept

(***************************************************************************)
(* Type correctness, action by action.                                     *)
(***************************************************************************)
LEMMA TypeInit == Init => TypeOK
  BY WatchAssumption DEF Init, TypeOK, Levels

LEMMA TypeBoxes ==
    ASSUME TypeOK,
           \/ \E j \in Jobs : Start(j) \/ End(j)
           \/ \E b \in Boxes : SomebodyLists(b) \/ ResourceChanges(b)
    PROVE  TypeOK'
  <1>1. ASSUME NEW j \in Jobs, Start(j) \/ End(j)
        PROVE  TypeOK'
    BY <1>1 DEF Start, End, TypeOK
  <1>2. ASSUME NEW b \in Boxes, SomebodyLists(b)
        PROVE  TypeOK'
    BY <1>2, ListedType DEF SomebodyLists, TypeOK
  <1>3. ASSUME NEW b \in Boxes, ResourceChanges(b)
        PROVE  TypeOK'
    <2>1. eased' \in BOOLEAN
      BY <1>3 DEF ResourceChanges, Eases, TypeOK
    <2> QED
      BY <1>3, <2>1 DEF ResourceChanges, TypeOK
  <1> QED
    BY <1>1, <1>2, <1>3

LEMMA OneMore ==
    ASSUME events \in 0 .. MaxEvents, events < MaxEvents
    PROVE  events + 1 \in 0 .. MaxEvents
  <1>1. MaxEvents \in Nat
    BY WatchAssumption
  <1> QED
    BY <1>1

LEMMA TypeEvents ==
    ASSUME TypeOK, PathsChange \/ LinkChanges \/ HelperEnds \/ ProgramMissing
    PROVE  TypeOK'
  <1>1. events' \in 0 .. MaxEvents
    BY OneMore DEF PathsChange, LinkChanges, HelperEnds, ProgramMissing, TypeOK
  <1>2. CASE PathsChange \/ LinkChanges
    BY <1>1, <1>2 DEF PathsChange, LinkChanges, TypeOK
  <1>3. CASE HelperEnds \/ ProgramMissing
    BY <1>1, <1>3 DEF HelperEnds, ProgramMissing, TypeOK, Levels
  <1> QED
    BY <1>2, <1>3

LEMMA TypeGone ==
    ASSUME TypeOK, Gone, eased' = eased, events' \in 0 .. MaxEvents
    PROVE  TypeOK'
  BY FailsType DEF Gone, Forgotten, TypeOK, Levels

LEMMA TypeSteps ==
    ASSUME TypeOK, NextTick \/ TryAgain \/ Relaunch \/ Retry
    PROVE  TypeOK'
  <1>1. CASE NextTick
    BY <1>1 DEF NextTick, TypeOK
  <1> QED
    BY <1>1 DEF TryAgain, Relaunch, Retry, TypeOK

LEMMA TypeLoad ==
    ASSUME TypeOK, Load
    PROVE  TypeOK'
  <1>1. CASE linked = None
    BY <1>1, TypeGone DEF Load, TypeOK
  <1>2. CASE linked # None
    <2>1. linked \in Boxes /\ New(linked) \in Watches /\ None \notin Watches
      BY <1>2, NewType, WatchAssumption DEF TypeOK
    <2>2. watch' \in Watches /\ eased' \in BOOLEAN
      BY <1>2, <2>1 DEF Load, TypeOK
    <2> QED
      BY <1>2, <2>1, <2>2 DEF Load, TypeOK
  <1> QED
    BY <1>1, <1>2

LEMMA TypeDial ==
    ASSUME TypeOK, Dial
    PROVE  TypeOK'
  <1>1. Resolved \in Paths
    BY ProbeType DEF Resolved, TypeOK
  <1> QED
    BY <1>1 DEF Dial, TypeOK

LEMMA TypeAskHealth ==
    ASSUME TypeOK, AskHealth
    PROVE  TypeOK'
  <1>1. watch \in Watches /\ watch.name \in Boxes /\ level[watch.name] \in Levels
    BY DEF AskHealth, TypeOK, Watches
  <1>2. CASE even
    BY <1>1, <1>2 DEF AskHealth, Health, TypeOK
  <1>3. CASE ~even
    <2>1. Answered(watch, level[watch.name])
      BY <1>3 DEF AskHealth
    <2>2. watch' \in Watches
      BY <1>1, <2>1, AnsweredType
    <2>3. eased' \in BOOLEAN /\ shown' = "online" /\ heard' = "fine" /\ phase' = "sleep"
      BY <2>1 DEF Answered, TypeOK
    <2> QED
      BY <2>2, <2>3, WatchAssumption DEF AskHealth, TypeOK, Levels
  <1> QED
    BY <1>2, <1>3

LEMMA TypeAskJobs ==
    ASSUME TypeOK, AskJobs
    PROVE  TypeOK'
  <1> DEFINE w == [watch EXCEPT !.based = TRUE, !.known = Kept(watch.name)]
  <1>1. watch \in Watches /\ watch.name \in Boxes
    BY DEF AskJobs, TypeOK, Watches
  <1>2. jobs' \in [Jobs -> {"none", "running", "ended", "brief", "gone"}]
        /\ Kept(watch.name) \subseteq Jobs
    BY <1>1, ListedType DEF AskJobs
  <1>3. w \in Watches
    BY <1>1, <1>2 DEF Watches
  <1>4. Answered(w, heard)
    BY DEF AskJobs
  <1>5. watch' \in Watches
    BY <1>3, <1>4, AnsweredType
  <1>6. eased' \in BOOLEAN /\ shown' = "online" /\ heard' = "fine" /\ phase' = "sleep"
    BY <1>4 DEF Answered, TypeOK
  <1>7. told' \in [Jobs -> Nat]
    BY DEF AskJobs, TypeOK
  <1> QED
    BY <1>2, <1>5, <1>6, <1>7, WatchAssumption DEF AskJobs, TypeOK, Levels

LEMMA TypeNext ==
    ASSUME TypeOK, [Next]_vars
    PROVE  TypeOK'
  <1>1. CASE UNCHANGED vars
    BY <1>1 DEF vars, TypeOK
  <1>2. CASE Lose \/ TooSlow
    BY <1>2, TypeGone, OneMore DEF Lose, TooSlow, TypeOK
  <1> QED
    BY <1>1, <1>2, TypeBoxes, TypeEvents, TypeSteps, TypeLoad, TypeDial, TypeAskHealth,
       TypeAskJobs
       DEF Next, Helper

\* Every variable keeps its type, and a helper that dials, asks or sleeps watches a box
\* (watch/mod.rs session is only entered with a Watch).
THEOREM TypeCorrect == Spec => []TypeOK
  BY TypeInit, TypeNext, PTL DEF Spec

(***************************************************************************)
(* ToldInv: a job that was told is either forgotten by its box or known to *)
(* every Watch that compares lists.                                        *)
(***************************************************************************)
LEMMA ToldInit == Init => ToldInv
  BY DEF Init, ToldInv

\* Steps that list nothing keep what is known of the box that is watched.
LEMMA ToldKept ==
    ASSUME TypeOK, ToldInv, told' = told,
           \A j \in Jobs : jobs'[j] = jobs[j] \/ (jobs[j] # "ended" /\ jobs[j] # "gone")
                           \/ jobs'[j] = "gone",
           \/ watch' = None
           \/ ~watch'.based
           \/ /\ watch # None /\ watch'.name = watch.name /\ watch'.based = watch.based
              /\ watch'.known = watch.known
    PROVE  ToldInv'
  BY DEF TypeOK, ToldInv, Follows

LEMMA ToldBoxes ==
    ASSUME TypeOK, ToldInv,
           \/ \E j \in Jobs : Start(j) \/ End(j)
           \/ \E b \in Boxes : SomebodyLists(b) \/ ResourceChanges(b)
    PROVE  ToldInv'
  <1>1. ASSUME NEW j \in Jobs, Start(j) \/ End(j)
        PROVE  ToldInv'
    BY <1>1, ToldKept DEF Start, End, TypeOK
  <1>2. ASSUME NEW b \in Boxes, SomebodyLists(b)
        PROVE  ToldInv'
    BY <1>2, ToldKept, ListedType DEF SomebodyLists
  <1>3. ASSUME NEW b \in Boxes, ResourceChanges(b)
        PROVE  ToldInv'
    BY <1>3, ToldKept DEF ResourceChanges
  <1> QED
    BY <1>1, <1>2, <1>3

LEMMA ToldGone ==
    ASSUME TypeOK, ToldInv, Gone
    PROVE  ToldInv'
  <1>1. CASE watch = None
    BY <1>1, ToldKept DEF Gone
  <1>2. CASE watch # None
    BY <1>2, ToldKept, FailsType DEF Gone, TypeOK
  <1> QED
    BY <1>1, <1>2

LEMMA ToldLoad ==
    ASSUME TypeOK, ToldInv, Load
    PROVE  ToldInv'
  <1>1. CASE linked = None
    BY <1>1, ToldGone DEF Load
  <1>2. CASE linked # None
    BY <1>2, ToldKept DEF Load, New
  <1> QED
    BY <1>1, <1>2

LEMMA ToldAskHealth ==
    ASSUME TypeOK, ToldInv, AskHealth
    PROVE  ToldInv'
  <1>1. watch \in Watches /\ watch # None
    BY DEF AskHealth, TypeOK
  <1>2. CASE even
    BY <1>1, <1>2, ToldKept DEF AskHealth
  <1>3. CASE ~even
    <2>1. Answered(watch, level[watch.name])
      BY <1>3 DEF AskHealth
    <2> QED
      BY <1>1, <2>1, ToldKept, AnsweredType DEF AskHealth
  <1> QED
    BY <1>2, <1>3

\* A list tells only what ended since the last one, and knows it from then on.
LEMMA ToldAskJobs ==
    ASSUME TypeOK, ToldInv, AskJobs
    PROVE  ToldInv'
  <1> DEFINE w == [watch EXCEPT !.based = TRUE, !.known = Kept(watch.name)]
  <1>1. watch \in Watches /\ watch # None /\ watch.name \in Boxes
    BY DEF AskJobs, TypeOK, Watches
  <1>2. /\ \A j \in Jobs : jobs'[j] \in {jobs[j], "gone"}
        /\ \A j \in Jobs : Place[j] = watch.name /\ jobs'[j] = "ended" => j \in Kept(watch.name)
        /\ Kept(watch.name) \subseteq Jobs
    BY <1>1, ListedType DEF AskJobs
  <1>3. w \in Watches /\ w.name = watch.name /\ w.known = Kept(watch.name)
    BY <1>1, <1>2 DEF Watches
  <1>4. watch'.name = watch.name /\ watch'.known = Kept(watch.name)
    <2>1. Answered(w, heard)
      BY DEF AskJobs
    <2> QED
      BY <1>3, <2>1, AnsweredType
  <1>5. ASSUME NEW j \in News(watch)
        PROVE  j \in Jobs /\ told[j] = 0 /\ jobs[j] = "ended"
    <2>1. j \in Finished(watch.name) /\ j \notin Baseline(watch) /\ jobs[j] = "ended"
      BY <1>5 DEF News, Kept
    <2>2. j \in Jobs /\ Follows(j) /\ j \notin watch.known
      BY <1>1, <2>1 DEF Baseline, Finished, Follows
    <2>3. told[j] \in Nat /\ told[j] <= 1 /\ told[j] # 1
      BY <2>1, <2>2 DEF ToldInv, TypeOK
    <2> QED
      BY <2>1, <2>2, <2>3
  <1>6. \A j \in Jobs : told'[j] = IF j \in News(watch) THEN 1 ELSE told[j]
    BY <1>5 DEF AskJobs, TypeOK
  <1> QED
    BY <1>2, <1>4, <1>5, <1>6 DEF ToldInv, Follows

LEMMA ToldNext ==
    ASSUME TypeOK, ToldInv, [Next]_vars
    PROVE  ToldInv'
  <1>1. CASE UNCHANGED vars
    BY <1>1 DEF vars, ToldInv, Follows
  <1>2. CASE PathsChange \/ LinkChanges \/ HelperEnds \/ ProgramMissing
    BY <1>2 DEF PathsChange, LinkChanges, HelperEnds, ProgramMissing, ToldInv, Follows
  <1>3. CASE Dial \/ NextTick \/ TryAgain \/ Relaunch \/ Retry
    BY <1>3 DEF Dial, NextTick, TryAgain, Relaunch, Retry, ToldInv, Follows
  <1>4. CASE Lose \/ TooSlow
    BY <1>4, ToldGone DEF Lose, TooSlow
  <1> QED
    BY <1>1, <1>2, <1>3, <1>4, ToldBoxes, ToldLoad, ToldAskHealth, ToldAskJobs
       DEF Next, Helper

\* Lost connections, other boxes, new helpers and forgotten records never make a job told
\* a second time (watch/state.rs jobs).
THEOREM NothingToldTwice == Spec => []ToldOnce
  <1>1. ToldInv => ToldOnce
    BY DEF ToldInv, ToldOnce
  <1>2. TypeOK /\ ToldInv /\ [Next]_vars => ToldInv'
    BY ToldNext
  <1> QED
    BY <1>1, <1>2, ToldInit, TypeCorrect, PTL DEF Spec

(***************************************************************************)
(* EasedInv: an alarm that is armed has seen its resource recover.         *)
(***************************************************************************)
LEMMA EasedInit == Init => EasedInv
  BY DEF Init, EasedInv

\* The alarm, the level and the health of a tick do not change for the worse.
LEMMA EasedKept ==
    ASSUME TypeOK, EasedInv, eased' = eased, level' = level,
           \/ watch' = None
           \/ watch # None /\ watch'.name = watch.name /\ watch'.alarm = watch.alarm,
           phase' = "jobs" => phase = "jobs" /\ heard' = heard
    PROVE  EasedInv'
  BY DEF EasedInv

LEMMA EasedChanges ==
    ASSUME TypeOK, EasedInv, NEW b \in Boxes, ResourceChanges(b)
    PROVE  EasedInv'
  <1>1. PICK how \in Levels : level' = [level EXCEPT ![b] = how] /\ Eases(b, how)
    BY DEF ResourceChanges
  <1>2. UNCHANGED <<watch, phase, heard>>
    BY DEF ResourceChanges
  <1>3. eased => eased'
    BY <1>1 DEF Eases
  <1>4. watch # None /\ watch.name = b /\ how = "fine" => eased'
    BY <1>1 DEF Eases
  <1>5. watch # None => (level'[watch.name] = "fine" => level[watch.name] = "fine" \/ (watch.name = b /\ how = "fine"))
    BY <1>1 DEF TypeOK, Watches
  <1> QED
    BY <1>2, <1>3, <1>4, <1>5 DEF EasedInv

LEMMA EasedGone ==
    ASSUME TypeOK, EasedInv, Gone, eased' = eased
    PROVE  EasedInv'
  <1>1. CASE watch = None
    BY <1>1, EasedKept DEF Gone
  <1>2. CASE watch # None
    BY <1>2, EasedKept, FailsType DEF Gone, TypeOK
  <1> QED
    BY <1>1, <1>2

LEMMA EasedLoad ==
    ASSUME TypeOK, EasedInv, Load
    PROVE  EasedInv'
  <1>1. CASE linked = None
    BY <1>1, EasedGone DEF Load
  <1>2. CASE linked # None
    <2>1. CASE watch # None /\ watch.name = linked
      BY <1>2, <2>1, EasedKept DEF Load
    <2>2. CASE ~(watch # None /\ watch.name = linked)
      <3>1. eased'
        BY <1>2, <2>2 DEF Load
      <3> QED
        BY <3>1 DEF EasedInv
    <2> QED
      BY <2>1, <2>2
  <1> QED
    BY <1>1, <1>2

\* An answer arms the alarm again only after a recovery, and a warning starts the wait
\* for the next one.
LEMMA EasedAnswered ==
    ASSUME TypeOK, EasedInv, watch # None, NEW w \in Watches, NEW how,
           w.name = watch.name, w.alarm = watch.alarm, how = "fine" => eased,
           level' = level, Answered(w, how)
    PROVE  EasedInv'
  <1>1. /\ watch'.name = watch.name /\ watch'.alarm = Alarm(w, how) /\ phase' = "sleep"
    BY AnsweredType DEF Answered
  <1>2. CASE ~w.alarm /\ Alarm(w, how)
    <2>1. eased' = (level[watch.name] = "fine")
      BY <1>2 DEF Answered
    <2>2. watch'.alarm
      BY <1>1, <1>2
    <2> QED
      BY <1>1, <2>1, <2>2 DEF EasedInv
  <1>3. CASE ~(~w.alarm /\ Alarm(w, how))
    <2>1. eased' = eased
      BY <1>3 DEF Answered
    <2>2. ~Alarm(w, how) => eased
      BY DEF Alarm, EasedInv
    <2>3. ~watch'.alarm => eased'
      BY <1>1, <2>1, <2>2
    <2> QED
      BY <1>1, <2>1, <2>3 DEF EasedInv
  <1> QED
    BY <1>2, <1>3

LEMMA EasedAskHealth ==
    ASSUME TypeOK, EasedInv, AskHealth
    PROVE  EasedInv'
  <1>1. watch \in Watches /\ watch # None
    BY DEF AskHealth, TypeOK
  <1>2. CASE even
    BY <1>1, <1>2 DEF AskHealth, Health, EasedInv
  <1>3. CASE ~even
    <2>1. Answered(watch, level[watch.name]) /\ level' = level
      BY <1>3 DEF AskHealth
    <2>2. level[watch.name] = "fine" => eased
      BY <1>1 DEF EasedInv
    <2> QED
      BY <1>1, <2>1, <2>2, EasedAnswered
  <1> QED
    BY <1>2, <1>3

LEMMA EasedAskJobs ==
    ASSUME TypeOK, EasedInv, AskJobs
    PROVE  EasedInv'
  <1> DEFINE w == [watch EXCEPT !.based = TRUE, !.known = Kept(watch.name)]
  <1>1. watch \in Watches /\ watch # None /\ watch.name \in Boxes
    BY DEF AskJobs, TypeOK, Watches
  <1>2. Kept(watch.name) \subseteq Jobs
    BY DEF Kept, Finished
  <1>3. w \in Watches /\ w.name = watch.name /\ w.alarm = watch.alarm
    BY <1>1, <1>2 DEF Watches
  <1>4. Answered(w, heard) /\ level' = level
    BY DEF AskJobs
  <1>5. heard = "fine" => eased
    BY <1>1 DEF AskJobs, EasedInv
  <1> QED
    BY <1>1, <1>3, <1>4, <1>5, EasedAnswered

LEMMA EasedNext ==
    ASSUME TypeOK, EasedInv, [Next]_vars
    PROVE  EasedInv'
  <1>1. CASE UNCHANGED vars
    BY <1>1 DEF vars, EasedInv
  <1>2. CASE PathsChange \/ LinkChanges \/ HelperEnds \/ ProgramMissing
    BY <1>2 DEF PathsChange, LinkChanges, HelperEnds, ProgramMissing, EasedInv
  <1>3. CASE Dial \/ NextTick \/ TryAgain \/ Relaunch \/ Retry
    BY <1>3 DEF Dial, NextTick, TryAgain, Relaunch, Retry, EasedInv
  <1>4. CASE Lose \/ TooSlow
    BY <1>4, EasedGone DEF Lose, TooSlow
  <1>5. ASSUME NEW j \in Jobs, Start(j) \/ End(j)
        PROVE  EasedInv'
    BY <1>5 DEF Start, End, EasedInv
  <1>6. ASSUME NEW b \in Boxes, SomebodyLists(b)
        PROVE  EasedInv'
    BY <1>6 DEF SomebodyLists, EasedInv
  <1> QED
    BY <1>1, <1>2, <1>3, <1>4, <1>5, <1>6, EasedChanges, EasedLoad, EasedAskHealth,
       EasedAskJobs
       DEF Next, Helper

\* As long as one Watch goes on, through lost connections and slow answers, a resource is
\* warned of again only after it was fine in between (watch/state.rs alarm).
THEOREM WarnedOnceUntilFine == Spec => WarnsOnce
  <1>1. EasedInv => (watch # None /\ watch' # None /\ watch.name = watch'.name
                         /\ ~watch.alarm /\ watch'.alarm => eased)
    BY DEF EasedInv
  <1>2. TypeOK /\ EasedInv /\ [Next]_vars => EasedInv'
    BY EasedNext
  <1> QED
    BY <1>1, <1>2, EasedInit, TypeCorrect, PTL DEF Spec, WarnsOnce
=============================================================================
