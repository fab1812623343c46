# Slingshot in TLA+

Slingshot (Rust, `src/crates`) lets a developer work on one machine, the
*Client*, and run the work on another, the *Agent*. A project has one copy on
each. `slingshot sync` moves edits between the copies over SSH, `slingshot run`
and `slingshot attach` push first and then start a run or a terminal session on
the Agent, `slingshot ps` and `slingshot stop` list and end them.

This directory holds TLA+ modules that model how those operations change state, TLC
configurations that check them on small instances, and TLAPS proofs about transfers, the
project lock, sessions, pairing, links and scans. Paths below are relative to
`src/crates/` unless they start with `docs/`; `core`, `agent` and `cli` stand for
`slingshot-core/src`, `slingshot-agent/src` and `slingshot-cli/src`. `PROJECT.json` maps
every definition to its lines.

## Inventory

| Part | State it keeps | Operations | What is hard | What makes it correct |
| --- | --- | --- | --- | --- |
| Three way planning (`core/sync.rs` plan, agreed, merge) | none | classify each path by sender, receiver and baseline | the baseline must move exactly where both machines agree | every path falls in one class; nothing both sides edited is replaced |
| Apply and recover (`core/sync.rs`, `core/storage.rs`, driven by `agent/projects.rs` and `cli/transfer.rs`) | project files, `baseline.json`, `journal.json`, backup sets, partial files | apply, install, recover, undo_step | crash or failure between two file operations, edits meanwhile, folders that become files | a transfer happens entirely or not at all; what is replaced can be put back |
| Client commands (`cli/transfer.rs`, `cli/commands/sync.rs`) | the Client's project, baseline and journal | recover_local, preview, take_lease, push, pull | no lock on the Client; a pull changes files before the Agent hears of it | no copy goes backwards, the lease is given back |
| Control service (`agent/service.rs`, `core/control.rs`) | a lease per connection | Begin, Finish, Release, Inspect and the other requests | connections that break or fall silent while a transfer is under way | one lease per project, dropped on every exit |
| Project lock, runs (`agent/projects.rs` acquire, `agent/jobs.rs`, `agent/runner.rs`) | lock file, job records, process table | acquire, run, list and reconcile, stop | killed helpers, restarts, reused PIDs, stop against start | a run owns the copy; records become true; stop ends the run |
| Sessions (`agent/jobs.rs`, `cli/commands/attach.rs`) | job records, tmux server, `home.lock` | session, attach, stop_session | two attaches at once; list against start; tmux outlives the daemon | one home session; what lives is listed; every attach is answered |
| Environment files and build output (`agent/projects.rs`, `core/artifacts.rs`) | files of the copy, artifact folder, lists of names | env_add, env_remove, prepare_artifacts | failure between two file operations; sessions that change the copy | a link leads to contents; what is kept is listed, so that unlink finds it |
| Pairing (`agent/lib.rs`, `core/protocol.rs`, `cli/client.rs`, `cli/commands/link.rs`) | code, tries, deadline, pending exchange | open, join, accept, new codes | several joins against one code, expiry, `authorized_keys` without a lock | a code is used once and guessed at a few times at most; who is told so is authorized |
| Client registry, link, unlink (`agent/clients.rs`, `cli/commands/unlink.rs`, `core/keys.rs`) | allowed Clients, authorized keys, saved Agents | allow, remove, unlink | failure between removals on two machines; answers that come late | a link that succeeded works; an unlink that finished leaves nothing; the rest can be removed again |
| Saved Agents (`core/config.rs`) | `config.toml` | upsert, remove, save | read, change, write without a lock | the default is a saved Agent |
| Tunnels and routes (`*/tunnel.rs`, `cli/route.rs`, `cli/ssh.rs`, `core/network.rs`) | the path in use | resolve, probe, forward | a path that goes away | a reachable Agent is reached |
| Watch, menu bar (`cli/watch`, `src/mac/menubar`) | last report, notices given, backoff, path | update, notices, retry, restart | lost connections, forgotten jobs, a helper that dies | one notice per event, none missed; a box that can be reached is shown |
| Source selection and scanning (`core/source.rs`) | hash cache, baseline entries | scan, entry | cache trusts size and times; edits and changes of rules during a scan | a manifest describes the disk; a filtered file is not a deleted one |
| Setup, tools, views, command line (`core/preflight.rs`, `telemetry.rs`, `tools.rs`, `stack.rs`, `presentation.rs`, `step.rs`, `agent/awake.rs`, the remaining `cli/commands`) | none of their own | probes and printing | none for a model checker | out of scope |

How they interact. A command on the Client opens one SSH connection, over which
it speaks requests and responses with the Agent's service. `Begin` takes the
project lock for the life of the connection (a `Lease`), recovers whatever an
earlier transfer left, and answers with the Agent's manifest and baseline. The
Client plans, copies with rsync into a staging folder, and then either sends
`Finish`, upon which the Agent plans again and applies (push), or applies
locally and sends `Finish` to report it (pull). A run takes the same lock, but
in a helper process of its own that outlives the connection. Sessions hold no
lock while they live: people and coding agents edit the Agent's copy while
transfers run. Before any of this a Client *pairs*: it proves over a connection of
its own that it knows the code on the Agent's screen, and the Agent installs its
two keys, one for `ssh` and one for the connection through iroh. `slingshot unlink`
undoes that on both machines, after the Agent has removed the secrets
(environment files) of the Client's projects. The menu bar app starts a helper,
`internal-watch`, that polls one box and says what changed.

## Modules

| Module | Models | Builds on |
| --- | --- | --- |
| `ThreeWay` | plan, merge, agreed as operators over manifests | |
| `AtomicSync` | abstract: a transfer is one indivisible step | `ThreeWay` |
| `SyncApply` | the receiver: plan, checks, journal, steps, commit, rollback, recovery | `ThreeWay`, implements `AtomicSync` |
| `ClientSync` | both machines and the Client's commands | `ThreeWay`; takes from `SyncApply` that an apply is one step |
| `Scanning` | one machine's scan: walk, hash cache, entries kept from the baseline | |
| `RunWork` | lock, records, helpers of runs, stop | |
| `Sessions` | attach, tmux and records, stop, unlink's wait, `home.lock` | the lock of `RunWork`, seen from the other side |
| `EnvFiles` | environment files on the Agent, request by request | |
| `Linking` | link and unlink on both machines, `config.toml` | extends `EnvFiles`; takes pairing as two steps |
| `Pairing` | code, exchange, tries, keys | |
| `Watch` | the helper of the menu bar app, notices, choice of a path | |
| `SyncApplyMC`, `ClientSyncMC`, `ScanningMC`, `WatchMC` | names for TLC's instances | |
| `SyncApplyProofs`, `ClientSyncProofs`, `RunWorkProofs`, `SessionsProofs`, `LinkingProofs`, `PairingProofs`, `ScanningProofs`, `WatchProofs` | theorems | the module named, TLAPS |

### ThreeWay

A manifest is a total function from names to entries, `Absent` standing for a
name the code's map does not hold. An entry (hash, mode, link target) is one
member of `Content`: the code only compares whole entries. The four classes are
the branches of `plan`; `PlanBaseline` is what it records.

### SyncApply

State: `tree` is the disk under the project, where a path may also hold a folder (`Dir`)
or half written content (`Broken`); `ignored` are folders holding files no manifest
lists, which is why a folder the plan empties may stay; `temps` are the partial files
`install` copies to before it renames them; `base`, `journal`, `backup` the state
folder; `plan` and `spoiled` the staged transfer; `pc`, `phase`, `path`, `todo`, `stuck`
the program's position. `disturbed` and `seen` are history the properties need.

One action is one durable file operation, the finest point a crash can fall on.
`apply` is: the checks (`Refuse`, `WriteJournal`, or `RecordBaseline` when there
is nothing to change); for each step in the code's order (deletions first,
children before parents) `BackUp`, then `Remove` and `Prune`, or `CopyIn` and
`Rename`; `Commit`, which writes the baseline; `Finished`, which removes the
journal. `recover` is `StartRecovery` (or the tail of any failing action), then
for each step in reverse `AlreadyUndone`, `StartUndo` and the same install
operations, or `LeaveStuck`; then `Sweep`. Failures: `ApplyFails` and
`UndoFails` let any operation fail, `CommitFailsLate` is `write_bytes` failing
after its rename, `SpoilStage` a staged file that changes, `Crash` a process
that dies, maybe with a torn backup. `ApplyBlocked`, `CopySpoiled` and
`LeaveStuck` are failures that the state itself causes, and use no fault.

The sender's manifest of a push is any well nested manifest: nothing in the
receiver depends on where it comes from. Whether edits may fall inside an apply
is the constant `EditsWhileApplying`; see *Proofs*.

### ClientSync

State: the two copies, the Client's baseline, journal and backup sets, the
Agent's baseline and lease, and for each command of `Commands` its position and
what it remembers. One action is one exchange with the Agent or one step on the
Client's files. A path is replaced in one action and the Agent applies in one
action; `SyncApply` is where those are taken apart and `TransfersAreAtomic` is
why it is sound. Contents are numbered in the order of the edits: 1 is the
initial content, even numbers are edits on the Client, the other odd numbers
edits on the Agent, 0 is `Absent`. That makes "older" expressible. With
`Reverts` an edit may also bring back an earlier content or delete the file, and
numbers lose that meaning. `LocalEdit` leaves out paths under replacement: that
race is `EditsKept` of `SyncApply`. The Agent may lose a lease at any time
(`LoseLease`): the connection breaks, or stays silent past the 90 second limit,
before the command notices.

`clash` records that a command met the journal of another command at work.
`take_lease` calls `recover_local` before it holds anything, so it happens; what
it leads to is described under *Observed* (`AgentEditsKept`). `AgreedIsBehind` and
`NeverBackwards` are stated for behaviours in which it did not happen, so that
they say something of everything else.

### RunWork

State: the lock and its holder, the record of each run, its process (`alive`,
`zombie`, `gone`), the position of each helper, connection and stop request.
`Listed` is `list` with `reconcile`, which every reader of records goes through;
`Look`, `TryLock`, `LookAgain` are `acquire`; `Save`, `Spawn`, `Track`, `Reap`,
`Finish`, `Release` are `runner::run`; `Find` to `Settle` are `stop`. A helper
may be killed anywhere, the machine may restart. Two guards bound the state
space without hiding a case: `Reuse` (the system gives a free PID away) happens
only while a stop request remembers that PID, since nobody else would notice,
and `GrowsOld` (thirty seconds pass) only for an active record without a PID,
since `reconcile` looks at the age of no other.

### Sessions

State: `active`, the sessions whose record says running; `tmux`, the sessions
that live; `coming`, those whose `tmux new-session` was under way when the daemon
died; the project lock, `home.lock`, and where every request stands. Each attach
would make a session of its own name, so a session and its attach share one
identity. `Look` to `Answer` are `session` and its two halves, in the project
(`TakeProject`, which fails when busy) and in the home folder (`TakeHome`, which
waits, and `LookAgain`, the second look under the lock that the project has not).
`Find` to `Settle` are `stop_session`, `LookForJobs` to `Removed` the part of
`unlink` that makes sure nothing works. `List` is any reader of records. A
session may exit by itself; `DaemonDies` cuts every request short and frees the
locks, while tmux goes on; `Reboot` leaves only the records.

Whoever reads the records corrects them by what `tmux has-session` says
(`ReadRecords`), and for each living session that command may fail, which the code
takes for "no such session" (`agent/jobs.rs:197`). `tmux kill-session` may fail too,
and stop then settles the record of a session that lives (`KillFails`, `:506`).
Either is a fault of the bound `MaxFaults`. Two history variables
name the sessions that live with no record to say so: `early`, those whose record a
list closed between `save` and `new-session` (`agent/jobs.rs:405`), and `missed`,
those for which `tmux` failed. The properties except these (`Unrecorded`) and no
others: the loss of one record must not spread to another session, nor let an attach
or an unlink forget the sessions that are listed. What the documents say without
the exception is `HomeHasOne` and `IdleFirst`, and both fail: see *Observed*.

### EnvFiles and Linking

`EnvFiles` has one request at a time, since env add, env remove and unlink hold
the project lock from first to last. Each file operation is an action: contents
(`Store`), link (`MakeLink`), list (`Name`), and in the other direction link,
contents, list (`Unlink`, `Discard`, `Forget`). `Fail` cuts a request short
anywhere; `Session` changes the copy at any time. `torn` remembers the targets
whose env add stopped halfway.

`Linking` composes it with the Client. A command reads `config.toml` into
`memory` when it starts and writes all of it when it ends (`Truncate`, then
`Save`: `fs::write` is two steps to a reader). A link goes `Allow`, `Authorize`,
`Learn` (the host key), then saves; an unlink goes `Ask` (and `Answer` of the
Agent, maybe after the Client gave up), `RemoveKey`, `ForgetHost`, saves, and
forgets the project IDs only when all of it worked. `Quit` kills a command
anywhere. `crossed` remembers that commands overlapped or that one was killed
while it wrote; `LinkedWorks`, `UnlinkedIsClean` and `SecretsReachable` except
those behaviours, `LinksLead`, `SecretsListed` and `DefaultSaved` do not.

### Pairing

State: `slot`, the code in force with its wrong proofs; `exchanging`, whose turn it
is; the position of each Client's connection, the code it typed and the code the
Agent answered it with; `allowed` and `file`, the two places a key goes;
`copy`, what a connection or a removal script has read of `authorized_keys`.
`Connect` to `Answer` are `pair` and `join` and `accept` on the Agent with the
Client's side of each message, `Replace` is Enter, `Expire` the deadline,
`TimeOut` the limit on the wait for a proof, `Restart` the daemon. SPAKE2 is one
operator, `Proves`: a proof is right if both sides used the same code. `Unlink`, `Script` and
`RemoveLine` are the Client's removal, whose shell script rewrites the same file.

### Watch

State: which paths lead to a box, its resource and its jobs; the helper's position, the
`Watch` it keeps for a box (`known` jobs, failures, alarm), the path of the process;
what the app shows. `Load`, `Dial`, `AskHealth`, `AskJobs`, `NextTick` and `TryAgain`
are the loop of `internal-watch`, `Lose` and `TooSlow` the ends of an attempt,
`HelperEnds`, `Relaunch`, `ProgramMissing` and `Retry` the app. Jobs are numbered by
when they started, which is the order in which `list` forgets them. A resource has three
levels: fine, high, and the stretch between the two thresholds where an alarm neither
starts nor ends. A box always has a path through iroh here, open or not. A probe only
learns that somebody takes a connection at a saved address (`Answers`,
`cli/route.rs:119`), and on another network that may be another machine (`strangers`),
which `ssh` refuses for its host key (`Lose`). `Found`, the premise of the two liveness
properties, therefore asks that no stranger answers at an address preferred to the first
that leads to the box; `ShownAnywhere` does not, and fails.

### Scanning

State: the disk with the time of every file, the rules, a clock, the baseline
and the saved cache; of the scan under way, the names left, the file at hand, the
new cache and the manifest. Every write of the model keeps size and inode, the
hardest case: the times alone tell two contents apart, and writes within one
tick leave equal times. `Begin`, `Skip`, `Reuse`, `Stat`, `Read`, `Listed`,
`Retain` and `Save` are `scan` and `entry_cached`, `Agree` is a synchronization
that records the manifest as the new baseline; edits and changes of rules fall
between any two of them. `Torn` is the hash of a file that changed while it was
read. `ReadTicks` says how many ticks hashing a file may take (see *Proofs*).
A file that cannot be read fails the scan during the walk (`ReadFails`), but in the
second look at what the baseline has (`Retain`) it loses its entry like one that is gone
(`core/source.rs:445`). `unread` remembers those names, which `DroppedIfGone` excepts;
`UnreadKeepTheirEntry` does not, and fails.

## Runs

All configurations say `CHECK_DEADLOCK FALSE`: transfers, commands, edits,
failures and restarts are bounded, so a behaviour that has used its bounds rests
legitimately. That nothing rests half done is a liveness property (`Settles`,
`CommandsEnd`, `RecordsSettle`), not absence of deadlock.

### Runs that pass

| Run | Instance | Shows |
| --- | --- | --- |
| `sync_apply` | names `d`, `d/f`, `g`; two contents; 2 transfers, 1 edit between transfers, 2 failures | `TypeOK`; `BackupsHold`; `RolledBackIsWhole`; `AppliedAtomically`, the refinement of `AtomicSync` |
| `sync_edited` | the same names; 1 edit at any moment, 1 failure | `NeverBroken`; `StuckOnlyIfDisturbed`; `NoPartialsLeft`; `Settles`; `Recovers` |
| `client_sync` | one file, two processes, 3 commands, 2 edits on either machine, 1 failure | `TypeOK`; `AgreedIsBehind`; `NeverBackwards`; `CommandsEnd` |
| `run_work` | two runs, one synchronization, one stop, 1 killed helper, 1 restart | `TypeOK`; `RunOwnsCopy`; `StopKills`; `RecordsSettle` |
| `sessions` | one attach in the project, two in the home folder, one stop, one unlink, one synchronization, 1 failure (of tmux too), death of the daemon or restart | `OneHomeSession`; `LivingIsListed`; `UnlinkWaits`; `AttachAnswered` |
| `linking` | two Agents, one environment file on one of them, three commands of which two at a time, 1 request cut short | `LinksLead`; `SecretsListed`; `DefaultSaved`; `LinkedWorks`; `UnlinkedIsClean`; `SecretsReachable` |
| `pairing` | two Clients with four connections each, two codes, limit 3, 1 unlink | `GuessesLimited`; `CodesWorkOnce`; `OldCodesAreDead`; `ToldIsAuthorized`; `ExchangeEnds` |
| `watch` | two boxes, one of them measured, an address and iroh, one remembered job of two, 2 changes of network (with strangers), configuration or helper | `ToldOnce`; `WarnsOnce`; `ShownAgain`; `FinishesAreTold` |
| `scanning` | `Cargo.toml` and `target/f` beside it, two contents, clock 0 to 4, two edits or changes of rules, two scans, any file unreadable in the second look | `CacheTruthful`; `ListedIsReal`; `DroppedIfGone` |

Why these bounds. The nested names hold every relation the steps distinguish: a
folder, a file in it, a file beside it, `d` able to be a file or a folder, so that
files replace folders and folders files. The first transfer creates files and
their baseline, the second replaces, deletes and changes kinds; a third meets no
state the second did not. Two failures reach a crash inside the recovery of a
crash. Two contents tell old from new; a third would only rename them.
`sync_edited` lets its edit fall anywhere and has one failure: an edit and a
failure together already reach every guard of `undo_step`. Its invariants, and
those they are proved from, were also checked once with 2 failures (890 000 states),
and with names two folders deep (`d`, `d/f`, `d/f/x`), where `remove_empty_parents`
goes up more than one folder.

`client_sync` has one path because partial application is `SyncApply`'s matter
and every guard of the two machines is per path or over the whole manifest. Its
safety properties were also checked once with 4 commands and 2 edits (370 000
states), with 3 edits and 2 failures (430 000) and with two paths (290 000),
without an error; the run keeps the instance that also affords liveness.
`run_work` has two runs because exclusion needs two, and one stop because stops
do not read each other's state except through records and processes.

`sessions` has two attaches in the home folder because `home.lock` and the second
look matter between two, and one in the project because a second there shows
nothing but the disagreement described under *Observed*. Its safety properties were also
checked once with 2 failures (230 000 states). `linking` needs three
commands for link, unlink and a link after it, and two slots for them to
overlap; a second environment file would only lengthen an unlink. In `pairing`
four tries are one more than a code survives, and two codes let an old one be
used after a new one. In `watch` a box remembers one job where the program
remembers a hundred, so that two jobs reach the limit;
its properties were also checked once with two addresses (830 000 states), where a stranger
may answer at either. In `scanning` two scans
are the writer and the reader of a cache, the clock leaves room for the
two ticks a hash must be old, and `target/f` with its `Cargo.toml` is the
smallest project with a rule that depends on another file.

### Runs that show a disagreement

Each states a sentence of a document or comment; TLC finds a behaviour of the
code that contradicts it. `PROJECT.json` quotes the sentences. Further ones are
stated as properties without a run: see *Observed*.

| Run | Property | What the trace does |
| --- | --- | --- |
| `sync_folder_failure` | `FailureRestores` | a file replaces a folder that also holds an ignored file: the folder stays, the rename fails, and the rollback refuses the path because a directory is in the way |
| `run_stop_early` | `StoppedIsOver` | a stop finds a record that has no PID yet, marks it stopped and answers; the command runs on |
| `scanning_target` | `FilteredKeepTheirEntry` | a `Cargo.toml` appears beside a synchronized folder named `target`: its files are generated from then on, and the scan drops their entries although they exist, which a push takes for deletions |

Their instances are the smallest that reach the trace, or those of the passing
run. None is a statement about how often this happens.

### Fairness

- `SyncApply`: weak fairness of `Progress`, the process executing its next
  operation, and of `StartRecovery`, the next transfer of that project, which
  begins by recovering. Failures, crashes, edits and new pushes are never forced.
  The second is an assumption about the users, which is what `Recovers` is about:
  *once somebody tries again*. An edit withdraws the promise, because a path
  somebody wrote to is left alone until a person looks.
- `ClientSync`: weak fairness of some command making a step. Every wait in the code has
  a timeout, and no command waits for another one: a busy lease is an answer. No
  fairness of a particular command is needed, because the number of commands is bounded.
- `RunWork`: weak fairness of `List` (the menu bar app and every request poll the
  records) and of `GrowsOld` (time passes). Neither helpers nor processes are
  assumed to go on.
- `Sessions`: weak fairness of the next step of an attach the daemon has accepted, which
  is a task that only waits for `tmux` and for the lock; the readings of records on its
  way may be right or wrong. Strong fairness of `TakeHome`: `flock` wakes a waiter
  whenever the lock is let go, and the wait has no limit of its own.
- `Pairing`: weak fairness of `TimeOut`, a timer of the Agent, and of the next step
  of `accept`, which waits for nobody. No Client is assumed to go on.
- `Watch`: weak fairness of the helper's loop, every wait of which has a limit, and
  of `Relaunch`, the app's timer. That the network works in the end, and that
  no other machine answers where the box should, is a premise
  of the two properties (`<>[]Reachable`), not an assumption.
- `Linking` and `Scanning` have no liveness properties and state no fairness.

### Mutants

Each checked property is paired in `PROJECT.json` with a changed definition that stands
for a plausible bug: the backup saved for the wrong paths, the baseline written early,
the copy not verified again, the recovery that undoes only the remaining steps, the
Agent's second scan dropped, the records not read again under the lock, no second look
under `home.lock`, one wrong code too many, a path that is never probed again, a hash
that is cached a second too early, and so on. The changed form stands beside the
definition and is used by nothing.

## Proofs

Proved by TLAPS for every set of names, contents, requests, Clients and Agents,
every nesting and order of names, and every bound, from the named assumptions of
the modules: `AbsentAssumption`, `KindsAssumption`, `NamesAssumption`,
`BoundsAssumption`, `ContentAssumption`, `ClientAssumption`, `ActorsAssumption`,
`SessionsAssumption`, `EnvAssumption`, `LinkingAssumption`, `PairingAssumption`,
`ScanningAssumption` and `WatchAssumption`. They say that
the sentinels differ from the data, that the kinds of requests are apart, that
names have a strict order and that what is above a folder is above all it holds,
that bounds are numbers, that there are numbers enough for the contents of all
edits, that a code survives at least one guess, and that a file which makes its
neighbours generated is not itself generated. Every passing run evaluates those
of its module.

`SyncApplyProofs` begins with what planning guarantees: `PlanIsPartition`,
`BothSidesRecordTheSame`, `CleanPlanConverges`, and `PlanAdvances`: a plan that changes
something records a baseline different from the one it was made against. The last one
carries recovery. `recover` decides that a transfer was completed because
`baseline.json` equals the journal's baseline; that is sound if the journal's was
planned against the `baseline.json` on disk, as the Agent's is. The Client plans against
the Agent's baseline instead; *Observed* tells the consequence
(`CommittedMeansApplied`).

It goes on with inductive invariants of `SyncApply`, one on top of the other,
with a lemma for each action. Those that hold whoever edits and whenever:

- `Safe`, that is `TypeOK`, `NeverBroken` and `StepInv`. `NeverBroken` is not
  inductive: half written content lives in `temps` and `backup` and only the guards
  in front of `Rename` and `StartUndo` keep it out of `tree`. `StepInv` says what those
  guards established for as long as the step lasts.
- `JournalInv`: while steps remain the baseline file still differs from the
  journal's, and the journal was planned against it.
- `RestoreInv`: undisturbed, each path of a pending transfer holds its old content
  or has it in its backup. It needs to know that a path not yet reached is
  untouched, and that the one at hand is saved.
- `PartialsInv`: a partial file lies beside a path of the journal, below real
  folders, so that the sweep at the end of a recovery reaches it (it skips a path
  whose parents are not folders); and while apply runs only the step between its copy
  and its rename has one, so that none is left at the commit.
- `ClearWay`: undisturbed, every path of a pending transfer holds its old or its new
  content, below folders only. It rests on what the checks in front of
  the journal refuse: when no file takes the place of a folder, no path of the
  plan lies above another one (`VerifiedClear`, `ClearBegin`). With `RestoreInv` it
  leaves `LeaveStuck` no way to fire, which is `StuckInv`.

From these, `TypeCorrect`, `NeverBrokenAlways`, `JournalAlways`, `BackupsAlwaysHold`,
`PartialsNeverLeft` and `NeverStuckUndisturbed`. The last two are stronger than
their run in a way that matters: a recovery may itself be killed, any
number of times and between any two operations, and `SyncEdited.cfg` has one
failure only.

`ProgressInv` (how far apply or recovery has come) adds what is true while nobody
edits, and proves `RollbacksAreWhole` and `TransfersAreAtomic`, the refinement of
`AtomicSync`. The mapping counts the paths of a pending transfer as what they held
before (`Promised`) and a missing baseline file as the empty one (`Baseline`); the
only step of apply that maps to a `Transfer` is `Commit` (or `CommitFailsLate`),
every file operation maps to a stutter. Both theorems assume
`~EditsWhileApplying`. That is not a convenience: with edits inside an apply the
statement is false (`EditsKept` under *Observed*).

`ClientSyncProofs` proves `TypeCorrect`, `AgreedAlwaysBehind` and `NeverGoesBackwards`,
the last two when no edit brings back a content that was there before (`~Reverts`).
Contents are numbered in the order they come up, and it takes that hypothesis for
"newer" to mean a larger number; the code compares contents for equality only, and an
edit that reverts one is, to it, a new version. The properties are not inductive: what a
command *knows* is what moves the machines later. `OrderInv` therefore follows the
numbers through everything a command carries, as long as there was no `clash`:

- `Alone`: one command at a time works through the Client's journal, and it is its own.
- `FilesOrdered`: what was agreed on is at most what each machine holds, and
  would be after undoing the journal (`Lasts`); a journal only raises numbers.
- for each command, what it has seen of the Agent (`SeenOrdered`), what it plans and has
  staged (`PlanOrdered`, `StageOrdered`), how far it has applied (`WorkOrdered`) and what
  it will report (`FinishOrdered`) are in that order too; and while it holds the lease the
  Agent's baseline is still the one it saw (`LeaseOrdered`).

A step of one command can only disturb another through the journal, the lease
and the two copies, which is one frame lemma and not a case for each pair. `clash` is
where the argument ends, and so does the property (`AgentEditsKept` under *Observed*).

`RunWorkProofs` proves `TypeCorrect`, `StopAlwaysKills` and `RunAlwaysOwnsCopy`.
`Base` relates where a run stands to what there is of its record and process, and
where a stop stands to what it knows of them; `StopKills` is part of it, as a
stop that has killed must stay right while PIDs change hands. `RunOwnsCopy` is
not inductive, since it does not say why nobody else works. `Inv` adds
`Held`, that whoever is between `TryLock` and the end holds the lock, and `Alone`,
about the runs whose helper was killed and which go on: they hold nothing, but
their record blocks everybody from the second look on. It takes both halves to
exclude a transfer, which is why `acquire` looks twice.

`SessionsProofs` proves `TypeCorrect`, `LivingAlwaysListed`, `OneHomeSessionAlways` and
`UnlinkAlwaysWaits`. `Basic` says who has the locks (`Turns`), that a session is made
once, by its own attach (`Births`), and that a stop ends one that was made
(`TargetsMade`). `Alone` is about `Claimed`: the sessions a second look under the lock
finds, or will find when tmux has them, which are all but the `Unrecorded`. However the
reading of the records goes, it takes only living sessions it also names in `missed` off
the list (`ReadsKeep`), so that `Claimed` never loses one silently. An attach to the
home folder goes on only when there is none, and an unlink only when the project has
none.

`LinkingProofs` proves `TypeCorrect`, and `LinksAlwaysLead` and `SecretsAlwaysListed`
from `EnvInv`: `Order`, which says what the step of a request promises of contents, link
and name, and `Listed`, `SecretsListed` with its exception drawn as narrowly as it is.
Any step of `Linking` changes the environment files as some step of `EnvFiles` does
(`EnvStep`), so these hold whatever link and unlink do around them. `DefaultAlwaysSaved`
needs `ConfigInv`: not only the file, but every version a command has in memory, names a
default that is in it. `LinkedAlwaysWorks`, `UnlinkedAlwaysClean` and
`SecretsAlwaysReachable` come from `LinkInv`, that is `Tidy` as long as nothing
`crossed`: one command at a time is about an Agent (`Apart`), and what a link or an
unlink has done at each place by the time it has come as far as `at` says stays done
(`LinkTidy`, `UnlinkTidy`), although commands about other Agents write the same
`config.toml` from the version they have in memory (`Kept`). The part in the middle of
an unlink is `AskTidy`: the names that are left are those the Agent's request has still
to remove.

`PairingProofs` proves `TypeCorrect`, and from `CodeInv` (what the code in force has been
through is what the history says of it, and later codes have none)
`GuessesAlwaysLimited`, `CodesAlwaysWorkOnce` and `OldCodesAlwaysDead`. `ToldAlwaysAuthorized`
comes from `TurnInv`: one connection at a time is past its `Open`, until the keys are
installed, so the lines it read are those it adds to. That turn is all
that guards `authorized_keys`, and the removal script does not take it
(`scripted`).

`ScanningProofs` proves `TypeCorrect`, `CacheAlwaysTruthful`, `ListedAlwaysReal` and
`DroppedAlwaysGone`, the last three for `ReadTicks <= 2`. `CacheInv` says that times are
past, that cached times are older than now, and that the file at hand, unless it
was written since, has the times and the content it was read with. The hypothesis is
the point of it: `settled` compares a file's time with the clock after hashing, so
two ticks of hashing use up the two seconds of margin, and with `ReadTicks = 3`
TLC finds `CacheTruthful` violated. `ListInv` keeps account of every name the
walk has passed: `Real` of what is listed and `Excused` of what is not: away at some
moment, generated, or `unread` in the second look.

`WatchProofs` proves `TypeCorrect`, `NothingToldTwice` and `WarnedOnceUntilFine`. `ToldInv`
says why a job is not told again: its box has forgotten it, or every list it could be
compared with knows it; a list that is not known forgets what it does not keep,
so the two cases are all there is. `EasedInv` says that an armed alarm has
seen its resource recover, as has one whose last answer, not yet looked at, was a good one.

Model-checked only: all liveness (out of the prover's reach, as is `ENABLED`). Every
other property of a passing run is a theorem. Type correctness of `Pairing`,
`Sessions`, `Linking`, `Scanning` and `Watch` is proved and in no run. The inductive
invariants above were checked with TLC before they were proved, on the constants of
the runs. Runs that end in a violation need no proof.

## Observed while modelling, without a run of its own

### Stated as a property

These properties stand in their modules and are violated by the code as
modelled. To see a trace, check the one named with the constants of the cited
configuration, changed as said, under `Spec` (`ShownAnywhere` under `FairSpec`).

| Property | Instance | What the trace does |
| --- | --- | --- |
| `EditsKept` (`SyncApply`) | `SyncFolderFailure.cfg`, two contents, `EditsWhileApplying = TRUE` | `docs/USAGE.md:184`, "Edits made on only one machine are kept." `apply` compares every path with the plan once; an edit that falls between that and the path's own rename (`core/sync.rs:314`) is overwritten |
| `RefusedOnlyByChecks` (`SyncApply`) | `SyncFolderFailure.cfg` | a file is replaced by a folder of that name: `source::entry` (`core/sync.rs:176`) refuses the parent before `check_parents`, whose comment at line 247 allows it, is asked |
| `CommittedMeansApplied` (`ClientSync`) | `ClientSync.cfg`, one command process, 4 starts, 3 edits, `Reverts = TRUE` | `core/sync.rs:402`, "If the new baseline was already written, the sync completed". The Client's `baseline.json` is only written by pulls, so a later pull may plan the very baseline that is on disk; when it is interrupted, recovery takes it for completed |
| `AgentEditsKept` (`ClientSync`) | `ClientSync.cfg`, 4 starts, no failures | `docs/ARCHITECTURE.md:236`, "A file changed only on the Agent is kept." `take_lease` recovers before it holds anything (`cli/transfer.rs:122`): a second command undoes a pull that is still running, the pull finishes, and the next push replaces the Agent's newer file |
| `ConflictsAreReal` (`ClientSync`) | `ClientSync.cfg`, no failures | a pull's `Finish` is refused after its files are in place (`cli/transfer.rs:267`); what the Agent writes there next is reported as a conflict, although the Client edited nothing |
| `StrangersSpared` (`RunWork`) | `RunWork.cfg`, one run, no failures, no restarts | `agent/jobs.rs:442`, "Every process is matched by PID and start time." The PID changes hands after the records were listed; `process_tree` takes the new owner's start time, and it is killed |
| `OneProjectSession` (`Sessions`) | `Sessions.cfg`, two attaches in the project and one outside, no stops, unlinks, synchronizations or failures | `docs/ARCHITECTURE.md:271`, "Each project has one session". `session` looks for a live one before it has the project lock (`agent/jobs.rs:364`) and not again under it (`:374`), unlike in the home folder; the lock is let go when the first is made, and the second makes another |
| `HomeHasOne` (`Sessions`) | `Sessions.cfg`, also without failures | `docs/ARCHITECTURE.md:271`, "and the home folder has one". The first look of a second attach closes the record of the first between its `save` and `new-session` (`agent/jobs.rs:405`); when the first is done with `home.lock` the second finds no session and makes another. A `has-session` that fails for the first does the same (`:201`) |
| `IdleFirst` (`Sessions`) | `Sessions.cfg`, also without failures | `agent/projects.rs:443`, "Every project must be idle first." The unlink's first look closes the record of an attach between its `save` and `new-session`; the attach makes its session and lets the project lock go, and the unlink's second look finds nothing. A `has-session` that fails for a session that lives does the same |
| `UnreadKeepTheirEntry` (`Scanning`) | `ScanningTarget.cfg` | `core/source.rs:371`, "Changing ignore rules therefore never deletes or transfers anything by itself". A synchronized file is filtered out and cannot be read: the second look (`:445`) takes the error for a file that is gone and drops the entry, which a push takes for a deletion |
| `ShownAnywhere` (`Watch`) | `Watch.cfg` | `docs/ARCHITECTURE.md:183`, of iroh: "Both machines have internet access, anywhere." Another machine accepts connections at a saved address: every probe prefers it, `ssh` refuses it, and iroh is never tried |

### Files and synchronization

- `sync --check` is described as a preview, but `preview` calls `recover_local`
  (`cli/transfer.rs:72`), so it may put files back.
- When the baseline's directory cannot be synced after the rename
  (`core/storage.rs:143`), the transfer is committed and `apply` still reports
  that the previous state was restored (`core/sync.rs:238`). No file is lost; the
  message is wrong. `RolledBackIsWhole` allows for it in its second disjunct.
- A crash while a file replaces a folder can leave a recovery that never ends
  (`core/sync.rs:403` and `:442`): the folder is gone or a file, and each attempt
  reports the path. `Recovers` and `StuckOnlyIfDisturbed` exclude such transfers
  by `FolderBecomesFile`.
- An ignored file that is edited on the receiver and deleted on the sender makes
  every later sync refuse: the receiver lists it at its baseline, and what is
  found in its place is something else.
- A cached hash is wrong when hashing took longer than two seconds and the file
  was written meanwhile within one tick, or when a tool restores times on a file
  system that does not keep `ctime`. A file that is deleted and written again
  during one scan may be listed at its baseline, the second disjunct of `ListedIsReal`.

### Runs and sessions

- A helper killed between the start of its command and the recording of the PID
  leaves a process that no record shows. After thirty seconds the project counts
  as free while that process works. `Works` counts such a process only as long as
  its helper lives.
- A session whose record is closed by a list between `save` and `new-session`
  (`agent/jobs.rs:405`), or because a `tmux` command failed (`:201`, `:506`),
  lives and is shown nowhere: `ps` does not list it, `stop`
  does not find it, `unlink` does not wait for it. Nothing opens its record again.
- `docs/USAGE.md:226` speaks of the last 100 finished jobs; `list` keeps the 100
  that *started* last (`agent/jobs.rs:114`), so a long job may be forgotten as it ends.

### Pairing, link and unlink

- `docs/ARCHITECTURE.md:154` says that unlink deletes the Client's environment files.
  An env add that stops between contents and list leaves contents that no list
  names, and unlink goes by the list. `UnlinkedIsClean` excepts it by `torn`.
- The removal script (`cli/commands/unlink.rs:99`) rewrites `authorized_keys` from a
  copy, as `authorize` does; either may undo the other. It matches its tag
  with `grep -F`, anywhere in a line, so a short tag such as an old-style host name also
  removes the lines of every Client whose tag begins with it.
- A request to unlink goes on after the Client has given up on it. If the
  Client has linked again by then, the late answer removes its iroh key
  (`crossed` in `Answer`).
- Two names in `config.toml` for one host share its line in `known_hosts` and its
  entry among the Agent's Clients; unlinking one takes it from the other.
- `config.toml` is written with `fs::write` (`core/config.rs:226`): a command that is
  killed there leaves it empty, and of two commands that overlap the later write wins.

### Watch

- After `slingshot unlink` the helper reports that the box went offline.
- A warning that was given is given again after the default box was switched
  and back, or the helper was started again: what was said is kept in the `Watch`.
- When the program is missing at the moment the helper ended, the app does not try
  again by itself (`ProgramMissing`).

## Not modelled, and why

- Loss of data the operating system had not written out in a power failure.
  `Crash` keeps everything written before it.
- `prune_backups` removes backup sets of transfers that ended; nothing in the
  model reads those.
- What a pattern of `.gitignore` or `sync.exclude` matches: a set of names in `Scanning`.
  Link checks are a refusal of the whole scan.
- `prepare_artifacts`, which only creates folders and links that are missing.
- Framing, peer checks, SSH, rsync and its options: a copy arrives as planned or fails.
  The bytes of tunnels and the relays of iroh; a Client that is removed keeps
  the tunnel it has open, whose bytes end at `sshd`.
- SPAKE2, hashing and signatures, which are taken to do what they promise.
- Output, terminals, exit codes and signals of runs: a process that ends.
- Argument parsing, the search for a project's root, wording and layout, and
  the installation of the menu bar app.
- The parts listed as `not_modelled` in `PROJECT.json`, each with its reason: they
  print or probe, and keep no state.

## Plan

Built so far, in this order: `ThreeWay`, `AtomicSync`, `SyncApply` and its proofs,
`ClientSync`, `RunWork`; then `Sessions`, `EnvFiles`, `Linking`, `Pairing`, `Watch`,
`Scanning`; then the proofs about them. The order is that of what users would
lose: files first, then the exclusion of work, then access, then what they are told.

What is left, the most valuable first:

1. The project lock as an abstract mutex that `RunWork` and `Sessions` implement, and one
   logical project that `ClientSync` implements, which both copies reach.
2. `prepare_artifacts`, and an unlink while a tunnel is open.
