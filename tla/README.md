# Verification of D3V PatchCycle

PatchCycle updates a Linux host on a schedule: it checks the package manager,
applies updates, reboots if it has to, verifies, and reports, and it picks the
work up again after a crash or a reboot.  What is hard about it is not any one
of these steps but that the process, the machine, the package manager, the
operator and the clock may interfere between any two of them.  This directory
holds TLA+ models of the program as its source has it, the TLC runs that check
them, and theorems proved by TLAPS.

    tlc -config CycleCore.cfg MCCycleEngine.tla      # any pair from the tables below
    tlapm CycleEngine_proofs.tla                       # any module M_proofs

`PROJECT.json` names, for every definition that models code, the lines it
models, and for every property a mutation of the model that breaks it (the
definitions commented `WRONG:`).

## 1. The system

Paths are under `src/src/patchcycle/`.

| component | state it keeps | operations | talks to |
|---|---|---|---|
| engine (`engine.py`, `models.py`) | the cycle: `state.json` while it is active | `run`, `resume`, `dry_run`; one handler per state; `_fail` | everything below |
| state table (`states.py`) | none | `is_legal_transition`, `resume_target` | engine |
| reboot controller (`reboot.py`) | boot ids, kernel, attempts, in the cycle | `evaluate`, `prepare_and_reboot`, `verify_rebooted` | engine, window, installer (is the resume service enabled?), systemctl |
| maintenance window (`window.py`) | none | `allows_disruptive` | engine, reboot controller |
| state store (`state_store.py`, `secure_io.py`) | `state.json`, `history/<run>.json`, `.report.txt`, quarantined copies | `save`, `load`, `archive`, `save_report` | file system |
| execution lock (`lock.py`) | a flock | acquire, release | run, resume, install, uninstall |
| installer (`installer.py`) | unit files, enabled units, `config.toml`, state directories | `install`, `uninstall [--purge]` | systemctl, lock, store |
| providers (`providers/apt.py`, `dnf.py`) | none of their own; the package database | `preflight`, `repair_interrupted`, `refresh`, `list_updates`, `apply_updates`, `reboot_required`, `verify` | apt, dpkg, dnf, rpm |
| version lock (`providers/versionlock.py`) | none | `locked_names` | DNF provider |
| subprocess runner (`subproc.py`) | a process group | `run_argv`, termination | everything that runs a command |
| hooks, health, notify, report | notification status, health results, in the cycle | run hooks, checks, deliveries | engine |
| config, cli, osdetect, logging | `config.toml` (read once per process) | | |

One cycle runs

    IDLE -> PRECHECK -> REFRESHING -> DISCOVERING_UPDATES -> UPGRADING
         -> CHECKING_REBOOT -> [REBOOT_PENDING -> REBOOTING -> POST_REBOOT]
         -> VERIFYING -> HEALTH_CHECKING -> NOTIFYING -> COMPLETED

with FAILED reachable from almost everywhere, and with an excursion
PRECHECK -> REBOOT_PENDING -> ... -> POST_REBOOT -> PRECHECK when a reboot was
already pending.  `state.json` is rewritten at every transition and at the
points where a fact must survive (updates applied, a reboot attempt, a boot
verified, a delivery).  The timer starts `run`; at boot a service starts
`resume`; both hold the lock.  `status` reads the state without it.

What is hard, and where it bites, is listed under `hazards` in `PROJECT.json`.
In short:

- **crashes**: a process may die between an effect (a transaction, a reboot
  command, a delivery) and its record; FAILED is saved before its error; the
  archive is written before `state.json` goes;
- **reboots**: ordered ones are asynchronous, unordered ones happen in any
  state, and all the program has to tell them apart is a boot id it wrote down
  earlier;
- **two retry loops for the reboot**, one within a process and one across them;
- **a configuration read anew** by every process of one cycle;
- **power loss** between write, fsync, rename and directory fsync;
- **a reader without the lock** that may quarantine;
- **installs and removals** that fail half way, repeat, and run beside a cycle
  that relies on what they remove;
- **other users of the package manager** between any two commands;
- **commands** that fork, detach, ignore signals and keep their output open,
  under a caller that must return;
- **several starters** of a cycle - a timer, the service of a boot, an operator -
  of which only one may be at it, and of which one that gives up is not started
  again;
- **time** that passes between checking a window and using it.

What makes each component correct:

- engine: reboots are recorded before they are ordered, counted, and believed
  only on a new boot; updates are applied once, after a precheck on this boot;
  an unordered reboot ends the cycle; a reboot that the provider's last answer
  required is not skipped; nothing recorded is lost; what COMPLETED says is true
  and is what was reported; every cycle ends in the archive;
- store: a save is atomic and durable, an archive final, what a load refused is
  neither deleted nor overwritten without a durable copy, and nothing starts
  while one is in quarantine;
- installer: a pending reboot always finds its way back, nothing half
  installed dangles, success means complete, operator data stays;
- providers: nothing is upgraded over broken packages, a security run of APT
  installs security updates, a verified cycle left nothing outstanding and knows
  of its new kernel if it had an answer, a busy lock is waited for and not for
  ever;
- hooks and checks: a gate opens only on commands that succeeded, each call is
  over in bounded time, and the hooks that are missed are those after an upgrade
  or a failure where a process died between its save and their end;
- lock and services: one process at a cycle at a time, and a pending cycle is
  always taken up again;
- window and reboot gates: a disruptive action fits the window in which it
  starts, and a reboot is wanted when it is ordered.

## 2. The modules

| module | models | state and actions |
|---|---|---|
| `CycleStates` | `states.py` | the transition table and `resume_target` |
| `CycleEngine` | `engine.py`, `reboot.py` (without clocks) | `disk` is `state.json`, `history` and `reports` the archive, `pc` and `cycle` the process; one action per step of a handler between two effects, plus `Run`, `Resume`, `Crash`, `Reboot`, `GrowStale`, `EditConfig` |
| `MaintenanceCycle` | what a cycle promises | the abstract specification: a cycle in hand, its stage, what is known of it, and the ledger of those put away; no processes, files or handlers |
| `CycleRefinement` | | the mapping under which `CycleEngine` implements it |
| `CycleHooks` | the hook points of `engine.py` | `CycleEngine` with two history variables: which hooks ran for the cycle on disk, and which it misses because a process died; those of a failure run in a step of their own, after the error is saved |
| `MCCycleEngine`, `MCCycleHooks` | | configurations for TLC |
| `CycleFindings` | | sentences of the documents and comments that the engine does not keep |
| `CycleEngine_proofs`, `CycleRefinement_proofs` | | theorems about `CycleEngine`; about its records, the refinement and `CycleHooks` |
| `StateStore`, `MCStateStore` | `state_store.py` | `setup` is what goes on beside the store (runs, saves, `status` commands, tampering); `entry` is what each directory entry holds, `may` what it may hold after a power loss; one action per system call of a load, write, archive or quarantine; `PowerLoss`, deaths, failed writes, tampering, an operator |
| `Installer` | `installer.py`, `lock.py` | unit files, enabled units, the timer, directories and the lock; one action per write or systemctl call of install and uninstall, beside a maintenance process reduced to what they can take from it |
| `Provider`, `MCProvider` | `providers/*.py` with the stages of `engine.py` that call them | the kind of host (`setup`, chosen once), the package database, the archive and the package lists; one action per command; others who hold, update, publish and lock in between |
| `Subprocess` | `subproc.py: run_argv` | the processes of one command with their group, pipes and signal handling; the waits of the call, SIGTERM, SIGKILL, and the closing of the pipes |
| `Gates`, `MCGates` | `hooks.py`, `health.py` | the commands of a point, run one after the other under `Subprocess`, their results and the decision |
| `Invocations` | `cli.py`, `lock.py`, the units `installer.py` writes and when it may | a process per starter - timer, boot, shells - that opens the lock file, locks it, works and releases; what systemd has still to start; boots that clear `/run` |
| `MaintenanceWindow` | `window.py` | pure operators, and the definition they are measured by |
| `Disruption`, `MCDisruption` | the gates of an upgrade and of a reboot, `reboot.py: evaluate` | a clock, users, one action per check or wait |
| `Disruption_proofs` | | theorems about `MaintenanceWindow` and `Disruption` |
| `StateStore_proofs`, `Installer_proofs`, `Provider_proofs`, `Gates_proofs`, `Invocations_proofs` | | theorems about the module of that name; `Gates_proofs` also about `Subprocess` |

How they fit.  `CycleEngine` takes the store's promise as given - a save is
atomic and durable when it returns - which is what `StateStore` checks
(`LosesAtMostInFlight`, `ArchiveIsFinal`).  It lets every command of a provider
succeed, fail or raise, and every gate open or close; `Provider`, `Gates` and
`Disruption` say when they may.  It assumes that an ordered reboot is followed
by a `resume` or a `run` on the next boot; `Installer` checks that the service
for it is there (`PendingKeepsRecovery`), `Invocations` that one of them gets
to the cycle in the end (`PendingIsTakenUp`).  What a provider answers when
asked whether a reboot is required is free in `CycleEngine`: yes and no are
both possible whatever was installed, because somebody else's sentinel makes
it yes and a query with an error exit makes it no.  Which answer a provider
owes is `Provider`'s (`OwnKernelIsSeen`, `ProbeErrorsAreConservative`); what
the engine owes to an answer is `NoRequiredRebootIsSkipped`.  That one process
writes the state at a time is assumed in the engine, the store and the installer, and is
what `Invocations` checks (`OneAtWork`) from flock alone.

### The refinement

`CycleRefinement` maps the durable state to `MaintenanceCycle`; the process, its
memory and its place are hidden.  `planning` is every state of `state.json` that
a recovery takes back to PRECHECK, REBOOT_PENDING included; `proving` is what
follows a reboot or the decision against one.  `home` is the last boot the
cycle recorded, `ledger` what `history/` holds.  The refinement says of every
save, by whatever handler, recovery or failure, that it is one step of the
abstract cycle or none: a cycle works only on the boot it knows of, records its
updates once, crosses a reboot only onto another boot, is planned at most
twice, completes only on a verification, and is in the ledger before the next
one begins.  `Settle` may happen again in `proving`, because `verify_rebooted`
is repeated by a process that follows one that died there.

### Ghosts

Variables that no code has, kept to state properties: in `CycleEngine` `told` (the
outcomes delivered), `issued` (the reboot commands on this boot) and `unbooted`
(the cycle installed what this boot does not run: any transaction may set it,
a boot clears it); in `StateStore` `saved`, `detected` (a load refused what is in
`state.json`) and `dismissed` (an operator put evidence away); in `Provider`
`ours` (what the cycle installed), `leftover`, `pending` and `unanswered` (the
last kernel query ended with an error); in `Disruption` `stage` and `alone`; in
`Gates` and `Subprocess` what a command did in truth and how long it took.

### Abstractions

- Boot ids are numbers that grow; a kernel that does not come up is an outcome
  of `VerifyRebooted`.
- A run of the engine takes its inputs (are there updates? did a hook abort?
  what does verification find?) from a choice, constrained only where a later
  step could contradict an earlier one: the package database of the engine
  model is current, pending or broken.
- Staleness is a flag that may come up whenever no process runs.
- `CycleEngine` leaves out the in-process continuation after a reboot command
  (`engine.py:413-415`): with a real `systemctl reboot` the boot id cannot
  change under the process.
- `StateStore` starts from an installed host, with `history/` durable; an
  operator clears a quarantine only while no command runs.  A name may hold,
  after a power loss, any content it had since the last sync of its directory;
  content that was not synced before its rename may be torn.
- `Installer` reduces maintenance to what installers can take from it: a cycle
  that is active, has ordered a reboot, or is over, and its files.
- `Provider`: an archive offers one version of a package at a time, versions
  are numbers, parsing is what it yields; `dpkg`, `rpm` and the others'
  transactions are external.  The machine does not reboot within the module, and
  the question at the end of a preflight whether a reboot was pending before
  (`apt.py:285`, `dnf.py:178`) is left out: its answer is the engine's alone.
- `Gates`: a probe (service, HTTP, TCP) and the check for failed units are a
  choice of good or bad; a hook whose path is refused is one that cannot be
  executed.
- `Invocations`: a cycle is pending or not; what work on it does is in
  `CycleEngine`.  An install or removal is one step; `Installer` has its writes.  The path of the lock is one and the same.
- `Disruption`: time passes in hooks, waits and pauses, not between them; all
  durations are in one unit.  A process may begin at the upgrade, at the
  decision on a reboot, or in REBOOTING with attempts that an earlier process
  made.  The repair of an interrupted transaction in PRECHECK asks for the window
  too (`engine.py:249`), directly before it; that gate is not in the module.

## 3. The runs

All pass within five minutes with two workers.  TLC's figures are distinct
states.

| run (`.cfg`) | states | what it shows |
|---|---|---|
| `CycleCore` | 3.7 M | One cycle with two notifiers, a death and two reboots at any point, and two configurations that an operator edits it to between two processes, up to the beginning of the next cycle over whatever the first one left. `RebootFactsDurable`, `RebootBudget`, `PostRebootIsGenuine`, `ApplyIsFirstAndPrechecked`, `NoWorkAfterUnexpectedReboot`, `UnexpectedRebootIsFatal`: the program never orders a reboot it could not recognise, never orders more than its budget on a boot, never believes one that did not happen, never upgrades on a boot it did not check, and does nothing but fail after a reboot nobody ordered, be it before its own or after its own was confirmed. `CompletedIsTrue`, `DeliveredOutcomeIsFinal`, `NoRequiredRebootIsSkipped`: what it reports is true, stays so across crashes, and a cycle whose last answer from the provider required a reboot is a success only past a confirmed one, after which none of its updates waits for another. `NoCycleIsLost`: a cycle is in `state.json` or in the archive, through the end of one and the beginning of the other. `KeepsThePromise`: the refinement |
| `CycleLiveness` | 0.96 M | Under fairness and a policy that always reboots, every cycle that begins ends in the archive (`EveryCycleEnds`); and by then it went through the hook points its work calls for, the only exceptions being the hooks after an upgrade or a failure where a process died between its save and their end (`HooksFollowThrough`) |
| `Store` | 1.0 M | Three setups, chosen at the start: two cycles with a file corrupted once, one cycle with a file corrupted twice, and one with a corruption and `status` commands at any step; deaths and power losses at any system call. A save loses at most what is in flight, an archive is final, no cycle of which a save returned is silently gone (`LosesAtMostInFlight`, `ArchiveIsFinal`, `NothingIsForgotten`). `EvidenceIsDurable`, where no `status` interferes: what a load refused is neither deleted nor overwritten before a durable copy of it is in quarantine; what was corrupted under a running cycle, and no load has seen, gives way only to that cycle's next save or to its archive |
| `Installer` | 2.3 M | Install, uninstall, purge and maintenance side by side, each failing or killed anywhere, three schedules. A pending reboot keeps its recovery (`PendingKeepsRecovery`); no unit is enabled without its file or there without a configuration, wherever a removal stops (`NothingDangles`); what reports success is complete; only a purge at work takes away the configuration, a directory, a record or a report, and a cycle leaves `state.json` only for its record (`OperatorDataIsKept`) |
| `Provider` | 3.6 M | APT (with and without the repair of interrupted transactions, and for security updates only) and DNF, with another user of the package manager: no upgrade over broken packages, the lock waited for as configured, nothing but security updates in APT's security run, a verified end that is true, and a new kernel that is known of if the last query for it was answered |
| `Disruption` | 0.38 M | Every time of day against windows of every shape, with hooks, lock waits, users and failed attempts in between, also for a process that takes REBOOTING over with attempts already made |
| `Gates` | 39 k | Hooks and checks whose processes fork, leave the group, ignore SIGTERM, let go of their output and end in any order. `ReturnsInTime`: a call is over after its timeout, the grace and the drain, though the command does nothing to end. `SurvivorsEscaped`: what lives on left the group, or ignored SIGTERM and let go of the output. `GateHolds`: the cycle goes past a gate only if each command it rests on succeeded in truth, in time |
| `Invocations` | 0.26 M | The services and an operator's commands around the lock: `OneAtWork`, though a file is opened before it is locked, released without being removed, and gone after a boot; `PendingIsTakenUp`, though a resume that finds the lock taken is not repeated and an operator may install another schedule or remove the units when no cycle is pending |

### Bounds, and why they are enough

- `MaxAttempts` is 2, where the default configuration has 3: one attempt that
  leaves another one, and the last.  The theorems of section 5 hold for every
  value.
- The configurations of `CycleCore` are the default one (reboot when required, and
  first when a reboot was pending) and one that differs from it in all three
  entries (never reboot, only report a pending one, repair interrupted
  transactions), exchanged between two processes.  `CycleLiveness` has the policy
  under which every cycle reboots.  The theorems hold for any set of
  configurations.
- No notifier is told from another one, so `CycleCore` takes them as
  symmetric; all its properties are safety properties.
- `MaxBoots = 3` has an ordered reboot followed or preceded by another one, and
  the initial reboot of `reboot_first` followed by that of the updates.
  A `Reboot` kills the process at any step as well, so that with
  `MaxCrashes = 1` there are crashes in the recovery from a crash.
- `MaxRuns = 2` is the smallest number that lets one cycle leave something for
  the next.  Nothing but the archive and the machine passes from one to the next,
  and no guard reads the archive, so `CycleCore` follows the second cycle no
  further than its beginning (`SecondCycleBegins`); the theorems hold for any
  number of cycles, from one end to the other.
- The store's `Stamps` are two because the code names a quarantine by the
  second, so that a second one within a second finds the name taken.
  `MaxSaves` is two or three: a cycle is replaced, and finished.
- `Provider` has versions up to 2, so that what was listed can be overtaken
  while it is listed, classified or applied; three packages: the kernel, one
  that may be held, and one that needs a new dependency.  Two acts of others
  overtake a listing by a publication and a refresh.  The lock timeout is no
  multiple of the poll interval, so that the last poll overruns it.
- `Gates` gives a command two descendants at a time, one to leave the group
  while the other stays; a `Grace` longer than the `Drain`, as in the code, with
  their order and not their length of consequence.
- `Invocations` has a process per starter: a service runs once at a time, and
  one shell stands for all, as a second one would multiply the states and only
  do what the first does; `MutualExclusion` is proved for any number of them.
  Three boots, two deaths and three commands let a release, a death and a
  boot each come between another's open and its flock.
- A day of 12 units has the windows at its edges and in its middle; the theorem
  `WindowIsExact` holds for a day of any length.

### Deadlock

It is checked in all runs of the engine, the store, the installer and the
invocations, where something can always start again.  `Provider`, `Disruption`
and `Gates` model one cycle or one gate and stop when it is over, so their
configurations turn the check off.

### Fairness

`CycleEngine` assumes `WF(EngineStep)` - a live process takes its next step,
because every command it runs has a timeout and every wait a deadline - and
`WF(Run)`, because the timer elapses again and again.  Nothing is assumed of
reboots, operators, the resume service or of errors (`HandlerRaises` is outside
of `EngineStep`).  `Invocations` assumes that each process takes its next step and ends, that the
timer elapses, and that systemd starts what it has to start; nothing of the
operator, deaths or boots.  `PendingIsTakenUp` excepts a cycle that waits
while maintenance is switched off, or that was begun with no timer installed:
nothing but an operator would take it up.  `Gates` assumes that time passes, that a wait which is over returns, and
that the next command is started; the processes of a command may do nothing for
ever.  The other modules have safety properties only, which need no fairness;
that the waits end is stated as a bound (`LockWaitIsHonoured`,
`RebootingIsBounded`).

## 4. Where documents and code differ

Each is a run that TLC ends with a counterexample to a sentence of the
repository; `findings` in `PROJECT.json` quotes the sentences.

| run | what happens |
|---|---|
| `FindSameBootResume` | `resume` on the boot of the crash diagnoses an unexpected reboot in the early states, where the specification recovers |
| `FindStartOnQuarantine` | a `status` that quarantines between a run's check and its read lets the run begin |
| `FindBusy` | a package manager at work reads as an interrupted transaction |
| `FindProbeError` | a kernel query that ends with an error reads as no new kernel, where the contract promises that a probe error counts as a required reboot; a verified cycle ends without the reboot that its kernel needs |

Reading the code against the documents for the models showed further
differences of the same kind, for which no run is kept.  Paths in parentheses
are those of the code.

- The boot of a cycle is recorded when PRECHECK is left, so that a reboot during
  PRECHECK goes unnoticed and the cycle goes on, on the new boot
  (`engine.py:241`); the refinement has this as a `Precheck` that starts from no
  known boot.
- A command that timed out is killed only if somebody still holds its output
  after the grace: a child of its group that ignores SIGTERM and closed its
  output lives on, where `subproc.py:5` has terminate, then kill.
- The hooks after an upgrade are not run for a cycle whose process died in them
  or before: the next process goes on from PRECHECK (`engine.py:364`).
- The hooks before a reboot run before its facts are recorded, where
  `state-machine.md` has them after (`engine.py:396-403`).
- The resume service gives up at a lock that is held, and with a manual schedule
  nothing comes after it (`cli.py:312`); and the pid a loser names may be that
  of an earlier holder (`lock.py:95`).
- A further reboot after a verified one fails the cycle, where
  `state-machine.md` re-enters the state (`engine.py:118`, `553`).
- A death after FAILED is saved and before its error is leads to an archive
  with neither error nor outcome (`engine.py:531-540`).
- A cycle restarted at PRECHECK after its upgrade takes the reboot of its own
  updates for one that was pending before (`engine.py:256`).
- Where policy forbids the initial reboot, the cycle fails verification for the
  updates it was told not to apply (`engine.py:392-394`, `445`).
- A reboot blocked after updates were applied ends as BLOCKED, elsewhere "no
  update action was taken" (`engine.py:389`, `536`).
- A report nobody got does not make the outcome a warning, as ADR-0007 has it
  and `failure-recovery.md` has not (`engine.py:711-720`).
- A file corrupted after the load is overwritten by the next save, with no copy
  kept, where FR-S8 has it never overwritten in place; `EvidenceIsDurable` says
  that this is the only way.  A `status` may unlink a newer file than the one it
  quarantined (`state_store.py:200`, `284`).
- A purge that stops after removing `config.toml` cannot be repeated until the
  operator writes one (`installer.py:312`, `cli.py:341`); by then no unit is left
  (`NothingDangles`), but a part of the state directory may be.
- DNF answers from the kernels alone where the plugin is missing, and then a query
  with an error exit counts as no new kernel too (`dnf.py:308-314`, `344`); and
  the packages reported as upgraded are those asked for (`apt.py:400`).

## 5. What is proved

Every safety property of the passing runs is a theorem, for every value of the
constants: any number of cycles, boots, deaths, notifiers, packages, versions,
shells, descendants and saves, and every duration.  The bounds of the models are
parameters, so that without limit they are as large as one likes.  What is
assumed of the constants is the `ASSUME` of each module, which says of which
type they are and which names differ.

The invariants TLC checks are not inductive: each holds because of something
about the process's place, its memory and the disk together.  Each proofs module
begins with an invariant that is, in named parts, which TLC was given first on
the constants of the runs; then has lemmas on operators, one lemma per action or
family of actions, and the theorems.

### The engine: `CycleEngine_proofs`

`IInv` says

- `EngineTypes` and `OtherTypes`: types of the parts,
- `BootFacts`: recorded boot ids are of boots that happened, in their order,
- `BudgetFacts`: attempts on disk cover the commands issued on this boot,
- `Position`: which states of the disk each place of the process goes with,
- `Memory`: where the process's copy agrees with the disk, and in what,
- `OnRecordedBoot`: from PRECHECK on a process at work is on the boot it
  recorded.

`OnConfirmedBoot` adds, from `IInv`, that a process which proves what its cycle did
is on the boot that the cycle's own reboot led to.  The two together are why a
reboot that nobody ordered leaves no process at the cycle but one that fails it.

`Core` is all of it but `OtherTypes`, because the variables of the delivery
loop, the archive and the environment matter to none of these theorems and
would double each case.

| theorem | of |
|---|---|
| `Invariant`, `TypeCorrect` | `IInv`, `TypeOK` |
| `RebootIsRecordedFirst` | `RebootFactsDurable` |
| `RebootsAreBounded` | `RebootBudget` |
| `PostRebootGenuine` | `PostRebootIsGenuine` |
| `ApplyIsSafe` | `ApplyIsFirstAndPrechecked` |
| `NoWorkIsDone` | `NoWorkAfterUnexpectedReboot` |
| `OverrunCycleFails` | `UnexpectedRebootIsFatal` |

### Its records, its promise and its hooks: `CycleRefinement_proofs`

On top of `IInv`, `Facts` says what the engine records of a cycle:

- `Ledger`: run ids are given out in order, the last one is on disk until it is
  archived, and where a terminal cycle still has to be archived;
- `Records`: what is on disk and in the archive of a completed cycle is true;
- `Telling`, `Loop`: nobody is told anything before NOTIFYING, and then only the
  outcome that the facts of the cycle give; how far the delivery loop has come;
- `OwnReboot`: what the cycle installed and this boot does not run was installed on
  this boot, and past its last chance to reboot a cycle that records a required
  reboot has crossed one or has an outcome that says so.

The step that matters for `DeliveredOutcomeIsFinal` is that saving the outcome
twice gives the same outcome (`SaveOutcomeTwice`): the second save reads the
first one's result.  `PromiseIsKept` is the refinement: an initial state maps to
one, and each action, under `IInv` and `Facts`, to a step of `MaintenanceCycle`
or to none; the two kinds of lemma are called `...Maps` and `...Unseen`.

`Hooks` is about the hook points behind a cycle: whoever is in the upgrade has
its first hooks behind it; once the upgrade is durable, those after it are past,
cut, or next; a boot that is recorded as reached has its hooks behind it unless
the cycle is in POST_REBOOT.  `HookStep` is what any step on the same cycle may
do to the facts these rest on; every action is shown to be one, or to leave a
blank cycle.

| theorem | of |
|---|---|
| `RecordsAreTrue` | `IInv /\ Facts` |
| `NothingIsLost` | `NoCycleIsLost` |
| `CompletionIsTrue` | `CompletedIsTrue` |
| `TheTruthIsTold` | `DeliveredOutcomeIsFinal` |
| `SuccessSkipsNoReboot` | `NoRequiredRebootIsSkipped` |
| `PromiseIsKept` | `KeepsThePromise` |
| `HooksAreFollowedThrough` | `HooksFollowThrough` |

### The store: `StateStore_proofs`

The argument is about `may`, what a power loss may leave, and not about what is
there: everything `state.json` may hold is whole and no older than the last
save that returned (`Files`), and a file is unlinked only when its copy may not
be absent any more (`InHand`, `Quarantining`).  `Kept` says where a cycle of
which a save returned is: in the archive, in quarantine, or in `state.json` and
nowhere contradicted.  `Alone` holds only in setups without `status` commands,
and is what `EvidenceIsDurable` needs: what a load has refused only its own
quarantine touches, whose copy is the content it read, and no process saves a
cycle while such a copy is there.

| theorem | of |
|---|---|
| `StoreIsSound`, `StoreTypes` | `IInv`, `TypeOK` |
| `InFlightAtMost` | `LosesAtMostInFlight` |
| `ArchiveHoldsTheFinished` | `ArchiveIsFinal` |
| `NothingSavedIsForgotten` | `NothingIsForgotten` |
| `EvidenceStays` | `EvidenceIsDurable` |

### The installer: `Installer_proofs`

`Exclusive` is the lock; `Pending` that no installer is past its check while a
cycle may need its resume service.  `Installing` and `Uninstalling` say, for the
places of either in order, what is done by then.  They are preserved by the
other processes because those are outside the lock, and by an edited
configuration because an install goes by the schedule it has read (`seen`).
`OperatorDataStays` is about `Purging`, an uninstaller that holds the lock and was
told to purge, and not about a flag that outlives it.

| theorem | of |
|---|---|
| `InstallerIsSound`, `InstallerTypes` | `IInv`, `TypeOK` |
| `RecoveryIsKept` | `PendingKeepsRecovery` |
| `NoUnitDangles` | `NothingDangles` |
| `InstallsAreComplete` | `InstallIsComplete` |
| `UninstallsAreComplete` | `UninstallIsComplete` |
| `OperatorDataStays` | `OperatorDataIsKept` |

### The providers: `Provider_proofs`

Others act between any two commands, so that hardly anything found by one
command still holds at the next.  What does: package lists only grow newer, so
that a listed version they still offer is the one that was classified
(`ListsAge`); a transaction that outlived its caller keeps the lock, and no
preflight passes it (`OursIsAwaited`); what breaks after an audit is new
(`Audited`), what becomes outstanding after a listing is new (`Found`); and a
kernel that was installed stays installed and is not the running one
(`KernelKnown`), so that a last query with an answer has seen it.  What a query
with an error exit leads to is the finding `FindProbeError`.

| theorem | of |
|---|---|
| `CommandsAreSound` | `IInv` |
| `LockIsWaitedFor` | `LockWaitIsHonoured` |
| `OnlyFixesAreInstalled` | `OnlyClassifiedIsInstalled` |
| `VerificationIsTrue` | `VerifiedIsTrue` |
| `KernelIsSeen` | `OwnKernelIsSeen` |
| `BrokenIsNotUpgraded` | `NeverUpgradesOverBroken` |

### Gates, lock and window

`Gates_proofs`: what a command has left of its group after each signal, and that
the time spent and the time left stay within what the waits so far were given
(`InTime`).  `Invocations_proofs`: whoever has the lock file open has the one
the path names, because a release leaves the file (`OpenedIsNamed`).
`Disruption_proofs`: what the gates have found out by each place (`Found`) -
that the reboot is asked for, that nobody is in the way, that the window admits
it at this time of day, which survives to the order because no time passes in
between - and, for the bound, the rounds that attempts and waits leave.

| theorem | of |
|---|---|
| `SurvivorsHaveEscaped` | `SurvivorsEscaped` |
| `CallsAreInTime` | the bound of `ReturnsInTime`: no call takes longer than its timeout, the grace and the drain |
| `GatesHold` | `GateHolds` |
| `LockIsSound` | its inductive invariant |
| `MutualExclusion` | `OneAtWork` |
| `WindowIsExact` | the comparisons of `window.py` admit an action exactly when all of it lies in one opening, for every day, window, time and estimate |
| `TypesHold` | `TypeOK` of `Disruption`: in particular the waits and attempts stay within their limits |
| `DisruptionsFit` | `DisruptionFitsWindow` |
| `RebootsAreWanted` | `RebootIsWanted` |
| `RebootingEndsInTime` | `RebootingIsBounded` |

### Only model-checked

Liveness: `EveryCycleEnds`, `PendingIsTakenUp` and `ReturnsInTime`.  The prover
has no rule for fairness and ENABLED.  So are the four runs of section 4, which
are counterexamples.

## 6. Not modelled, and why

- The provider registry, platform detection and logging: lookups and
  formatting without state.
- The validation of `config.toml`, the wording of reports, the parsing of
  command output: straight-line text processing, covered by unit tests; their
  results are choices of the models.
- SMTP, HTTP and health probes: I/O; their outcomes are choices.
- The matching of version locks (`versionlock.py`): a held package is held in
  `Provider`, whichever way.
- The release installer under `src/install/`: a one-shot script.
- An edited `lock_file`, under which two processes lock two files, and clock
  steps, which a stale flag that may come up at any time stands for.

## 7. Plan

Done: sections 2 to 5; every safety property that a run checks is proved.  Left,
in this order:

1. An abstract store - a register that survives what `StateStore` goes through -
   as what `CycleEngine` assumes, and `StateStore` shown to implement it.
2. The matching of version locks (`versionlock.py`) as a pure operator with a
   reference definition.
3. The steps of the liveness arguments that are safety properties: that each
   step of a live process brings a cycle nearer to its end, as a measure.
