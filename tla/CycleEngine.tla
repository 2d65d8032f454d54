---------------------------- MODULE CycleEngine ----------------------------
(***************************************************************************)
(* The engine that drives one maintenance cycle at a time through its      *)
(* states (patchcycle/engine.py and patchcycle/reboot.py), against a       *)
(* machine that may lose the process, lose power or reboot between any two *)
(* durable steps.                                                          *)
(*                                                                         *)
(* One action is one step of a handler between two effects the outside can *)
(* see: a save of state.json, a package transaction, a reboot command, a   *)
(* delivery, an archive write.  "pc" names the effect the process is about *)
(* to have; a state name stands for the entry of that state's handler.     *)
(* ExecutionLock admits one process, so one pc is enough.                  *)
(***************************************************************************)
EXTENDS Naturals, CycleStates

CONSTANTS
  Notifiers,     \* the enabled notifiers
  Configs,       \* the configurations an operator may put in config.toml
  MaxAttempts,   \* RebootController.max_attempts
  MaxRuns,       \* BOUND: cycles started
  MaxBoots,      \* BOUND: boots of the machine
  MaxCrashes     \* BOUND: process deaths that leave the machine up

Policies == {"never", "notify_only", "when_required", "always"}
ExistingPending == {"reboot_first", "continue_then_reboot", "report_only"}
Config == [policy: Policies, existing_pending: ExistingPending, repair_interrupted: BOOLEAN]

ASSUME ConfigsAssumption == Configs # {} /\ Configs \subseteq Config
ASSUME BoundsAssumption ==
  /\ MaxAttempts \in Nat \ {0}
  /\ MaxRuns \in Nat
  /\ MaxBoots \in Nat \ {0}
  /\ MaxCrashes \in Nat

VARIABLES
  disk,          \* state.json: the durable cycle, Idle when the file is absent
  history,       \* history/<run_id>.json: the archived cycle of each run
  reports,       \* runs with a history/<run_id>.report.txt
  pc,            \* what the process is about to do; "down" when there is none
  cycle,         \* the cycle variable of _drive and _fail
  exc,           \* the error kind _fail is handling
  todo,          \* the notifiers the delivery loop has not reached
  status,        \* the status dict of the delivery loop
  told,          \* GHOST: the outcomes delivered for the cycle on disk
  issued,        \* GHOST: reboot commands issued for it on this boot
  boot,          \* the kernel's boot id
  stale,         \* the cycle on disk was last moved more than seven days ago
  pkgs,          \* the package database: "current", "pending" or "broken"
  unbooted,      \* GHOST: the cycle on disk installed what this boot does not run yet
  config,        \* config.toml
  started,       \* cycles started
  crashes        \* process deaths so far

engineVars   == <<pc, cycle, exc>>
deliveryVars == <<todo, status, told>>
archiveVars  == <<history, reports>>
machineVars  == <<boot, pkgs, unbooted>>
envVars      == <<config, started, crashes>>
vars == <<disk, archiveVars, engineVars, deliveryVars, issued, stale, machineVars, envVars>>

-----------------------------------------------------------------------------
(* The persisted cycle.  Boot id 0 stands for null.                         *)

RunId == 1 .. MaxRuns
BootId == 1 .. MaxBoots

Outcomes ==
  {"none", "SUCCESS", "SUCCESS_WITH_WARNINGS", "NO_UPDATES",
   "MANUAL_REBOOT_REQUIRED", "FAILED", "BLOCKED"}

\* Error kinds, as far as an outcome or a property tells them apart: the
\* preflight kinds, pm-locked included, are one.
ErrorKinds ==
  {"none", "preflight-failed", "pm-failed", "reboot-failed", "verify-failed",
   "health-check-failed", "stale-cycle", "unexpected-reboot", "internal"}

DeliveryStatus == {"unset", "sent", "failed"}

Cycle ==
  [run_id: 0 .. MaxRuns,
   state: State,
   outcome: Outcomes,
   packages_pending: BOOLEAN,
   updates_applied: BOOLEAN,
   reboot_required: BOOLEAN,
   pre_existing_reboot: BOOLEAN,
   boot_id_before: 0 .. MaxBoots,
   boot_id_after: 0 .. MaxBoots,
   reboot_attempts: 0 .. MaxAttempts,
   reboot_before_updates: BOOLEAN,
   initial_reboot_completed: BOOLEAN,
   verify_passed: BOOLEAN,
   health_results: {"none", "ok", "warning", "critical"},
   warnings: BOOLEAN,
   notification_status: [Notifiers -> DeliveryStatus],
   error: ErrorKinds]

\* _new_cycle; with run id 0 it stands for the absence of a cycle.
FreshCycle(run) ==
  [run_id |-> run,
   state |-> "IDLE",
   outcome |-> "none",
   packages_pending |-> FALSE,
   updates_applied |-> FALSE,
   reboot_required |-> FALSE,
   pre_existing_reboot |-> FALSE,
   boot_id_before |-> 0,
   boot_id_after |-> 0,
   reboot_attempts |-> 0,
   reboot_before_updates |-> FALSE,
   initial_reboot_completed |-> FALSE,
   verify_passed |-> FALSE,
   health_results |-> "none",
   warnings |-> FALSE,
   notification_status |-> [n \in Notifiers |-> "unset"],
   error |-> "none"]

Idle == FreshCycle(0)

\* The boot id differs from the last one the cycle recorded.
BootChanged(c) ==
  LET baseline == IF c.boot_id_after # 0 THEN c.boot_id_after ELSE c.boot_id_before
  IN  baseline # 0 /\ baseline # boot

\* WRONG: a notifier that failed makes the outcome a warning.
FinalOutcome_CountsDelivery(c) ==
  IF c.error = "health-check-failed" THEN "FAILED"
  ELSE IF c.outcome = "MANUAL_REBOOT_REQUIRED" THEN "MANUAL_REBOOT_REQUIRED"
  ELSE IF c.warnings \/ c.health_results \in {"warning", "critical"}
          \/ \E n \in Notifiers : c.notification_status[n] = "failed"
       THEN "SUCCESS_WITH_WARNINGS"
  ELSE "SUCCESS"

FinalOutcome(c) ==
  IF c.error = "health-check-failed" THEN "FAILED"
  ELSE IF c.outcome = "MANUAL_REBOOT_REQUIRED" THEN "MANUAL_REBOOT_REQUIRED"
  ELSE IF c.warnings \/ c.health_results \in {"warning", "critical"}
       THEN "SUCCESS_WITH_WARNINGS"
  ELSE IF ~c.updates_applied /\ ~c.packages_pending THEN "NO_UPDATES"
  ELSE "SUCCESS"

\* The reboot controller's decision: policy first, then the users and the
\* window, which may block a reboot the policy allows ("blocked").
Evaluate(required) ==
  CASE config.policy \in {"never", "notify_only"} ->
         IF required THEN {"defer_manual"} ELSE {"skip"}
    [] config.policy = "when_required" /\ ~required -> {"skip"}
    [] OTHER -> {"reboot", "blocked"}

-----------------------------------------------------------------------------
(* What every handler is made of.                                           *)

Init ==
  /\ disk = Idle
  /\ history = [r \in RunId |-> Idle]
  /\ reports = {}
  /\ pc = "down"
  /\ cycle = Idle
  /\ exc = "none"
  /\ todo = {}
  /\ status = [n \in Notifiers |-> "unset"]
  /\ told = {}
  /\ issued = 0
  /\ boot = 1
  /\ stale = FALSE
  /\ pkgs \in {"current", "pending", "broken"}
  /\ unbooted = FALSE
  /\ config \in Configs
  /\ started = 0
  /\ crashes = 0

\* A handler raises: _drive catches the error and enters _fail with the cycle
\* the handler was given.
Raise(kind) ==
  /\ pc' = "fail"
  /\ exc' = kind
  /\ UNCHANGED <<disk, cycle>>

\* _transition: refuse an arc outside the table, else save and return to _drive.
MoveTo(c, dst) ==
  LET moved == [c EXCEPT !.state = dst]
  IN  IF IsLegalTransition(c.state, dst)
      THEN /\ disk' = moved
           /\ cycle' = moved
           /\ pc' = dst
           /\ UNCHANGED exc
      ELSE Raise("internal")

\* The process ends: its memory is gone.
Exit ==
  /\ pc' = "down"
  /\ cycle' = Idle
  /\ exc' = "none"
  /\ todo' = {}
  /\ status' = [n \in Notifiers |-> "unset"]

\* The frame of a handler that only moves its cycle.
HandlerFrame ==
  UNCHANGED <<archiveVars, deliveryVars, issued, stale, machineVars, envVars>>

-----------------------------------------------------------------------------
(* The handlers, in the order of the cycle.                                 *)

\* The boot id is read and a pending reboot asked for; both become durable only
\* with the transition.  Here and in CheckReboot a provider may answer either
\* way whatever is due: a sentinel of somebody else's and a probe that fails
\* count as required, a kernel query that exits with an error as not required.
PrecheckPassed ==
  \E pending \in BOOLEAN :
    LET c == [cycle EXCEPT !.boot_id_before = boot, !.pre_existing_reboot = pending]
    IN  IF /\ pending
           /\ ~c.initial_reboot_completed
           /\ config.existing_pending = "reboot_first"
        THEN MoveTo([c EXCEPT !.reboot_before_updates = TRUE,
                              !.reboot_required = TRUE], "REBOOT_PENDING")
        ELSE MoveTo(c, "REFRESHING")

\* Not root, disk low, package manager locked past its timeout or unhealthy:
\* the cycle is blocked.  An interrupted transaction passes only by repair.
Precheck ==
  /\ pc = "PRECHECK"
  /\ \/ Raise("preflight-failed")
     \/ pkgs # "broken" /\ PrecheckPassed
  /\ HandlerFrame

RepairInterrupted ==
  /\ pc = "PRECHECK"
  /\ pkgs = "broken"
  /\ config.repair_interrupted
  /\ pkgs' \in {"current", "pending", "broken"}
  /\ pc' = "repaired"
  /\ UNCHANGED <<disk, archiveVars, cycle, exc, deliveryVars, issued, stale, boot, unbooted, envVars>>

PrecheckRepaired ==
  /\ pc = "repaired"
  /\ \/ Raise("preflight-failed")
     \/ pkgs # "broken" /\ PrecheckPassed
  /\ HandlerFrame

\* A refresh may reveal updates and may warn about a repository.
Refresh ==
  /\ pc = "REFRESHING"
  /\ \/ /\ Raise("pm-failed")
        /\ UNCHANGED pkgs
     \/ \E warned \in BOOLEAN :
          /\ MoveTo([cycle EXCEPT !.warnings = @ \/ warned], "DISCOVERING_UPDATES")
          /\ pkgs' \in (IF pkgs = "current" THEN {"current", "pending"} ELSE {pkgs})
  /\ UNCHANGED <<archiveVars, deliveryVars, issued, stale, boot, unbooted, envVars>>

\* A listing that fails raises a preflight error, here and in every later probe.
Discover ==
  /\ pc = "DISCOVERING_UPDATES"
  /\ \/ Raise("preflight-failed")
     \/ LET applicable == pkgs = "pending"
        IN  MoveTo([cycle EXCEPT !.packages_pending = applicable],
                   IF applicable THEN "UPGRADING" ELSE "CHECKING_REBOOT")
  /\ HandlerFrame

\* WRONG: updates_applied is not looked at.
EnterUpgrade_Always ==
  /\ pc = "UPGRADING"
  /\ \/ Raise("preflight-failed")
     \/ /\ pkgs # "broken"
        /\ pc' = "apply"
        /\ UNCHANGED <<disk, cycle, exc>>
  /\ HandlerFrame

\* Completed work is not repeated; otherwise the window, the before_upgrade
\* hooks and a second preflight may each block the upgrade.
EnterUpgrade ==
  /\ pc = "UPGRADING"
  /\ \/ cycle.updates_applied /\ MoveTo(cycle, "CHECKING_REBOOT")
     \/ ~cycle.updates_applied /\ Raise("preflight-failed")
     \/ /\ ~cycle.updates_applied
        /\ pkgs # "broken"
        /\ pc' = "apply"
        /\ UNCHANGED <<disk, cycle, exc>>
  /\ HandlerFrame

\* From here to its end the package transaction is half configured.
BeginApply ==
  /\ pc = "apply"
  /\ pkgs' = "broken"
  /\ pc' = "applying"
  /\ UNCHANGED <<disk, archiveVars, cycle, exc, deliveryVars, issued, stale, boot, unbooted, envVars>>

\* What a transaction may leave: on success the packages are configured, and
\* an update may need a reboot; on failure anything may remain.  The kernel
\* query after a transaction that succeeded may raise as well.
EndApply ==
  /\ pc = "applying"
  /\ \/ /\ pkgs' \in {"current", "pending"}
        /\ pc' = "applied"
        /\ UNCHANGED <<disk, cycle, exc>>
     \/ /\ pkgs' \in {"current", "pending", "broken"}
        /\ \E kind \in {"pm-failed", "preflight-failed"} : Raise(kind)
  /\ unbooted' \in BOOLEAN
  /\ unbooted => unbooted'
  /\ UNCHANGED <<archiveVars, deliveryVars, issued, stale, boot, envVars>>

\* WRONG: the hooks after the upgrade are left out.
SaveApplied_NoHooks ==
  /\ pc = "applied"
  /\ MoveTo([cycle EXCEPT !.updates_applied = TRUE], "CHECKING_REBOOT")
  /\ HandlerFrame

\* From its first save on, a handler's own copy of the cycle is what is on
\* disk; the cycle of _drive stays the one the handler was given.
SaveApplied ==
  /\ pc = "applied"
  /\ disk' = [cycle EXCEPT !.updates_applied = TRUE]
  /\ pc' = "after_upgrade"
  /\ UNCHANGED <<cycle, exc>>
  /\ HandlerFrame

AfterUpgrade ==
  /\ pc = "after_upgrade"
  /\ MoveTo(disk, "CHECKING_REBOOT")
  /\ HandlerFrame

CheckReboot ==
  /\ pc = "CHECKING_REBOOT"
  /\ \/ Raise("preflight-failed")
     \/ \E required \in BOOLEAN :
          LET c == [cycle EXCEPT !.reboot_required = required]
          IN  IF cycle.pre_existing_reboot /\ config.existing_pending = "report_only"
              THEN MoveTo([c EXCEPT !.outcome = "MANUAL_REBOOT_REQUIRED"], "VERIFYING")
              ELSE MoveTo(c, IF required \/ config.policy = "always"
                             THEN "REBOOT_PENDING" ELSE "VERIFYING")
  /\ HandlerFrame

\* WRONG: a blocked reboot is skipped.
DecideReboot_SkipsBlocked ==
  /\ pc = "REBOOT_PENDING"
  /\ \E action \in Evaluate(cycle.reboot_required) :
       IF action = "reboot" THEN MoveTo(cycle, "REBOOTING") ELSE MoveTo(cycle, "VERIFYING")
  /\ HandlerFrame

DecideReboot ==
  /\ pc = "REBOOT_PENDING"
  /\ \E action \in Evaluate(cycle.reboot_required) :
       CASE action = "reboot" -> MoveTo(cycle, "REBOOTING")
         [] action = "blocked" -> Raise("preflight-failed")
         [] action = "defer_manual" ->
              MoveTo([cycle EXCEPT !.outcome = "MANUAL_REBOOT_REQUIRED"], "VERIFYING")
         [] action = "skip" -> MoveTo(cycle, "VERIFYING")
  /\ HandlerFrame

\* WRONG: every process starts with a fresh budget.
EnterReboot_ResetsAttempts ==
  /\ pc = "REBOOTING"
  /\ "reboot" \in Evaluate(cycle.reboot_required)
  /\ disk' = [cycle EXCEPT !.reboot_attempts = 0]
  /\ pc' = "reboot.prepare"
  /\ UNCHANGED <<cycle, exc>>
  /\ HandlerFrame

\* before_reboot hooks may abort; the decision is taken again after them.
EnterReboot ==
  /\ pc = "REBOOTING"
  /\ \/ Raise("preflight-failed")
     \/ /\ "reboot" \in Evaluate(cycle.reboot_required)
        /\ pc' = "reboot.prepare"
        /\ UNCHANGED <<disk, cycle, exc>>
  /\ HandlerFrame

\* WRONG: the command goes first.
PrepareReboot_NotSaved ==
  /\ pc = "reboot.prepare"
  /\ disk.reboot_attempts < MaxAttempts
  /\ pc' = "reboot.command"
  /\ UNCHANGED <<disk, cycle, exc>>
  /\ HandlerFrame

\* WRONG: the budget is not looked at.
PrepareReboot_NoBudget ==
  /\ pc = "reboot.prepare"
  /\ disk' = [disk EXCEPT !.boot_id_before = boot,
                          !.boot_id_after = 0,
                          !.reboot_attempts = @ + 1]
  /\ pc' = "reboot.command"
  /\ UNCHANGED <<cycle, exc>>
  /\ HandlerFrame

\* One round of the command loop.  A retry asks for the decision again; a
\* missing resume unit refuses; the facts are saved before the command.
PrepareReboot ==
  /\ pc = "reboot.prepare"
  /\ \/ Raise("reboot-failed")
     \/ /\ disk.reboot_attempts < MaxAttempts
        /\ disk.reboot_attempts > 0 => "reboot" \in Evaluate(disk.reboot_required)
        /\ disk' = [disk EXCEPT !.boot_id_before = boot,
                                !.boot_id_after = 0,
                                !.reboot_attempts = @ + 1]
        /\ pc' = "reboot.command"
        /\ UNCHANGED <<cycle, exc>>
  /\ HandlerFrame

\* WRONG: a command that succeeded is taken for a reboot that happened.
CommandReboot_AssumesReboot ==
  /\ pc = "reboot.command"
  /\ issued' = issued + 1
  /\ MoveTo(disk, "POST_REBOOT")
  /\ UNCHANGED <<archiveVars, deliveryVars, stale, machineVars, envVars>>

\* The command is queued and the process ends, the machine still up; or it
\* fails or times out, which does not say that nothing was queued.
CommandReboot ==
  /\ pc = "reboot.command"
  /\ issued' = issued + 1
  /\ \/ Exit
     \/ /\ pc' = "reboot.prepare"
        /\ UNCHANGED <<cycle, exc, todo, status>>
  /\ UNCHANGED <<disk, archiveVars, told, stale, machineVars, envVars>>

\* The kernel can be the wrong one only when this cycle installed a kernel.
VerifyRebooted ==
  /\ pc = "POST_REBOOT"
  /\ \/ /\ \/ cycle.boot_id_before = 0
           \/ cycle.boot_id_before = boot
           \/ cycle.updates_applied
        /\ Raise("reboot-failed")
     \/ /\ cycle.boot_id_before \notin {0, boot}
        /\ disk' = [cycle EXCEPT !.boot_id_after = boot]
        /\ pc' = "after_reboot"
        /\ UNCHANGED <<cycle, exc>>
  /\ HandlerFrame

AfterReboot ==
  /\ pc = "after_reboot"
  /\ IF disk.reboot_before_updates
     THEN MoveTo([disk EXCEPT !.reboot_before_updates = FALSE,
                              !.initial_reboot_completed = TRUE,
                              !.boot_id_before = boot,
                              !.boot_id_after = 0,
                              !.reboot_attempts = 0], "PRECHECK")
     ELSE MoveTo(disk, "VERIFYING")
  /\ HandlerFrame

\* WRONG: the result is saved and not acted on.
VerifyPackages_Ignored ==
  /\ pc = "VERIFYING"
  /\ \/ Raise("preflight-failed")
     \/ /\ disk' = [cycle EXCEPT !.verify_passed = (pkgs = "current")]
        /\ pc' = "verified"
        /\ UNCHANGED <<cycle, exc>>
  /\ HandlerFrame

\* Consistent and nothing applicable left, saved whether it passed or not.
VerifyPackages ==
  /\ pc = "VERIFYING"
  /\ \/ Raise("preflight-failed")
     \/ LET passed == pkgs = "current"
        IN  /\ disk' = [cycle EXCEPT !.verify_passed = passed]
            /\ pc' = IF passed THEN "verified" ELSE "fail"
            /\ exc' = IF passed THEN exc ELSE "verify-failed"
            /\ UNCHANGED cycle
  /\ HandlerFrame

PackagesVerified ==
  /\ pc = "verified"
  /\ MoveTo(disk, "HEALTH_CHECKING")
  /\ HandlerFrame

CheckHealth ==
  /\ pc = "HEALTH_CHECKING"
  /\ \E health \in {"ok", "warning", "critical"} :
       MoveTo([cycle EXCEPT !.health_results = health,
                            !.error = IF health = "critical"
                                      THEN "health-check-failed" ELSE @], "NOTIFYING")
  /\ HandlerFrame

SaveOutcome ==
  /\ pc = "NOTIFYING"
  /\ disk' = [cycle EXCEPT !.outcome = FinalOutcome(cycle)]
  /\ pc' = "notify.report"
  /\ UNCHANGED <<cycle, exc>>
  /\ HandlerFrame

SaveReport ==
  /\ pc = "notify.report"
  /\ reports' = reports \cup {disk.run_id}
  /\ status' = disk.notification_status
  /\ todo' = {n \in Notifiers : disk.notification_status[n] # "sent"}
  /\ pc' = "notify.deliver"
  /\ UNCHANGED <<disk, history, cycle, exc, told, issued, stale, machineVars, envVars>>

\* The attempts at one notifier, of which the last result counts.
DeliverTo(n) ==
  \E result \in {"sent", "failed"} :
    /\ status' = [status EXCEPT ![n] = result]
    /\ told' = IF result = "sent" THEN told \cup {disk.outcome} ELSE told

Deliver(n) ==
  /\ pc = "notify.deliver"
  /\ n \in todo
  /\ DeliverTo(n)
  /\ todo' = todo \ {n}
  /\ pc' = "notify.record"
  /\ UNCHANGED <<disk, archiveVars, cycle, exc, issued, stale, machineVars, envVars>>

RecordDelivery ==
  /\ pc = "notify.record"
  /\ disk' = [disk EXCEPT !.notification_status = status]
  /\ pc' = "notify.deliver"
  /\ UNCHANGED <<cycle, exc>>
  /\ HandlerFrame

Notified ==
  /\ pc = "notify.deliver"
  /\ todo = {}
  /\ MoveTo(disk, "COMPLETED")
  /\ HandlerFrame

Complete ==
  /\ pc = "COMPLETED"
  /\ disk' = [cycle EXCEPT !.outcome = FinalOutcome(cycle)]
  /\ cycle' = disk'
  /\ pc' = "archive"
  /\ UNCHANGED exc
  /\ HandlerFrame

-----------------------------------------------------------------------------
(* The failure path.                                                        *)

\* Any call of a handler may raise an error of its own, a failed save included.
HandlerSteps ==
  {"PRECHECK", "repaired", "REFRESHING", "DISCOVERING_UPDATES", "UPGRADING", "apply",
   "applied", "after_upgrade", "CHECKING_REBOOT", "REBOOT_PENDING", "REBOOTING",
   "reboot.prepare", "reboot.command", "POST_REBOOT", "after_reboot", "VERIFYING",
   "verified", "HEALTH_CHECKING", "NOTIFYING", "notify.report", "notify.deliver",
   "notify.record"}

HandlerRaises ==
  /\ pc \in HandlerSteps
  /\ Raise("internal")
  /\ HandlerFrame

\* WRONG: the stale input of the failed handler is what fails.
Fail_StaleInput ==
  /\ pc = "fail"
  /\ disk' = [cycle EXCEPT !.state = "FAILED"]
  /\ cycle' = disk'
  /\ pc' = "fail.record"
  /\ stale' = FALSE
  /\ UNCHANGED <<archiveVars, exc, deliveryVars, issued, machineVars, envVars>>

\* Work the failed handler made durable is kept: the saved cycle replaces its
\* stale input.  NOTIFYING has no arc to FAILED and is overwritten.
Fail ==
  /\ pc = "fail"
  /\ LET saved == IF disk.run_id = cycle.run_id THEN disk ELSE cycle
         failed == [saved EXCEPT !.state = "FAILED"]
     IN  disk' = failed /\ cycle' = failed
  /\ pc' = "fail.record"
  /\ stale' = FALSE
  /\ UNCHANGED <<archiveVars, exc, deliveryVars, issued, machineVars, envVars>>

\* The error and the outcome are saved before the on_failure hooks run.
RecordError ==
  /\ pc = "fail.record"
  /\ LET c == [cycle EXCEPT !.error = exc,
                            !.outcome = IF exc = "preflight-failed"
                                        THEN "BLOCKED" ELSE "FAILED"]
     IN  disk' = c /\ cycle' = c
  /\ pc' = "fail.hooks"
  /\ UNCHANGED exc
  /\ HandlerFrame

\* Whatever a hook does, raising included, the failure goes on.
FailureHooks ==
  /\ pc = "fail.hooks"
  /\ pc' = "fail.report"
  /\ UNCHANGED <<disk, cycle, exc>>
  /\ HandlerFrame

\* Every notifier is told of a failure, those already "sent" included.
ReportFailure ==
  /\ pc = "fail.report"
  /\ reports' = reports \cup {cycle.run_id}
  /\ status' = cycle.notification_status
  /\ todo' = Notifiers
  /\ pc' = "fail.deliver"
  /\ UNCHANGED <<disk, history, cycle, exc, told, issued, stale, machineVars, envVars>>

DeliverFailure(n) ==
  /\ pc = "fail.deliver"
  /\ n \in todo
  /\ DeliverTo(n)
  /\ todo' = todo \ {n}
  /\ UNCHANGED <<disk, archiveVars, pc, cycle, exc, issued, stale, machineVars, envVars>>

FailureNotified ==
  /\ pc = "fail.deliver"
  /\ todo = {}
  /\ disk' = [cycle EXCEPT !.notification_status = status]
  /\ cycle' = disk'
  /\ pc' = "archive"
  /\ UNCHANGED exc
  /\ HandlerFrame

-----------------------------------------------------------------------------
(* Archiving: history first, then the reset to IDLE.  "rearchive" is run()   *)
(* putting away a terminal cycle before it starts its own.                  *)

Archive ==
  /\ pc \in {"archive", "rearchive"}
  /\ history' = [history EXCEPT ![disk.run_id] = disk]
  /\ pc' = IF pc = "archive" THEN "reset" ELSE "rereset"
  /\ UNCHANGED <<disk, reports, cycle, exc, deliveryVars, issued, stale, machineVars, envVars>>

Reset ==
  /\ pc = "reset"
  /\ disk' = Idle
  /\ Exit
  /\ UNCHANGED <<archiveVars, told, issued, stale, machineVars, envVars>>

ResetForNewCycle ==
  /\ pc = "rereset"
  /\ disk' = Idle
  /\ pc' = "new"
  /\ UNCHANGED <<cycle, exc>>
  /\ HandlerFrame

\* BOUND: the process ends where MaxRuns cycles were started.
NewCycle ==
  /\ pc = "new"
  /\ \/ /\ started = MaxRuns
        /\ Exit
        /\ UNCHANGED <<disk, told, issued, unbooted, started>>
     \/ /\ started < MaxRuns
        /\ MoveTo(FreshCycle(started + 1), "PRECHECK")
        /\ started' = started + 1
        /\ told' = {}
        /\ issued' = 0
        /\ unbooted' = FALSE
        /\ UNCHANGED <<todo, status>>
  /\ UNCHANGED <<archiveVars, stale, boot, pkgs, config, crashes>>

-----------------------------------------------------------------------------
(* A process starts: the timer or an operator runs "run", the boot-resume   *)
(* service or an operator runs "resume".                                    *)

\* _fail on the loaded cycle, before any handler.
FailLoaded(kind) ==
  /\ pc' = "fail"
  /\ exc' = kind
  /\ cycle' = disk
  /\ UNCHANGED disk

\* _drive on the loaded cycle.  A refused first transition is outside the try
\* of _drive: the process ends and the cycle stays as it was.
DriveFrom(state) ==
  LET moved == [disk EXCEPT !.state = state]
  IN  IF state = disk.state \/ IsLegalTransition(disk.state, state)
      THEN /\ disk' = moved
           /\ cycle' = moved
           /\ pc' = state
           /\ UNCHANGED exc
      ELSE UNCHANGED <<disk, engineVars>>

\* On the same boot a reboot is tried again while the budget lasts, unless
\* ten minutes have passed since the first attempt.
RebootNeverHappened ==
  \/ disk.reboot_attempts < MaxAttempts /\ DriveFrom("REBOOTING")
  \/ disk.reboot_attempts > 0 /\ FailLoaded("reboot-failed")

\* The states run() continues in place when the boot is the same.
SameBootResumable ==
  {"CHECKING_REBOOT", "REBOOT_PENDING", "POST_REBOOT", "VERIFYING",
   "HEALTH_CHECKING", "NOTIFYING"}

\* WRONG: the boot ids are not compared.
RecoverSameBoot_AnyBoot ==
  IF stale THEN FailLoaded("stale-cycle")
  ELSE IF disk.state = "REBOOTING" THEN RebootNeverHappened
  ELSE IF disk.state \in SameBootResumable THEN DriveFrom(disk.state)
  ELSE DriveFrom("PRECHECK")

RecoverSameBoot ==
  IF stale THEN FailLoaded("stale-cycle")
  ELSE IF BootChanged(disk)
  THEN IF disk.state \in {"REBOOTING", "POST_REBOOT"} /\ disk.boot_id_after = 0
       THEN DriveFrom("POST_REBOOT")
       ELSE FailLoaded("unexpected-reboot")
  ELSE IF disk.state = "REBOOTING" THEN RebootNeverHappened
  ELSE IF disk.state \in SameBootResumable THEN DriveFrom(disk.state)
  ELSE DriveFrom("PRECHECK")

StartFrame ==
  UNCHANGED <<archiveVars, deliveryVars, issued, stale, machineVars, envVars>>

\* WRONG: run() starts its own cycle over a terminal one left on disk.
Run_DropsTerminal ==
  /\ pc = "down"
  /\ \/ /\ disk.state \in TerminalStates \cup {"IDLE"}
        /\ started < MaxRuns
        /\ pc' = "new"
        /\ UNCHANGED <<disk, cycle, exc>>
     \/ /\ disk.state \notin TerminalStates \cup {"IDLE"}
        /\ RecoverSameBoot
  /\ StartFrame

\* run() while maintenance is enabled or forced; a skipped run changes nothing.
Run ==
  /\ pc = "down"
  /\ \/ /\ disk.state = "IDLE"
        /\ started < MaxRuns
        /\ pc' = "new"
        /\ UNCHANGED <<disk, cycle, exc>>
     \/ /\ disk.state \in TerminalStates
        /\ pc' = "rearchive"
        /\ UNCHANGED <<disk, cycle, exc>>
     \/ /\ disk.state \notin TerminalStates \cup {"IDLE"}
        /\ RecoverSameBoot
  /\ StartFrame

\* resume(); with nothing pending it is a no-op.
Resume ==
  /\ pc = "down"
  /\ \/ /\ disk.state = "IDLE"
        /\ UNCHANGED <<disk, engineVars>>
     \/ /\ disk.state \in TerminalStates
        /\ pc' = "archive"
        /\ UNCHANGED <<disk, cycle, exc>>
     \/ /\ disk.state \notin TerminalStates \cup {"IDLE"}
        /\ IF stale THEN FailLoaded("stale-cycle")
           ELSE IF disk.boot_id_after # 0 THEN RecoverSameBoot
           ELSE LET target == ResumeTarget(disk.state, BootChanged(disk))
                IN  IF target # "NONE" THEN DriveFrom(target)
                    ELSE IF disk.state = "REBOOTING" THEN RebootNeverHappened
                    ELSE FailLoaded("unexpected-reboot")
  /\ StartFrame

-----------------------------------------------------------------------------
(* The environment.                                                         *)

\* The process dies and the machine stays up.  A transaction it was running
\* is cut short, or ends on its own.
Crash ==
  /\ pc # "down"
  /\ crashes < MaxCrashes
  /\ crashes' = crashes + 1
  /\ Exit
  /\ IF pc = "applying"
     THEN /\ pkgs' \in {"current", "pending", "broken"}
          /\ unbooted' \in BOOLEAN
          /\ unbooted => unbooted'
     ELSE UNCHANGED <<pkgs, unbooted>>
  /\ UNCHANGED <<disk, archiveVars, told, issued, stale, boot, config, started>>

\* The machine goes down and comes back: the shutdown a command queued, power
\* loss, a panic or an administrator.  The new boot runs what is installed.
Reboot ==
  /\ boot < MaxBoots
  /\ boot' = boot + 1
  /\ unbooted' = FALSE
  /\ issued' = 0
  /\ Exit
  /\ IF pc = "applying" THEN pkgs' \in {"current", "pending", "broken"} ELSE UNCHANGED pkgs
  /\ UNCHANGED <<disk, archiveVars, told, stale, envVars>>

\* Seven days pass with no process moving the cycle; updated_at is written by
\* transitions only, so the failure of a stale cycle is what makes it fresh.
GrowStale ==
  /\ pc = "down"
  /\ disk.state \notin TerminalStates \cup {"IDLE"}
  /\ ~stale
  /\ stale' = TRUE
  /\ UNCHANGED <<disk, archiveVars, engineVars, deliveryVars, issued, machineVars, envVars>>

\* A process reads the configuration when it starts.
EditConfig ==
  /\ pc = "down"
  /\ config' \in Configs
  /\ UNCHANGED <<disk, archiveVars, engineVars, deliveryVars, issued, stale, machineVars,
                 started, crashes>>

-----------------------------------------------------------------------------
EngineStep ==
  \/ Precheck \/ RepairInterrupted \/ PrecheckRepaired
  \/ Refresh \/ Discover
  \/ EnterUpgrade \/ BeginApply \/ EndApply \/ SaveApplied \/ AfterUpgrade
  \/ CheckReboot \/ DecideReboot
  \/ EnterReboot \/ PrepareReboot \/ CommandReboot
  \/ VerifyRebooted \/ AfterReboot
  \/ VerifyPackages \/ PackagesVerified \/ CheckHealth
  \/ SaveOutcome \/ SaveReport \/ RecordDelivery \/ Notified \/ Complete
  \/ \E n \in Notifiers : Deliver(n) \/ DeliverFailure(n)
  \/ Fail \/ RecordError \/ FailureHooks \/ ReportFailure \/ FailureNotified
  \/ Archive \/ Reset \/ ResetForNewCycle \/ NewCycle

Next ==
  \/ EngineStep \/ HandlerRaises
  \/ Run \/ Resume
  \/ Crash \/ Reboot \/ GrowStale \/ EditConfig

Spec == Init /\ [][Next]_vars

\* A live process makes progress without an error of its own, since every
\* command it runs has a timeout, and the timer runs again and again.  Nothing
\* is assumed of the machine, of an operator or of the resume service.
Fairness == WF_vars(EngineStep) /\ WF_vars(Run)

-----------------------------------------------------------------------------
(* Properties.                                                              *)

\* Everywhere a process can be.
Places ==
  HandlerSteps \cup
    {"down", "new", "applying", "COMPLETED", "fail", "fail.record", "fail.hooks",
     "fail.report", "fail.deliver", "archive", "reset", "rearchive", "rereset"}

TypeOK ==
  /\ disk \in Cycle
  /\ history \in [RunId -> Cycle]
  /\ reports \subseteq RunId
  /\ pc \in Places
  /\ cycle \in Cycle
  /\ exc \in ErrorKinds
  /\ todo \subseteq Notifiers
  /\ status \in [Notifiers -> DeliveryStatus]
  /\ told \subseteq Outcomes
  /\ issued \in Nat
  /\ boot \in BootId
  /\ stale \in BOOLEAN
  /\ pkgs \in {"current", "pending", "broken"}
  /\ unbooted \in BOOLEAN
  /\ config \in Configs
  /\ started \in 0 .. MaxRuns
  /\ crashes \in 0 .. MaxCrashes

\* The states before REBOOTING: nothing orders a reboot in them.
EarlyStates ==
  {"PRECHECK", "REFRESHING", "DISCOVERING_UPDATES", "UPGRADING", "CHECKING_REBOOT",
   "REBOOT_PENDING"}

\* The cycle on disk works on a boot that is over, and did not order its end:
\* the one it was prechecked on, or the one its own reboot led to.
RebootedUnderneath ==
  /\ \/ disk.state \in EarlyStates /\ disk.boot_id_before # 0
     \/ disk.state \in PostRebootResumable /\ disk.boot_id_after # 0
  /\ BootChanged(disk)

\* When the reboot command runs, the boot it leaves and the attempt it makes
\* are on disk, under REBOOTING, with no later boot recorded: whatever happens
\* to the process, the next boot can tell that it is a new one.
RebootFactsDurable ==
  pc = "reboot.command" =>
    /\ disk.state = "REBOOTING"
    /\ disk.boot_id_before = boot
    /\ disk.boot_id_after = 0
    /\ disk.reboot_attempts > issued

\* However often processes die between commands, a cycle issues at most
\* MaxAttempts reboot commands on one boot.
RebootBudget == issued <= MaxAttempts

\* POST_REBOOT is reached only on a later boot than the one recorded before
\* the command, by a cycle that stays genuine through every later reboot.
PostRebootIsGenuine ==
  /\ disk.state = "POST_REBOOT" => disk.boot_id_before \in 1 .. boot - 1
  /\ disk.boot_id_after # 0 => disk.boot_id_before \in 1 .. disk.boot_id_after - 1

\* A package transaction starts only for a cycle whose durable record says that
\* it applied nothing yet and passed its precheck on this very boot.
ApplyIsFirstAndPrechecked ==
  pc \in {"apply", "applying"} =>
    /\ disk.state = "UPGRADING"
    /\ ~disk.updates_applied
    /\ disk.boot_id_before = boot

\* No process acts for a cycle whose machine rebooted underneath it, except to
\* fail it.
NoWorkAfterUnexpectedReboot ==
  RebootedUnderneath => pc \in {"down", "fail"}

\* Such a cycle has one way on: FAILED.
UnexpectedRebootIsFatal ==
  [][RebootedUnderneath => RebootedUnderneath' \/ disk'.state = "FAILED"]_vars

\* An archived completed cycle passed verification, has its report, tried every
\* notifier, and holds the outcome its own facts give.
CompletedIsTrue ==
  \A r \in RunId :
    history[r].state = "COMPLETED" =>
      /\ history[r].verify_passed
      /\ r \in reports
      /\ \A n \in Notifiers : history[r].notification_status[n] # "unset"
      /\ history[r].outcome = FinalOutcome(history[r])

\* Every report delivered for a cycle that completes, before or after a crash,
\* named the outcome the archive holds: no delivery changes it.
DeliveredOutcomeIsFinal ==
  disk.state = "COMPLETED" => told \subseteq {disk.outcome}

\* A reboot that the last answer of the provider required is not skipped: a
\* cycle that records the answer and yet completes as a success crossed one
\* after it, and none of its own updates still waits for one.  What the
\* provider does not see is the concern of Provider.
NoRequiredRebootIsSkipped ==
  /\ disk.state = "COMPLETED"
  /\ disk.outcome \in {"SUCCESS", "SUCCESS_WITH_WARNINGS", "NO_UPDATES"}
  /\ disk.reboot_required
  => disk.boot_id_after # 0 /\ ~unbooted

\* A cycle once begun is on disk or in the archive, and an archived cycle is
\* terminal and never on disk again as an active one.
NoCycleIsLost ==
  \A r \in 1 .. started :
    /\ r = disk.run_id \/ history[r].run_id = r
    /\ history[r].run_id # 0 => history[r].run_id = r /\ history[r].state \in TerminalStates
    /\ history[r].run_id # 0 /\ r = disk.run_id => disk = history[r]

\* With the timer running, every cycle begun ends in the archive.
EveryCycleEnds ==
  \A r \in RunId : disk.run_id = r ~> history[r].run_id = r
=============================================================================
