-------------------------- MODULE CycleRefinement --------------------------
(***************************************************************************)
(* CycleEngine, with its processes that die, its two ways to recover and   *)
(* its separate saves, implements MaintenanceCycle.                        *)
(***************************************************************************)
EXTENDS CycleEngine

\* The stage that a state of state.json stands for.
Stage(state) ==
  CASE state = "IDLE" -> "idle"
    [] state \in EarlyStates -> "planning"
    [] state = "REBOOTING" -> "rebooting"
    [] state \in {"POST_REBOOT", "VERIFYING", "HEALTH_CHECKING", "NOTIFYING"} -> "proving"
    [] state \in TerminalStates -> state

\* The last boot the cycle recorded.
Home(c) == IF c.boot_id_after # 0 THEN c.boot_id_after ELSE c.boot_id_before

Promise ==
  INSTANCE MaintenanceCycle WITH
    Runs <- RunId,
    Boots <- BootId,
    run <- disk.run_id,
    stage <- Stage(disk.state),
    applied <- disk.updates_applied,
    replanned <- disk.initial_reboot_completed,
    proved <- disk.verify_passed,
    home <- Home(disk),
    boot <- boot,
    ledger <- [r \in RunId |-> IF history[r].run_id = 0 THEN "none" ELSE history[r].state]

\* Whatever the engine, its crashes and the reboots of the machine do to the
\* durable state is a step of the abstract cycle, or none at all.
KeepsThePromise == Promise!Spec
=============================================================================
