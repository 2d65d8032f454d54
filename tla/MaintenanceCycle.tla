------------------------- MODULE MaintenanceCycle -------------------------
(***************************************************************************)
(* What the program promises of a maintenance cycle, with no process, no   *)
(* file and no handler in it: cycles are begun one after the other, work   *)
(* only on the boot they know of, record their updates as applied once,    *)
(* cross a reboot only onto another boot, plan at most twice, complete     *)
(* only when their result was verified, and enter the ledger before the    *)
(* next one begins.                                                        *)
(* CycleEngine implements it; see CycleRefinement.                         *)
(***************************************************************************)
EXTENDS Naturals

CONSTANTS
  Runs,       \* the numbers cycles are given, 1 upwards
  Boots       \* the boots of the machine, 1 upwards

VARIABLES
  run,        \* the cycle in hand, 0 when there is none
  stage,      \* how far it is
  applied,    \* its updates are known to be applied
  replanned,  \* it was planned anew after a reboot
  proved,     \* its result passed the last verification
  home,       \* the boot it knows of, 0 before its precheck
  boot,       \* the boot the machine is on
  ledger      \* how each cycle ended, for those put away

vars == <<run, stage, applied, replanned, proved, home, boot, ledger>>

Ended == {"COMPLETED", "FAILED"}
Active == {"planning", "rebooting", "proving"}

Init ==
  /\ run = 0
  /\ stage = "idle"
  /\ applied = FALSE
  /\ replanned = FALSE
  /\ proved = FALSE
  /\ home = 0
  /\ boot \in Boots
  /\ ledger = [r \in Runs |-> "none"]

\* The next number, when every cycle before it is in the ledger.
Begin ==
  /\ stage = "idle"
  /\ run' \in Runs
  /\ \A r \in Runs : ledger[r] = "none" <=> r >= run'
  /\ stage' = "planning"
  /\ UNCHANGED <<applied, replanned, proved, home, boot, ledger>>

\* The precheck: a cycle that knows another boot does not get past it.
Precheck ==
  /\ stage = "planning"
  /\ home \in {0, boot}
  /\ home' = boot
  /\ UNCHANGED <<run, stage, applied, replanned, proved, boot, ledger>>

Apply ==
  /\ stage = "planning"
  /\ home = boot
  /\ ~applied
  /\ applied' = TRUE
  /\ UNCHANGED <<run, stage, replanned, proved, home, boot, ledger>>

\* What follows the planning, on the boot it was done on.
Decide ==
  /\ stage = "planning"
  /\ home = boot
  /\ stage' \in {"rebooting", "proving"}
  /\ UNCHANGED <<run, applied, replanned, proved, home, boot, ledger>>

\* Before a reboot command: the boot it is to end.
Leave ==
  /\ stage = "rebooting"
  /\ home' = boot
  /\ UNCHANGED <<run, stage, applied, replanned, proved, boot, ledger>>

\* A reboot is over only on another boot than the one it was to end.
Arrive ==
  /\ stage = "rebooting"
  /\ home # boot
  /\ stage' = "proving"
  /\ UNCHANGED <<run, applied, replanned, proved, home, boot, ledger>>

\* The new boot becomes the one the cycle knows of.  Once, the planning may
\* begin anew there.
Settle ==
  /\ stage = "proving"
  /\ home' = boot
  /\ UNCHANGED <<run, stage, applied, replanned, proved, boot, ledger>>

Replan ==
  /\ stage = "proving"
  /\ home = boot
  /\ ~replanned
  /\ stage' = "planning"
  /\ replanned' = TRUE
  /\ UNCHANGED <<run, applied, proved, home, boot, ledger>>

Verify ==
  /\ stage = "proving"
  /\ proved' \in BOOLEAN
  /\ UNCHANGED <<run, stage, applied, replanned, home, boot, ledger>>

Complete ==
  /\ stage = "proving"
  /\ proved
  /\ stage' = "COMPLETED"
  /\ UNCHANGED <<run, applied, replanned, proved, home, boot, ledger>>

Fail ==
  /\ stage \in Active
  /\ stage' = "FAILED"
  /\ UNCHANGED <<run, applied, replanned, proved, home, boot, ledger>>

Archive ==
  /\ stage \in Ended
  /\ ledger' = [ledger EXCEPT ![run] = stage]
  /\ UNCHANGED <<run, stage, applied, replanned, proved, home, boot>>

\* Only what the ledger holds is let go of.
PutAway ==
  /\ stage \in Ended
  /\ ledger[run] = stage
  /\ run' = 0
  /\ stage' = "idle"
  /\ applied' = FALSE
  /\ replanned' = FALSE
  /\ proved' = FALSE
  /\ home' = 0
  /\ UNCHANGED <<boot, ledger>>

\* The machine may reboot at any time; a boot is never had again.
Reboot ==
  /\ boot' \in {b \in Boots : b > boot}
  /\ UNCHANGED <<run, stage, applied, replanned, proved, home, ledger>>

Next ==
  \/ Begin \/ Precheck \/ Apply \/ Decide \/ Leave \/ Arrive \/ Settle
  \/ Replan \/ Verify \/ Complete \/ Fail \/ Archive \/ PutAway \/ Reboot

Spec == Init /\ [][Next]_vars
=============================================================================
