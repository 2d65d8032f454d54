---------------------------- MODULE CycleStates ----------------------------
(***************************************************************************)
(* The states of a maintenance cycle, the table of legal transitions and   *)
(* the resolution of a boot-time resume (patchcycle/states.py).  The table *)
(* is the single source of truth of the engine: CycleEngine moves a cycle  *)
(* only through it.                                                        *)
(***************************************************************************)

State ==
  {"IDLE", "PRECHECK", "REFRESHING", "DISCOVERING_UPDATES", "UPGRADING",
   "CHECKING_REBOOT", "REBOOT_PENDING", "REBOOTING", "POST_REBOOT",
   "VERIFYING", "HEALTH_CHECKING", "NOTIFYING", "COMPLETED", "FAILED"}

TerminalStates == {"COMPLETED", "FAILED"}

\* The states the boot-resume service may re-enter after a verified reboot.
PostRebootResumable == {"POST_REBOOT", "VERIFYING", "HEALTH_CHECKING", "NOTIFYING"}

\* WRONG: the recovery arcs to PRECHECK are missing.
Transitions_NoRecovery ==
  [s \in State |->
     CASE s = "IDLE"                -> {"PRECHECK"}
       [] s = "PRECHECK"            -> {"REFRESHING", "REBOOT_PENDING", "FAILED"}
       [] s = "REFRESHING"          -> {"DISCOVERING_UPDATES", "FAILED"}
       [] s = "DISCOVERING_UPDATES" -> {"UPGRADING", "CHECKING_REBOOT", "FAILED"}
       [] s = "UPGRADING"           -> {"CHECKING_REBOOT", "FAILED"}
       [] s = "CHECKING_REBOOT"     -> {"REBOOT_PENDING", "VERIFYING", "FAILED"}
       [] s = "REBOOT_PENDING"      -> {"REBOOTING", "VERIFYING", "FAILED"}
       [] s = "REBOOTING"           -> {"POST_REBOOT", "FAILED"}
       [] s = "POST_REBOOT"         -> {"VERIFYING", "PRECHECK", "FAILED"}
       [] s = "VERIFYING"           -> {"HEALTH_CHECKING", "FAILED"}
       [] s = "HEALTH_CHECKING"     -> {"NOTIFYING", "FAILED"}
       [] s = "NOTIFYING"           -> {"COMPLETED"}
       [] OTHER                     -> {}]

\* The arcs of the table.  A cycle found in an early state by a later process
\* restarts at PRECHECK, and NOTIFYING has no arc to FAILED: a delivery that
\* fails never rewrites what the cycle did.
Transitions ==
  [s \in State |->
     CASE s = "IDLE"                -> {"PRECHECK"}
       [] s = "PRECHECK"            -> {"REFRESHING", "REBOOT_PENDING", "FAILED"}
       [] s = "REFRESHING"          -> {"DISCOVERING_UPDATES", "PRECHECK", "FAILED"}
       [] s = "DISCOVERING_UPDATES" -> {"UPGRADING", "CHECKING_REBOOT", "PRECHECK", "FAILED"}
       [] s = "UPGRADING"           -> {"CHECKING_REBOOT", "PRECHECK", "FAILED"}
       [] s = "CHECKING_REBOOT"     -> {"REBOOT_PENDING", "VERIFYING", "FAILED"}
       [] s = "REBOOT_PENDING"      -> {"REBOOTING", "VERIFYING", "FAILED"}
       [] s = "REBOOTING"           -> {"POST_REBOOT", "FAILED"}
       [] s = "POST_REBOOT"         -> {"VERIFYING", "PRECHECK", "FAILED"}
       [] s = "VERIFYING"           -> {"HEALTH_CHECKING", "FAILED"}
       [] s = "HEALTH_CHECKING"     -> {"NOTIFYING", "FAILED"}
       [] s = "NOTIFYING"           -> {"COMPLETED"}
       [] OTHER                     -> {}]

IsLegalTransition(src, dst) == dst \in Transitions[src]

\* WRONG: an early cycle goes on after any reboot.
ResumeTarget_EarlyContinues(s, bootChanged) ==
  CASE bootChanged /\ s = "REBOOTING"           -> "POST_REBOOT"
    [] bootChanged /\ s \in PostRebootResumable -> s
    [] s \in {"REFRESHING", "DISCOVERING_UPDATES", "UPGRADING"} -> "PRECHECK"
    [] OTHER                                    -> "NONE"

\* Where a resume at boot continues a cycle persisted in the state s; "NONE"
\* is the failure path (Python None).
ResumeTarget(s, bootChanged) ==
  CASE bootChanged /\ s = "REBOOTING"           -> "POST_REBOOT"
    [] bootChanged /\ s \in PostRebootResumable -> s
    [] OTHER                                    -> "NONE"
=============================================================================
