----------------------------- MODULE CycleHooks -----------------------------
(***************************************************************************)
(* The hook points a cycle of CycleEngine has been through, across all the *)
(* processes that worked on it.  The engine keeps no record of them.       *)
(***************************************************************************)
EXTENDS CycleEngine

VARIABLES
  hooked,     \* the hook points whose hooks ran to their end for the cycle on disk
  cut         \* those a process died in that no later one comes back to

hooksVars == <<vars, hooked, cut>>

\* A step past the hooks of a point.
HooksRan(point) ==
  CASE point = "before_upgrade" -> pc = "UPGRADING" /\ pc' = "apply"
    [] point = "after_upgrade"  -> pc = "after_upgrade" /\ pc' = "CHECKING_REBOOT"
    [] point = "before_reboot"  -> pc = "REBOOTING" /\ pc' = "reboot.prepare"
    [] point = "after_reboot"   -> pc = "after_reboot" /\ pc' \in {"PRECHECK", "VERIFYING"}
    [] point = "on_failure"     -> pc = "fail.hooks" /\ pc' = "fail.report"

HookPoints == {"before_upgrade", "after_upgrade", "before_reboot", "after_reboot", "on_failure"}

\* What is durable by then says that the work before the hooks is done.
HooksCut(point) ==
  /\ pc' = "down"
  /\ \/ point = "after_upgrade" /\ disk.state = "UPGRADING" /\ disk.updates_applied
     \/ point = "on_failure" /\ pc \in {"fail.record", "fail.hooks"}

HooksInit == Init /\ hooked = {} /\ cut = {}

HooksNext ==
  /\ Next
  /\ IF disk'.run_id # disk.run_id
     THEN hooked' = {} /\ cut' = {}
     ELSE /\ hooked' = hooked \cup {p \in HookPoints : HooksRan(p)}
          /\ cut' = cut \cup {p \in HookPoints : HooksCut(p)}

HooksSpec == HooksInit /\ [][HooksNext]_hooksVars /\ Fairness

-----------------------------------------------------------------------------
\* However often its processes died and its machine rebooted, a cycle that
\* completes ran the hooks around its upgrade and those after each reboot it
\* ordered, and one that fails those for a failure.  The only hooks missed are
\* those that follow an upgrade or a failure, where a process died after it was
\* saved and before they had run.
HooksFollowThrough ==
  /\ disk.state = "COMPLETED" =>
       /\ disk.updates_applied => {"before_upgrade", "after_upgrade"} \subseteq hooked \cup cut
       /\ disk.initial_reboot_completed \/ disk.boot_id_after # 0 => "after_reboot" \in hooked
  /\ disk.state = "FAILED" /\ pc \notin {"fail.record", "fail.hooks"} => "on_failure" \in hooked \cup cut
=============================================================================
