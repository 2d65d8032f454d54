--------------------------- MODULE CycleFindings ---------------------------
(***************************************************************************)
(* What the documents of the repository say of the engine and CycleEngine, *)
(* as the code has it, does not do.                                        *)
(***************************************************************************)
EXTENDS MCCycleEngine

\* "PRECHECK..REBOOT_PENDING, no (same boot): crash recovery" of a resume
\* (state-machine.md): what is found on the boot it recorded is not diagnosed
\* as an unexpected reboot.
SameBootResumeRecovers ==
  [][Resume /\ disk.state \in EarlyStates /\ disk.boot_id_before = boot
       => exc' # "unexpected-reboot"]_vars
=============================================================================
