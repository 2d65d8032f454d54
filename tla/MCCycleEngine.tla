--------------------------- MODULE MCCycleEngine ---------------------------
(***************************************************************************)
(* Instances of CycleEngine for TLC.                                       *)
(***************************************************************************)
EXTENDS CycleRefinement, TLC

\* The default configuration of the program.
DefaultConfig ==
  [policy |-> "when_required", existing_pending |-> "reboot_first", repair_interrupted |-> FALSE]

DefaultConfigs == {DefaultConfig}

\* What the configuration is edited to between two processes: the default one,
\* and one under which nothing reboots and interrupted transactions are repaired.
EditedConfigs ==
  {DefaultConfig,
   [policy |-> "never", existing_pending |-> "report_only", repair_interrupted |-> TRUE]}

\* Every cycle reboots, and first when a reboot was pending before.
RebootingConfigs == {[DefaultConfig EXCEPT !.policy = "always"]}

\* BOUND: a second cycle begins over whatever the first one left, and is followed
\* no further.
SecondCycleBegins == started = 2 => pc = "PRECHECK"

\* No notifier is told from another.
NotifierSymmetry == Permutations(Notifiers)
=============================================================================
