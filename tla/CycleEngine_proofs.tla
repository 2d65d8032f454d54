------------------------- MODULE CycleEngine_proofs -------------------------
(***************************************************************************)
(* What TLAPS proves of CycleEngine, for every set of notifiers and of      *)
(* configurations and every bound.                                         *)
(***************************************************************************)
EXTENDS CycleEngine, TLAPS

-----------------------------------------------------------------------------
(* The inductive invariant.                                                 *)

\* The handler entries, COMPLETED included: _drive holds what is on disk.
Entries == State \ {"IDLE", "FAILED"}

\* Where a process works for the cycle on disk.
Working ==
  HandlerSteps \cup {"applying", "COMPLETED", "fail", "fail.record", "fail.hooks", "fail.report",
                     "fail.deliver"}

\* What the boot ids and the attempts on disk say, whatever the process does.
BootFacts ==
  /\ disk.run_id = 0 <=> disk.state = "IDLE"
  /\ disk.boot_id_before <= boot
  /\ disk.boot_id_after <= boot
  /\ disk.boot_id_after # 0 =>
       /\ 0 < disk.boot_id_before
       /\ disk.boot_id_before < disk.boot_id_after
       /\ disk.state \in PostRebootResumable \cup TerminalStates
  /\ disk.state \notin {"IDLE", "PRECHECK", "FAILED"} => disk.boot_id_before # 0
  /\ disk.state = "POST_REBOOT" => disk.boot_id_before < boot

\* Commands issued on this boot are counted on disk, with this boot as the one
\* they leave.
BudgetFacts ==
  /\ issued <= MaxAttempts
  /\ issued > 0 /\ disk.run_id # 0 =>
       /\ issued <= disk.reboot_attempts
       /\ disk.boot_id_before = boot
       /\ disk.boot_id_after = 0

\* Where the process is, the cycle on disk is.
Position ==
  /\ pc \in Entries => disk.state = pc
  /\ pc = "repaired" => disk.state = "PRECHECK"
  /\ pc \in {"apply", "applying", "applied", "after_upgrade"} => disk.state = "UPGRADING"
  /\ pc \in {"reboot.prepare", "reboot.command"} => disk.state = "REBOOTING"
  /\ pc = "after_reboot" => disk.state = "POST_REBOOT"
  /\ pc = "verified" => disk.state = "VERIFYING"
  /\ pc \in {"notify.report", "notify.deliver", "notify.record"} => disk.state = "NOTIFYING"
  /\ pc = "fail" => disk.state \notin TerminalStates \cup {"IDLE"}
  /\ pc \in {"fail.record", "fail.hooks", "fail.report", "fail.deliver"} => disk.state = "FAILED"
  /\ pc \in {"archive", "reset", "rearchive", "rereset"} => disk.state \in TerminalStates
  /\ pc = "new" => disk.state = "IDLE"

\* What a live process remembers is what is on disk, up to the first save of a
\* handler; its run id always is.
Memory ==
  /\ pc \in Working => cycle.run_id = disk.run_id
  /\ pc \in Entries \cup {"repaired", "apply", "applying", "applied", "fail.record",
                          "fail.hooks", "fail.report", "fail.deliver"} => cycle = disk

\* A live process works on the boot the cycle recorded.
OnRecordedBoot ==
  /\ pc \in {"PRECHECK", "repaired"} => disk.boot_id_before \in {0, boot}
  /\ pc \in {"REFRESHING", "DISCOVERING_UPDATES", "UPGRADING", "apply", "applying", "applied",
             "after_upgrade", "CHECKING_REBOOT", "REBOOT_PENDING"} => disk.boot_id_before = boot
  /\ pc \in {"apply", "applying", "applied"} => ~disk.updates_applied
  /\ pc = "reboot.command" => /\ disk.boot_id_before = boot
                              /\ issued < disk.reboot_attempts
  /\ pc = "after_reboot" => disk.boot_id_after = boot

\* The types of what the handlers of a cycle change.
EngineTypes ==
  /\ disk \in Cycle
  /\ cycle \in Cycle
  /\ exc \in ErrorKinds
  /\ pc \in Places
  /\ issued \in Nat
  /\ boot \in BootId

\* The types of everything else.
OtherTypes ==
  /\ history \in [RunId -> Cycle]
  /\ reports \subseteq RunId
  /\ todo \subseteq Notifiers
  /\ status \in [Notifiers -> DeliveryStatus]
  /\ told \subseteq Outcomes
  /\ stale \in BOOLEAN
  /\ pkgs \in {"current", "pending", "broken"}
  /\ unbooted \in BOOLEAN
  /\ config \in Configs
  /\ started \in 0 .. MaxRuns
  /\ crashes \in 0 .. MaxCrashes

Core == EngineTypes /\ BootFacts /\ BudgetFacts /\ Position /\ Memory /\ OnRecordedBoot

IInv == Core /\ OtherTypes

-----------------------------------------------------------------------------
(* Lemmas about the operators.                                              *)

\* A cycle stays one when a field is given a value of its type.
LEMMA SetState ==
  ASSUME NEW c \in Cycle, NEW s \in State
  PROVE  [c EXCEPT !.state = s] \in Cycle
BY DEF Cycle

\* The same of the boot recorded before a reboot.
LEMMA SetBootBefore ==
  ASSUME NEW c \in Cycle, NEW b \in 0 .. MaxBoots
  PROVE  [c EXCEPT !.boot_id_before = b] \in Cycle
BY DEF Cycle

\* The same of the boot recorded after it.
LEMMA SetBootAfter ==
  ASSUME NEW c \in Cycle, NEW b \in 0 .. MaxBoots
  PROVE  [c EXCEPT !.boot_id_after = b] \in Cycle
BY DEF Cycle

\* The same of the attempt count, within the budget.
LEMMA SetAttempts ==
  ASSUME NEW c \in Cycle, NEW n \in 0 .. MaxAttempts
  PROVE  [c EXCEPT !.reboot_attempts = n] \in Cycle
BY DEF Cycle

\* A new cycle is a cycle.
LEMMA FreshCycleType ==
  ASSUME NEW r \in 0 .. MaxRuns
  PROVE  FreshCycle(r) \in Cycle
BY BoundsAssumption DEF Cycle, FreshCycle, State, Outcomes, ErrorKinds, DeliveryStatus

-----------------------------------------------------------------------------
(* What the steps of a handler are made of keeps the invariant.             *)

\* A handler that raises leaves the cycle to _fail.
LEMMA RaiseKeeps ==
  ASSUME Core, pc \in HandlerSteps \cup {"applying"}, NEW kind \in ErrorKinds, Raise(kind),
         UNCHANGED <<issued, boot>>
  PROVE  Core'
<1>1. disk.state \notin TerminalStates \cup {"IDLE"} /\ cycle.run_id = disk.run_id
  BY DEF Core, Position, Memory, HandlerSteps, Entries, State, TerminalStates, Working, Raise
<1>2. pc' = "fail" /\ exc' = kind /\ disk' = disk /\ cycle' = cycle
  BY DEF Raise
<1>3. EngineTypes'
  BY <1>2 DEF Core, EngineTypes, Places
<1>4. BootFacts' /\ BudgetFacts'
  BY <1>2 DEF Core, BootFacts, BudgetFacts
<1>5. Position' /\ Memory' /\ OnRecordedBoot'
  BY <1>1, <1>2 DEF Position, Memory, OnRecordedBoot, Entries, State
<1> QED BY <1>3, <1>4, <1>5 DEF Core

\* The states in which a live process works on the boot recorded at PRECHECK.
BeforeReboot ==
  {"REFRESHING", "DISCOVERING_UPDATES", "UPGRADING", "CHECKING_REBOOT", "REBOOT_PENDING"}

\* What the cycle c, entering the state dst, must say of the boots.
FitsState(c, dst) ==
  /\ c.run_id = disk.run_id
  /\ 0 < c.boot_id_before
  /\ c.boot_id_before <= boot
  /\ c.boot_id_after <= boot
  /\ c.boot_id_after # 0 =>
       /\ c.boot_id_before < c.boot_id_after
       /\ dst \in PostRebootResumable \cup TerminalStates
  /\ dst = "POST_REBOOT" => c.boot_id_before < boot
  /\ dst \in BeforeReboot \cup {"PRECHECK"} => c.boot_id_before = boot
  /\ issued > 0 =>
       /\ issued <= c.reboot_attempts
       /\ c.boot_id_before = boot
       /\ c.boot_id_after = 0

\* _transition either moves the cycle, which enters the state with what it must
\* say, or raises.
LEMMA MoveToKeeps ==
  ASSUME Core, pc \in HandlerSteps, NEW c \in Cycle, NEW dst \in Entries, FitsState(c, dst),
         MoveTo(c, dst), UNCHANGED <<issued, boot>>
  PROVE  Core'
<1>1. CASE ~IsLegalTransition(c.state, dst)
  <2>1. Raise("internal")
    BY <1>1 DEF MoveTo
  <2> QED BY <2>1, RaiseKeeps DEF ErrorKinds
<1>2. CASE IsLegalTransition(c.state, dst)
  <2> DEFINE moved == [c EXCEPT !.state = dst]
  <2>1. disk' = moved /\ cycle' = moved /\ pc' = dst /\ exc' = exc
    BY <1>2 DEF MoveTo
  <2>2. moved \in Cycle
    BY SetState DEF Entries
  <2>3. /\ moved.state = dst
        /\ moved.run_id = c.run_id
        /\ moved.boot_id_before = c.boot_id_before
        /\ moved.boot_id_after = c.boot_id_after
        /\ moved.reboot_attempts = c.reboot_attempts
    BY DEF Cycle
  <2> HIDE DEF moved
  <2>4. disk.run_id # 0
    BY DEF Core, Position, BootFacts, HandlerSteps, Entries, State
  <2>5. EngineTypes'
    BY <2>1, <2>2 DEF Core, EngineTypes, Places, Entries, State, HandlerSteps
  <2>6. BootFacts'
    BY <2>1, <2>3, <2>4 DEF FitsState, BootFacts, Entries, State, TerminalStates
  <2>7. BudgetFacts'
    BY <2>1, <2>3 DEF Core, FitsState, BudgetFacts
  <2>8. Position'
    BY <2>1, <2>3 DEF Position, Entries, State
  <2>9. Memory'
    BY <2>1 DEF Memory
  <2>10. OnRecordedBoot'
    BY <2>1, <2>3 DEF FitsState, OnRecordedBoot, Entries, State, BeforeReboot
  <2> QED BY <2>5, <2>6, <2>7, <2>8, <2>9, <2>10 DEF Core
<1> QED BY <1>1, <1>2

\* Of what the invariant reads, c changes the state alone.
SameFacts(c) ==
  /\ c.run_id = disk.run_id
  /\ c.boot_id_before = disk.boot_id_before
  /\ c.boot_id_after = disk.boot_id_after
  /\ c.reboot_attempts = disk.reboot_attempts

\* Past PRECHECK, a move of such a cycle keeps the invariant; only a cycle on
\* its recorded boot enters a state before the reboot, and none that a reboot
\* was verified for does.
LEMMA ForwardKeeps ==
  ASSUME IInv, pc \in HandlerSteps, disk.state # "PRECHECK",
         NEW c \in Cycle, SameFacts(c), NEW dst \in Entries \ {"PRECHECK", "POST_REBOOT"},
         disk.state \in PostRebootResumable => dst \in PostRebootResumable \cup {"COMPLETED"},
         dst \in BeforeReboot => disk.boot_id_before = boot,
         MoveTo(c, dst), UNCHANGED <<issued, boot>>
  PROVE  Core'
<1>1. disk \in Cycle /\ boot \in BootId
  BY DEF IInv, Core, EngineTypes
<1>2. /\ disk.boot_id_before \in 0 .. MaxBoots /\ disk.boot_id_after \in 0 .. MaxBoots
      /\ boot \in 1 .. MaxBoots
  BY <1>1 DEF Cycle, BootId
<1>3. disk.state \notin {"IDLE", "PRECHECK"} \cup TerminalStates
  BY DEF IInv, Core, Position, Entries, State, HandlerSteps, TerminalStates
<1>4. disk.boot_id_before # 0 /\ disk.run_id # 0
  BY <1>3 DEF IInv, Core, BootFacts, TerminalStates
<1>5. FitsState(c, dst)
  BY <1>2, <1>3, <1>4
  DEF SameFacts, FitsState, IInv, Core, BootFacts, BudgetFacts, TerminalStates
<1> QED BY <1>5, MoveToKeeps DEF IInv

\* What a handler is entered with is the cycle on disk.
LEMMA EntryFacts ==
  ASSUME IInv, pc \in (Entries \ {"COMPLETED"}) \cup {"apply", "applying", "applied"}
  PROVE  cycle \in Cycle /\ cycle = disk /\ (pc \in Entries => disk.state = pc)
BY DEF IInv, Core, EngineTypes, Position, Memory

\* Passing the precheck records this boot before the cycle leaves PRECHECK.
LEMMA PrecheckPassedKeeps ==
  ASSUME IInv, pc \in {"PRECHECK", "repaired"}, PrecheckPassed, UNCHANGED <<issued, boot>>
  PROVE  Core'
<1>0. PICK pending \in BOOLEAN :
        LET c == [cycle EXCEPT !.boot_id_before = boot, !.pre_existing_reboot = pending]
        IN  \/ MoveTo(c, "REFRESHING")
            \/ MoveTo([c EXCEPT !.reboot_before_updates = TRUE, !.reboot_required = TRUE],
                      "REBOOT_PENDING")
  BY DEF PrecheckPassed
<1> DEFINE c1 == [cycle EXCEPT !.boot_id_before = boot]
<1> DEFINE c == [cycle EXCEPT !.boot_id_before = boot, !.pre_existing_reboot = pending]
<1> DEFINE d == [c EXCEPT !.reboot_before_updates = TRUE, !.reboot_required = TRUE]
<1>1. /\ cycle = disk /\ disk.state = "PRECHECK" /\ cycle \in Cycle
      /\ boot \in 1 .. MaxBoots
      /\ disk.boot_id_before \in {0, boot}
  BY DEF IInv, Core, EngineTypes, Position, Memory, OnRecordedBoot, Entries, State, BootId
<1>2. disk.boot_id_after = 0 /\ disk.run_id # 0
  BY <1>1 DEF IInv, Core, BootFacts, PostRebootResumable, TerminalStates
<1>3. c \in Cycle
  <2>1. c1 \in Cycle
    BY <1>1, SetBootBefore
  <2> HIDE DEF c1
  <2>2. ASSUME NEW p \in BOOLEAN PROVE [c1 EXCEPT !.pre_existing_reboot = p] \in Cycle
    BY <2>1 DEF Cycle
  <2>3. c = [c1 EXCEPT !.pre_existing_reboot = pending]
    BY DEF c1
  <2> QED BY <2>2, <2>3
<1>4. /\ c.run_id = disk.run_id /\ c.boot_id_before = boot /\ c.boot_id_after = 0
      /\ c.reboot_attempts = disk.reboot_attempts
  BY <1>1, <1>2 DEF Cycle
<1>5. \/ MoveTo(c, "REFRESHING")
      \/ MoveTo(d, "REBOOT_PENDING")
  BY <1>0
<1> HIDE DEF c
<1>6. /\ d \in Cycle /\ d.run_id = c.run_id /\ d.boot_id_before = c.boot_id_before
      /\ d.boot_id_after = c.boot_id_after /\ d.reboot_attempts = c.reboot_attempts
  BY <1>3 DEF Cycle
<1> HIDE DEF d
<1>7. issued > 0 => issued <= disk.reboot_attempts
  BY <1>2 DEF IInv, Core, BudgetFacts
<1>8. FitsState(c, "REFRESHING") /\ FitsState(d, "REBOOT_PENDING")
  BY <1>1, <1>4, <1>6, <1>7 DEF FitsState
<1>9. "REFRESHING" \in Entries /\ "REBOOT_PENDING" \in Entries /\ pc \in HandlerSteps
  BY DEF Entries, State, HandlerSteps
<1> QED BY <1>3, <1>5, <1>6, <1>8, <1>9, MoveToKeeps DEF IInv

\* Either precheck passes or raises.
LEMMA PrecheckKeeps ==
  ASSUME IInv, Precheck \/ PrecheckRepaired
  PROVE  Core'
<1>1. UNCHANGED <<issued, boot>> /\ pc \in {"PRECHECK", "repaired"}
  BY DEF Precheck, PrecheckRepaired, HandlerFrame, machineVars
<1>2. Raise("preflight-failed") \/ PrecheckPassed
  BY DEF Precheck, PrecheckRepaired
<1>3. pc \in HandlerSteps /\ "preflight-failed" \in ErrorKinds
  BY <1>1 DEF HandlerSteps, ErrorKinds
<1> QED BY <1>1, <1>2, <1>3, RaiseKeeps, PrecheckPassedKeeps DEF IInv

\* A step within a handler that leaves the cycle and the boot alone.
LEMMA RepairInterruptedKeeps ==
  ASSUME IInv, RepairInterrupted
  PROVE  Core'
<1>1. /\ pc = "PRECHECK" /\ pc' = "repaired"
      /\ UNCHANGED <<disk, cycle, exc, issued, boot>>
  BY DEF RepairInterrupted
<1> QED BY <1>1 DEF IInv, Core, EngineTypes, Places, HandlerSteps, BootFacts, BudgetFacts,
                    Position, Memory, OnRecordedBoot, Entries, State, Working

\* A refresh moves the cycle on, or raises.
LEMMA RefreshKeeps ==
  ASSUME IInv, Refresh
  PROVE  Core'
<1>1. pc = "REFRESHING" /\ UNCHANGED <<issued, boot>>
  BY DEF Refresh
<1>2. pc \in HandlerSteps /\ pc \in Entries \ {"COMPLETED"}
  BY <1>1 DEF HandlerSteps, Entries, State
<1>3. cycle \in Cycle /\ cycle = disk /\ disk.state = "REFRESHING"
  BY <1>1, <1>2, EntryFacts
<1>4. CASE Raise("pm-failed")
  BY <1>1, <1>2, <1>4, RaiseKeeps DEF IInv, ErrorKinds
<1>5. ASSUME NEW warned \in BOOLEAN,
             MoveTo([cycle EXCEPT !.warnings = @ \/ warned], "DISCOVERING_UPDATES")
      PROVE  Core'
  <2> DEFINE w == cycle.warnings \/ warned
  <2> DEFINE c == [cycle EXCEPT !.warnings = w]
  <2>1. ASSUME NEW x \in BOOLEAN
        PROVE  [cycle EXCEPT !.warnings = x] \in Cycle /\ SameFacts([cycle EXCEPT !.warnings = x])
    BY <1>3 DEF Cycle, SameFacts
  <2>2. c \in Cycle /\ SameFacts(c)
    BY <2>1
  <2>3. MoveTo(c, "DISCOVERING_UPDATES")
    BY <1>5
  <2> HIDE DEF c
  <2> QED BY <1>1, <1>2, <1>3, <2>2, <2>3, ForwardKeeps
          DEF IInv, Core, OnRecordedBoot, Entries, State, PostRebootResumable
<1> QED BY <1>4, <1>5 DEF Refresh

\* A discovery moves the cycle on, or raises.
LEMMA DiscoverKeeps ==
  ASSUME IInv, Discover
  PROVE  Core'
<1> DEFINE c == [cycle EXCEPT !.packages_pending = (pkgs = "pending")]
<1>1. pc = "DISCOVERING_UPDATES" /\ UNCHANGED <<issued, boot>>
  BY DEF Discover, HandlerFrame, machineVars
<1>2. pc \in HandlerSteps /\ pc \in Entries \ {"COMPLETED"}
  BY <1>1 DEF HandlerSteps, Entries, State
<1>3. cycle \in Cycle /\ cycle = disk /\ disk.state = "DISCOVERING_UPDATES"
  BY <1>1, <1>2, EntryFacts
<1>4. CASE Raise("preflight-failed")
  BY <1>1, <1>2, <1>4, RaiseKeeps DEF IInv, ErrorKinds
<1>5. ASSUME NEW x \in BOOLEAN
      PROVE  /\ [cycle EXCEPT !.packages_pending = x] \in Cycle
             /\ SameFacts([cycle EXCEPT !.packages_pending = x])
  BY <1>3 DEF Cycle, SameFacts
<1>6. c \in Cycle /\ SameFacts(c)
  BY <1>5
<1>7. ASSUME NEW dst \in {"UPGRADING", "CHECKING_REBOOT"}, MoveTo(c, dst)
      PROVE  Core'
  <2> HIDE DEF c
  <2> QED BY <1>1, <1>2, <1>3, <1>6, <1>7, ForwardKeeps
          DEF IInv, Core, OnRecordedBoot, Entries, State, PostRebootResumable
<1> QED BY <1>4, <1>7 DEF Discover

\* The upgrade handler begins, skips what was applied, or raises.
LEMMA EnterUpgradeKeeps ==
  ASSUME IInv, EnterUpgrade
  PROVE  Core'
<1>1. pc = "UPGRADING" /\ UNCHANGED <<issued, boot>>
  BY DEF EnterUpgrade, HandlerFrame, machineVars
<1>2. pc \in HandlerSteps /\ pc \in Entries \ {"COMPLETED"}
  BY <1>1 DEF HandlerSteps, Entries, State
<1>3. cycle \in Cycle /\ cycle = disk /\ disk.state = "UPGRADING" /\ disk.boot_id_before = boot
  BY <1>1, <1>2, EntryFacts DEF IInv, Core, OnRecordedBoot
<1>4. CASE MoveTo(cycle, "CHECKING_REBOOT")
  BY <1>1, <1>2, <1>3, <1>4, ForwardKeeps DEF SameFacts, Entries, State, PostRebootResumable
<1>5. CASE Raise("preflight-failed")
  BY <1>1, <1>2, <1>5, RaiseKeeps DEF IInv, ErrorKinds
<1>6. CASE ~cycle.updates_applied /\ pc' = "apply" /\ UNCHANGED <<disk, cycle, exc>>
  BY <1>1, <1>3, <1>6
  DEF IInv, Core, EngineTypes, Places, HandlerSteps, BootFacts, BudgetFacts,
      Position, Memory, OnRecordedBoot, Entries, State, Working
<1> QED BY <1>4, <1>5, <1>6 DEF EnterUpgrade

\* A transaction begins with the cycle as it is on disk.
LEMMA BeginApplyKeeps ==
  ASSUME IInv, BeginApply
  PROVE  Core'
<1>1. pc = "apply" /\ pc' = "applying" /\ UNCHANGED <<disk, cycle, exc, issued, boot>>
  BY DEF BeginApply
<1> QED BY <1>1 DEF IInv, Core, EngineTypes, Places, HandlerSteps, BootFacts, BudgetFacts,
                    Position, Memory, OnRecordedBoot, Entries, State, Working

\* A transaction ends with nothing saved yet.
LEMMA EndApplyKeeps ==
  ASSUME IInv, EndApply
  PROVE  Core'
<1>1. pc = "applying" /\ UNCHANGED <<issued, boot>>
  BY DEF EndApply
<1>2. CASE pc' = "applied" /\ UNCHANGED <<disk, cycle, exc>>
  BY <1>1, <1>2 DEF IInv, Core, EngineTypes, Places, HandlerSteps, BootFacts, BudgetFacts,
                    Position, Memory, OnRecordedBoot, Entries, State, Working
<1>3. ASSUME NEW kind \in {"pm-failed", "preflight-failed"}, Raise(kind)
      PROVE  Core'
  BY <1>1, <1>3, RaiseKeeps DEF IInv, ErrorKinds
<1> QED BY <1>2, <1>3 DEF EndApply

\* The first save of the upgrade handler changes no boot fact.
LEMMA SaveAppliedKeeps ==
  ASSUME IInv, SaveApplied
  PROVE  Core'
<1>1. /\ pc = "applied" /\ pc' = "after_upgrade" /\ UNCHANGED <<cycle, exc, issued, boot>>
      /\ disk' = [cycle EXCEPT !.updates_applied = TRUE]
  BY DEF SaveApplied, HandlerFrame, machineVars
<1>2. cycle \in Cycle /\ cycle = disk
  BY <1>1, EntryFacts
<1>3. disk' \in Cycle /\ disk'.state = disk.state /\ SameFacts(disk')
  BY <1>1, <1>2 DEF Cycle, SameFacts
<1>4. EngineTypes'
  BY <1>1, <1>3 DEF IInv, Core, EngineTypes, Places, HandlerSteps
<1>5. BootFacts' /\ BudgetFacts' /\ Position' /\ Memory' /\ OnRecordedBoot'
  BY <1>1, <1>2, <1>3 DEF IInv, Core, SameFacts, BootFacts, BudgetFacts, Position, Memory,
                          OnRecordedBoot, Entries, State, Working
<1> QED BY <1>4, <1>5 DEF Core

\* The upgrade handler moves on with what it saved.
LEMMA AfterUpgradeKeeps ==
  ASSUME IInv, AfterUpgrade
  PROVE  Core'
<1>1. pc = "after_upgrade" /\ UNCHANGED <<issued, boot>> /\ MoveTo(disk, "CHECKING_REBOOT")
  BY DEF AfterUpgrade, HandlerFrame, machineVars
<1>2. pc \in HandlerSteps /\ disk \in Cycle /\ disk.state = "UPGRADING" /\ disk.boot_id_before = boot
  BY <1>1 DEF HandlerSteps, IInv, Core, EngineTypes, Position, OnRecordedBoot
<1> QED BY <1>1, <1>2, ForwardKeeps DEF SameFacts, Entries, State, PostRebootResumable

\* The reboot check moves the cycle on, or raises.
LEMMA CheckRebootKeeps ==
  ASSUME IInv, CheckReboot
  PROVE  Core'
<1>0. PICK required \in BOOLEAN :
        LET c == [cycle EXCEPT !.reboot_required = required]
        IN  \/ Raise("preflight-failed")
            \/ MoveTo([c EXCEPT !.outcome = "MANUAL_REBOOT_REQUIRED"], "VERIFYING")
            \/ \E dst \in {"REBOOT_PENDING", "VERIFYING"} : MoveTo(c, dst)
  BY DEF CheckReboot
<1> DEFINE c == [cycle EXCEPT !.reboot_required = required]
<1> DEFINE d == [c EXCEPT !.outcome = "MANUAL_REBOOT_REQUIRED"]
<1>1. pc = "CHECKING_REBOOT" /\ UNCHANGED <<issued, boot>>
  BY DEF CheckReboot, HandlerFrame, machineVars
<1>2. pc \in HandlerSteps /\ pc \in Entries \ {"COMPLETED"}
  BY <1>1 DEF HandlerSteps, Entries, State
<1>3. /\ cycle \in Cycle /\ cycle = disk /\ disk.state = "CHECKING_REBOOT"
      /\ disk.boot_id_before = boot
  BY <1>1, <1>2, EntryFacts DEF IInv, Core, OnRecordedBoot
<1>4. ASSUME NEW x \in BOOLEAN
      PROVE  /\ [cycle EXCEPT !.reboot_required = x] \in Cycle
             /\ SameFacts([cycle EXCEPT !.reboot_required = x])
  BY <1>3 DEF Cycle, SameFacts
<1>5. c \in Cycle /\ SameFacts(c)
  BY <1>4
<1>6. \/ Raise("preflight-failed")
      \/ MoveTo(d, "VERIFYING")
      \/ \E dst \in {"REBOOT_PENDING", "VERIFYING"} : MoveTo(c, dst)
  BY <1>0
<1> HIDE DEF c
<1>7. d \in Cycle /\ SameFacts(d)
  BY <1>5 DEF Cycle, SameFacts, Outcomes
<1> HIDE DEF d
<1>8. CASE Raise("preflight-failed")
  BY <1>1, <1>2, <1>8, RaiseKeeps DEF IInv, ErrorKinds
<1>9. CASE MoveTo(d, "VERIFYING")
  BY <1>1, <1>2, <1>3, <1>7, <1>9, ForwardKeeps DEF Entries, State, PostRebootResumable
<1>10. ASSUME NEW dst \in {"REBOOT_PENDING", "VERIFYING"}, MoveTo(c, dst)
       PROVE  Core'
  BY <1>1, <1>2, <1>3, <1>5, <1>10, ForwardKeeps DEF Entries, State, PostRebootResumable
<1> QED BY <1>6, <1>8, <1>9, <1>10

\* Every decision on a pending reboot is an arc of the table, or raises.
LEMMA DecideRebootKeeps ==
  ASSUME IInv, DecideReboot
  PROVE  Core'
<1> DEFINE c == [cycle EXCEPT !.outcome = "MANUAL_REBOOT_REQUIRED"]
<1>1. pc = "REBOOT_PENDING" /\ UNCHANGED <<issued, boot>>
  BY DEF DecideReboot, HandlerFrame, machineVars
<1>2. pc \in HandlerSteps /\ pc \in Entries \ {"COMPLETED"}
  BY <1>1 DEF HandlerSteps, Entries, State
<1>3. /\ cycle \in Cycle /\ cycle = disk /\ disk.state = "REBOOT_PENDING"
      /\ SameFacts(cycle)
  BY <1>1, <1>2, EntryFacts DEF SameFacts
<1>4. c \in Cycle /\ SameFacts(c)
  BY <1>3 DEF Cycle, SameFacts, Outcomes
<1>5. \/ Raise("preflight-failed")
      \/ MoveTo(c, "VERIFYING")
      \/ \E dst \in {"REBOOTING", "VERIFYING"} : MoveTo(cycle, dst)
  BY DEF DecideReboot, Evaluate
<1> HIDE DEF c
<1>6. CASE Raise("preflight-failed")
  BY <1>1, <1>2, <1>6, RaiseKeeps DEF IInv, ErrorKinds
<1>7. CASE MoveTo(c, "VERIFYING")
  BY <1>1, <1>2, <1>3, <1>4, <1>7, ForwardKeeps
  DEF Entries, State, PostRebootResumable, BeforeReboot
<1>8. ASSUME NEW dst \in {"REBOOTING", "VERIFYING"}, MoveTo(cycle, dst)
      PROVE  Core'
  BY <1>1, <1>2, <1>3, <1>8, ForwardKeeps
  DEF Entries, State, PostRebootResumable, BeforeReboot
<1> QED BY <1>5, <1>6, <1>7, <1>8

\* The reboot handler enters its command loop, or raises.
LEMMA EnterRebootKeeps ==
  ASSUME IInv, EnterReboot
  PROVE  Core'
<1>1. pc = "REBOOTING" /\ UNCHANGED <<issued, boot>>
  BY DEF EnterReboot, HandlerFrame, machineVars
<1>2. CASE Raise("preflight-failed")
  BY <1>1, <1>2, RaiseKeeps DEF IInv, ErrorKinds, HandlerSteps
<1>3. CASE pc' = "reboot.prepare" /\ UNCHANGED <<disk, cycle, exc>>
  BY <1>1, <1>3 DEF IInv, Core, EngineTypes, Places, HandlerSteps, BootFacts, BudgetFacts,
                    Position, Memory, OnRecordedBoot, Entries, State, Working
<1> QED BY <1>2, <1>3 DEF EnterReboot

\* The attempt is counted, and the boot it leaves recorded, before the command.
LEMMA PrepareRebootKeeps ==
  ASSUME IInv, PrepareReboot
  PROVE  Core'
<1>1. pc = "reboot.prepare" /\ UNCHANGED <<issued, boot>>
  BY DEF PrepareReboot, HandlerFrame, machineVars
<1>2. CASE Raise("reboot-failed")
  BY <1>1, <1>2, RaiseKeeps DEF IInv, ErrorKinds, HandlerSteps
<1>3. CASE /\ disk.reboot_attempts < MaxAttempts
           /\ disk' = [disk EXCEPT !.boot_id_before = boot,
                                   !.boot_id_after = 0,
                                   !.reboot_attempts = @ + 1]
           /\ pc' = "reboot.command"
           /\ UNCHANGED <<cycle, exc>>
  <2> DEFINE n == disk.reboot_attempts + 1
  <2> DEFINE d1 == [disk EXCEPT !.boot_id_before = boot]
  <2> DEFINE d2 == [d1 EXCEPT !.boot_id_after = 0]
  <2> DEFINE d3 == [d2 EXCEPT !.reboot_attempts = n]
  <2>1. /\ disk \in Cycle /\ boot \in 1 .. MaxBoots /\ disk.state = "REBOOTING"
        /\ cycle.run_id = disk.run_id /\ disk.run_id # 0
    BY <1>1 DEF IInv, Core, EngineTypes, Position, BootFacts, BootId, Memory, Working, HandlerSteps
  <2>2. /\ n \in 0 .. MaxAttempts
        /\ issued < n
    BY <1>3, <2>1, BoundsAssumption DEF Cycle, IInv, Core, BudgetFacts, EngineTypes
  <2>3. disk' = d3
    BY <1>3, <2>1 DEF Cycle
  <2> HIDE DEF n
  <2>4. d1 \in Cycle
    BY <2>1, SetBootBefore
  <2>5. d1.run_id = disk.run_id /\ d1.state = disk.state /\ d1.boot_id_before = boot
    BY <2>1 DEF Cycle
  <2> HIDE DEF d1
  <2>6. d2 \in Cycle
    BY <2>1, <2>4, SetBootAfter, BoundsAssumption
  <2>7. /\ d2.run_id = disk.run_id /\ d2.state = disk.state /\ d2.boot_id_before = boot
        /\ d2.boot_id_after = 0
    BY <2>4, <2>5 DEF Cycle
  <2> HIDE DEF d2
  <2>8. d3 \in Cycle
    BY <2>2, <2>6, SetAttempts
  <2>9. /\ d3.run_id = disk.run_id /\ d3.state = "REBOOTING" /\ d3.boot_id_before = boot
        /\ d3.boot_id_after = 0 /\ d3.reboot_attempts = n
    BY <2>1, <2>6, <2>7 DEF Cycle
  <2> HIDE DEF d3
  <2>10. EngineTypes'
    BY <1>1, <1>3, <2>3, <2>8 DEF IInv, Core, EngineTypes, Places, HandlerSteps
  <2>11. BootFacts' /\ BudgetFacts'
    BY <1>1, <2>1, <2>2, <2>3, <2>9
    DEF IInv, Core, BootFacts, BudgetFacts, EngineTypes, TerminalStates
  <2>12. Position' /\ Memory' /\ OnRecordedBoot'
    BY <1>1, <1>3, <2>1, <2>2, <2>3, <2>9
    DEF Position, Memory, OnRecordedBoot, Entries, State, Working
  <2> QED BY <2>10, <2>11, <2>12 DEF Core
<1> QED BY <1>2, <1>3 DEF PrepareReboot

\* The command is one more of those the disk already counts.
LEMMA CommandRebootKeeps ==
  ASSUME IInv, CommandReboot
  PROVE  Core'
<1>1. /\ pc = "reboot.command" /\ issued' = issued + 1 /\ UNCHANGED <<disk, boot>>
  BY DEF CommandReboot, machineVars
<1>2. /\ disk \in Cycle /\ issued \in Nat /\ disk.state = "REBOOTING"
      /\ disk.boot_id_before = boot /\ issued < disk.reboot_attempts
      /\ disk.boot_id_after = 0
  BY <1>1 DEF IInv, Core, EngineTypes, Position, OnRecordedBoot, BootFacts,
              PostRebootResumable, TerminalStates
<1>3. issued + 1 <= disk.reboot_attempts /\ disk.reboot_attempts \in 0 .. MaxAttempts
  BY <1>2 DEF Cycle
<1>4. BootFacts' /\ BudgetFacts'
  BY <1>1, <1>2, <1>3, BoundsAssumption DEF IInv, Core, BootFacts, BudgetFacts
<1>5. CASE Exit
  <2>1. Idle \in Cycle
    BY FreshCycleType, BoundsAssumption DEF Idle
  <2>2. pc' = "down" /\ cycle' = Idle /\ exc' = "none"
    BY <1>5 DEF Exit
  <2>3. EngineTypes'
    BY <1>1, <2>1, <2>2 DEF IInv, Core, EngineTypes, Places, HandlerSteps, ErrorKinds
  <2> QED BY <1>4, <2>2, <2>3 DEF Core, Position, Memory, OnRecordedBoot, Entries, State,
                                  Working, HandlerSteps
<1>6. CASE pc' = "reboot.prepare" /\ UNCHANGED <<cycle, exc>>
  <2>1. EngineTypes'
    BY <1>1, <1>6 DEF IInv, Core, EngineTypes, Places, HandlerSteps
  <2> QED BY <1>1, <1>2, <1>4, <1>6, <2>1
          DEF IInv, Core, Position, Memory, OnRecordedBoot, Entries, State, Working, HandlerSteps
<1> QED BY <1>5, <1>6 DEF CommandReboot

\* A save that leaves the state and the reboot's facts alone.
LEMMA SaveKeeps ==
  ASSUME Core, disk' \in Cycle, SameFacts(disk'), disk'.state = disk.state,
         UNCHANGED <<issued, boot>>
  PROVE  BootFacts' /\ BudgetFacts'
BY DEF Core, SameFacts, BootFacts, BudgetFacts

\* A verified reboot is saved with the boot that runs, a later one.
LEMMA VerifyRebootedKeeps ==
  ASSUME IInv, VerifyRebooted
  PROVE  Core'
<1>1. pc = "POST_REBOOT" /\ UNCHANGED <<issued, boot>>
  BY DEF VerifyRebooted, HandlerFrame, machineVars
<1>2. CASE Raise("reboot-failed")
  BY <1>1, <1>2, RaiseKeeps DEF IInv, ErrorKinds, HandlerSteps
<1>3. CASE /\ cycle.boot_id_before \notin {0, boot}
           /\ disk' = [cycle EXCEPT !.boot_id_after = boot]
           /\ pc' = "after_reboot"
           /\ UNCHANGED <<cycle, exc>>
  <2> DEFINE d == [cycle EXCEPT !.boot_id_after = boot]
  <2>1. /\ cycle \in Cycle /\ cycle = disk /\ disk.state = "POST_REBOOT"
        /\ boot \in 1 .. MaxBoots /\ disk.run_id # 0
    BY <1>1 DEF IInv, Core, EngineTypes, Position, Memory, BootFacts, BootId, Entries, State
  <2>2. d \in Cycle
    BY <2>1, SetBootAfter
  <2>3. /\ d.state = "POST_REBOOT" /\ d.run_id = disk.run_id
        /\ d.boot_id_before = disk.boot_id_before /\ d.boot_id_after = boot
    BY <2>1 DEF Cycle
  <2>4. disk' = d
    BY <1>3
  <2> HIDE DEF d
  <2>5. disk.boot_id_before \in 1 .. boot - 1
    BY <1>3, <2>1 DEF IInv, Core, BootFacts, Cycle
  <2>6. issued = 0
    BY <2>1, <2>5 DEF IInv, Core, BudgetFacts, EngineTypes
  <2>7. EngineTypes'
    BY <1>1, <1>3, <2>2, <2>4 DEF IInv, Core, EngineTypes, Places, HandlerSteps
  <2>8. BootFacts' /\ BudgetFacts'
    BY <1>1, <2>1, <2>3, <2>4, <2>5, <2>6
    DEF IInv, Core, BootFacts, BudgetFacts, PostRebootResumable
  <2>9. Position' /\ Memory' /\ OnRecordedBoot'
    BY <1>1, <1>3, <2>1, <2>3, <2>4
    DEF Position, Memory, OnRecordedBoot, Entries, State, Working
  <2> QED BY <2>7, <2>8, <2>9 DEF Core
<1> QED BY <1>2, <1>3 DEF VerifyRebooted

\* No command was issued on the boot that a reboot led to, so the budget starts
\* afresh with the cycle.
LEMMA AfterRebootKeeps ==
  ASSUME IInv, AfterReboot
  PROVE  Core'
<1>1. pc = "after_reboot" /\ UNCHANGED <<issued, boot>>
  BY DEF AfterReboot, HandlerFrame, machineVars
<1>2. /\ disk \in Cycle /\ disk.state = "POST_REBOOT" /\ disk.boot_id_after = boot
      /\ boot \in 1 .. MaxBoots /\ issued \in Nat /\ disk.run_id # 0 /\ pc \in HandlerSteps
  BY <1>1 DEF IInv, Core, EngineTypes, Position, OnRecordedBoot, BootFacts, BootId, HandlerSteps
<1>3. issued = 0
  BY <1>2 DEF IInv, Core, BudgetFacts
<1>4. CASE MoveTo(disk, "VERIFYING")
  BY <1>1, <1>2, <1>4, ForwardKeeps
  DEF SameFacts, Entries, State, PostRebootResumable, BeforeReboot
<1>5. CASE MoveTo([disk EXCEPT !.reboot_before_updates = FALSE,
                               !.initial_reboot_completed = TRUE,
                               !.boot_id_before = boot,
                               !.boot_id_after = 0,
                               !.reboot_attempts = 0], "PRECHECK")
  <2> DEFINE c1 == [disk EXCEPT !.reboot_before_updates = FALSE, !.initial_reboot_completed = TRUE]
  <2> DEFINE c2 == [c1 EXCEPT !.boot_id_before = boot]
  <2> DEFINE c3 == [c2 EXCEPT !.boot_id_after = 0]
  <2> DEFINE c4 == [c3 EXCEPT !.reboot_attempts = 0]
  <2>1. MoveTo(c4, "PRECHECK")
    BY <1>5
  <2>2. c1 \in Cycle /\ c1.run_id = disk.run_id
    BY <1>2 DEF Cycle
  <2> HIDE DEF c1
  <2>3. c2 \in Cycle
    BY <1>2, <2>2, SetBootBefore
  <2>4. c2.run_id = disk.run_id /\ c2.boot_id_before = boot
    BY <2>2 DEF Cycle
  <2> HIDE DEF c2
  <2>5. c3 \in Cycle
    BY <2>3, SetBootAfter, BoundsAssumption
  <2>6. c3.run_id = disk.run_id /\ c3.boot_id_before = boot /\ c3.boot_id_after = 0
    BY <2>3, <2>4 DEF Cycle
  <2> HIDE DEF c3
  <2>7. c4 \in Cycle
    BY <2>5, SetAttempts, BoundsAssumption
  <2>8. c4.run_id = disk.run_id /\ c4.boot_id_before = boot /\ c4.boot_id_after = 0
    BY <2>5, <2>6 DEF Cycle
  <2> HIDE DEF c4
  <2>9. FitsState(c4, "PRECHECK")
    BY <1>2, <1>3, <2>8 DEF FitsState
  <2> QED BY <1>1, <1>2, <2>1, <2>7, <2>9, MoveToKeeps DEF IInv, Entries, State
<1> QED BY <1>4, <1>5 DEF AfterReboot

\* The result of the verification is saved, passed or not.
LEMMA VerifyPackagesKeeps ==
  ASSUME IInv, VerifyPackages
  PROVE  Core'
<1>1. pc = "VERIFYING" /\ UNCHANGED <<issued, boot>>
  BY DEF VerifyPackages, HandlerFrame, machineVars
<1>2. cycle \in Cycle /\ cycle = disk /\ disk.state = "VERIFYING" /\ pc \in HandlerSteps
  BY <1>1, EntryFacts DEF Entries, State, HandlerSteps
<1>3. CASE Raise("preflight-failed")
  BY <1>1, <1>2, <1>3, RaiseKeeps DEF IInv, ErrorKinds
<1>4. CASE /\ UNCHANGED cycle
           /\ \/ pc' = "verified" /\ exc' = exc
              \/ pc' = "fail" /\ exc' = "verify-failed"
           /\ disk' = [cycle EXCEPT !.verify_passed = (pkgs = "current")]
  <2>1. ASSUME NEW x \in BOOLEAN
        PROVE  LET d == [cycle EXCEPT !.verify_passed = x]
               IN  d \in Cycle /\ d.state = disk.state /\ SameFacts(d)
    BY <1>2 DEF Cycle, SameFacts
  <2>2. disk' \in Cycle /\ disk'.state = "VERIFYING" /\ SameFacts(disk')
    BY <1>2, <1>4, <2>1
  <2>3. EngineTypes'
    BY <1>1, <1>4, <2>2 DEF IInv, Core, EngineTypes, Places, HandlerSteps, ErrorKinds
  <2>4. BootFacts' /\ BudgetFacts'
    BY <1>1, <1>2, <1>4, <2>2, SaveKeeps DEF IInv
  <2>5. Position' /\ Memory' /\ OnRecordedBoot'
    BY <1>1, <1>2, <1>4, <2>2
    DEF SameFacts, Position, Memory, OnRecordedBoot, Entries, State, Working, TerminalStates
  <2> QED BY <2>3, <2>4, <2>5 DEF Core
<1> QED BY <1>3, <1>4 DEF VerifyPackages

\* Verification moves on with what it saved.
LEMMA PackagesVerifiedKeeps ==
  ASSUME IInv, PackagesVerified
  PROVE  Core'
<1>1. pc = "verified" /\ UNCHANGED <<issued, boot>> /\ MoveTo(disk, "HEALTH_CHECKING")
  BY DEF PackagesVerified, HandlerFrame, machineVars
<1>2. pc \in HandlerSteps /\ disk \in Cycle /\ disk.state = "VERIFYING"
  BY <1>1 DEF HandlerSteps, IInv, Core, EngineTypes, Position
<1> QED BY <1>1, <1>2, ForwardKeeps
        DEF SameFacts, Entries, State, PostRebootResumable, BeforeReboot

\* Health checks move the cycle on, whatever they find.
LEMMA CheckHealthKeeps ==
  ASSUME IInv, CheckHealth
  PROVE  Core'
<1>1. pc = "HEALTH_CHECKING" /\ UNCHANGED <<issued, boot>>
  BY DEF CheckHealth, HandlerFrame, machineVars
<1>2. /\ cycle \in Cycle /\ cycle = disk /\ disk.state = "HEALTH_CHECKING"
      /\ pc \in HandlerSteps
  BY <1>1, EntryFacts DEF Entries, State, HandlerSteps
<1>3. ASSUME NEW h \in {"ok", "warning", "critical"}, NEW e \in ErrorKinds
      PROVE  LET c == [cycle EXCEPT !.health_results = h, !.error = e]
             IN  c \in Cycle /\ SameFacts(c)
  BY <1>2 DEF Cycle, SameFacts
<1>4. PICK health \in {"ok", "warning", "critical"} :
        MoveTo([cycle EXCEPT !.health_results = health,
                             !.error = IF health = "critical"
                                       THEN "health-check-failed" ELSE @], "NOTIFYING")
  BY DEF CheckHealth
<1> DEFINE e == IF health = "critical" THEN "health-check-failed" ELSE cycle.error
<1> DEFINE c == [cycle EXCEPT !.health_results = health, !.error = e]
<1>5. e \in ErrorKinds
  BY <1>2 DEF Cycle, ErrorKinds
<1>6. MoveTo(c, "NOTIFYING")
  BY <1>4
<1> HIDE DEF e
<1>7. c \in Cycle /\ SameFacts(c)
  BY <1>3, <1>5
<1> HIDE DEF c
<1> QED BY <1>1, <1>2, <1>6, <1>7, ForwardKeeps
        DEF Entries, State, PostRebootResumable, BeforeReboot

\* The final outcome is an outcome.
LEMMA FinalOutcomeType ==
  ASSUME NEW c
  PROVE  FinalOutcome(c) \in Outcomes
BY DEF FinalOutcome, Outcomes

\* Setting the outcome changes nothing the invariant reads.
LEMMA SetOutcome ==
  ASSUME NEW c \in Cycle, NEW o \in Outcomes
  PROVE  LET d == [c EXCEPT !.outcome = o]
         IN  /\ d \in Cycle
             /\ d.state = c.state
             /\ d.run_id = c.run_id
             /\ d.boot_id_before = c.boot_id_before
             /\ d.boot_id_after = c.boot_id_after
             /\ d.reboot_attempts = c.reboot_attempts
BY DEF Cycle

\* Setting the notification status changes nothing the invariant reads.
LEMMA SetNotificationStatus ==
  ASSUME NEW c \in Cycle, NEW s \in [Notifiers -> DeliveryStatus]
  PROVE  LET d == [c EXCEPT !.notification_status = s]
         IN  /\ d \in Cycle
             /\ d.state = c.state
             /\ d.run_id = c.run_id
             /\ d.boot_id_before = c.boot_id_before
             /\ d.boot_id_after = c.boot_id_after
             /\ d.reboot_attempts = c.reboot_attempts
BY DEF Cycle

\* The outcome is saved before the report.
LEMMA SaveOutcomeKeeps ==
  ASSUME IInv, SaveOutcome
  PROVE  Core'
<1>1. /\ pc = "NOTIFYING" /\ pc' = "notify.report" /\ UNCHANGED <<cycle, exc, issued, boot>>
      /\ disk' = [cycle EXCEPT !.outcome = FinalOutcome(cycle)]
  BY DEF SaveOutcome, HandlerFrame, machineVars
<1>2. cycle \in Cycle /\ cycle = disk /\ disk.state = "NOTIFYING" /\ pc \in HandlerSteps
  BY <1>1, EntryFacts DEF Entries, State, HandlerSteps
<1>3. disk' \in Cycle /\ disk'.state = "NOTIFYING" /\ SameFacts(disk')
  BY <1>1, <1>2, SetOutcome, FinalOutcomeType DEF SameFacts
<1>4. EngineTypes'
  BY <1>1, <1>3 DEF IInv, Core, EngineTypes, Places, HandlerSteps
<1>5. BootFacts' /\ BudgetFacts'
  BY <1>1, <1>2, <1>3, SaveKeeps DEF IInv
<1>6. Position' /\ Memory' /\ OnRecordedBoot'
  BY <1>1, <1>2, <1>3
  DEF SameFacts, Position, Memory, OnRecordedBoot, Entries, State, Working
<1> QED BY <1>4, <1>5, <1>6 DEF Core

\* The steps of the delivery loop that leave the cycle alone.
LEMMA DeliveryLoopKeeps ==
  ASSUME IInv, UNCHANGED <<disk, cycle, exc, issued, boot>>,
         \/ pc = "notify.report" /\ pc' = "notify.deliver"
         \/ pc = "notify.deliver" /\ pc' = "notify.record"
         \/ pc = "fail.report" /\ pc' = "fail.deliver"
         \/ pc = "fail.deliver" /\ pc' = "fail.deliver"
  PROVE  Core'
BY DEF IInv, Core, EngineTypes, Places, HandlerSteps, BootFacts, BudgetFacts,
       Position, Memory, OnRecordedBoot, Entries, State, Working

\* Each delivery is recorded in a cycle that stays in NOTIFYING.
LEMMA RecordDeliveryKeeps ==
  ASSUME IInv, RecordDelivery
  PROVE  Core'
<1>1. /\ pc = "notify.record" /\ pc' = "notify.deliver" /\ UNCHANGED <<cycle, exc, issued, boot>>
      /\ disk' = [disk EXCEPT !.notification_status = status]
  BY DEF RecordDelivery, HandlerFrame, machineVars
<1>2. /\ disk \in Cycle /\ disk.state = "NOTIFYING" /\ cycle.run_id = disk.run_id
      /\ status \in [Notifiers -> DeliveryStatus]
  BY <1>1 DEF IInv, Core, EngineTypes, OtherTypes, Position, Memory, Working, HandlerSteps
<1>3. disk' \in Cycle /\ disk'.state = "NOTIFYING" /\ SameFacts(disk')
  BY <1>1, <1>2, SetNotificationStatus DEF SameFacts
<1>4. EngineTypes'
  BY <1>1, <1>3 DEF IInv, Core, EngineTypes, Places, HandlerSteps
<1>5. BootFacts' /\ BudgetFacts'
  BY <1>1, <1>2, <1>3, SaveKeeps DEF IInv
<1>6. Position' /\ Memory' /\ OnRecordedBoot'
  BY <1>1, <1>2, <1>3
  DEF SameFacts, Position, Memory, OnRecordedBoot, Entries, State, Working
<1> QED BY <1>4, <1>5, <1>6 DEF Core

\* A notified cycle completes.
LEMMA NotifiedKeeps ==
  ASSUME IInv, Notified
  PROVE  Core'
<1>1. pc = "notify.deliver" /\ UNCHANGED <<issued, boot>> /\ MoveTo(disk, "COMPLETED")
  BY DEF Notified, HandlerFrame, machineVars
<1>2. pc \in HandlerSteps /\ disk \in Cycle /\ disk.state = "NOTIFYING"
  BY <1>1 DEF HandlerSteps, IInv, Core, EngineTypes, Position
<1> QED BY <1>1, <1>2, ForwardKeeps
        DEF SameFacts, Entries, State, PostRebootResumable, BeforeReboot

\* A completed cycle is saved once more and put away.
LEMMA CompleteKeeps ==
  ASSUME IInv, Complete
  PROVE  Core'
<1>1. /\ pc = "COMPLETED" /\ pc' = "archive" /\ UNCHANGED <<exc, issued, boot>>
      /\ disk' = [cycle EXCEPT !.outcome = FinalOutcome(cycle)] /\ cycle' = disk'
  BY DEF Complete, HandlerFrame, machineVars
<1>2. cycle \in Cycle /\ cycle = disk /\ disk.state = "COMPLETED"
  BY <1>1 DEF IInv, Core, EngineTypes, Position, Memory, Entries, State
<1>3. disk' \in Cycle /\ disk'.state = "COMPLETED" /\ SameFacts(disk')
  BY <1>1, <1>2, SetOutcome, FinalOutcomeType DEF SameFacts
<1>4. EngineTypes'
  BY <1>1, <1>3 DEF IInv, Core, EngineTypes, Places
<1>5. BootFacts' /\ BudgetFacts'
  BY <1>1, <1>2, <1>3, SaveKeeps DEF IInv
<1>6. Position' /\ Memory' /\ OnRecordedBoot'
  BY <1>1, <1>2, <1>3
  DEF Position, Memory, OnRecordedBoot, Entries, State, Working, TerminalStates, HandlerSteps
<1> QED BY <1>4, <1>5, <1>6 DEF Core

-----------------------------------------------------------------------------
(* The failure path and the archive.                                        *)

\* The cycle that fails is the one on disk: the run ids agree.
LEMMA FailKeeps ==
  ASSUME IInv, Fail
  PROVE  Core'
<1>1. cycle.run_id = disk.run_id /\ disk \in Cycle /\ disk.run_id # 0 /\ pc = "fail"
  BY DEF Fail, IInv, Core, EngineTypes, Position, Memory, Working, BootFacts
<1>2. /\ disk' = [disk EXCEPT !.state = "FAILED"] /\ cycle' = disk'
      /\ pc' = "fail.record" /\ UNCHANGED <<exc, issued, boot>>
  BY <1>1 DEF Fail, machineVars
<1>3. /\ disk' \in Cycle /\ disk'.state = "FAILED" /\ SameFacts(disk')
  <2>1. disk' \in Cycle
    BY <1>1, <1>2, SetState DEF State
  <2> QED BY <1>1, <1>2, <2>1 DEF Cycle, SameFacts
<1>4. EngineTypes'
  BY <1>2, <1>3 DEF IInv, Core, EngineTypes, Places
<1>5. BootFacts' /\ BudgetFacts'
  BY <1>1, <1>2, <1>3
  DEF IInv, Core, SameFacts, BootFacts, BudgetFacts, TerminalStates
<1>6. Position' /\ Memory' /\ OnRecordedBoot'
  BY <1>2, <1>3 DEF Position, Memory, OnRecordedBoot, Entries, State
<1> QED BY <1>4, <1>5, <1>6 DEF Core

\* The error is recorded in the cycle that failed.
LEMMA RecordErrorKeeps ==
  ASSUME IInv, RecordError
  PROVE  Core'
<1> DEFINE o == IF exc = "preflight-failed" THEN "BLOCKED" ELSE "FAILED"
<1> DEFINE c == [cycle EXCEPT !.error = exc, !.outcome = o]
<1>1. /\ pc = "fail.record" /\ cycle = disk /\ cycle \in Cycle /\ exc \in ErrorKinds
      /\ disk.state = "FAILED"
  BY DEF RecordError, IInv, Core, EngineTypes, Position, Memory
<1>2. /\ disk' = c /\ cycle' = c /\ pc' = "fail.hooks" /\ UNCHANGED <<exc, issued, boot>>
  BY DEF RecordError, HandlerFrame, machineVars
<1>3. o \in Outcomes
  BY DEF Outcomes
<1> HIDE DEF o
<1>4. c \in Cycle /\ c.state = "FAILED" /\ SameFacts(c)
  BY <1>1, <1>3 DEF Cycle, SameFacts
<1> HIDE DEF c
<1>5. EngineTypes'
  BY <1>2, <1>4 DEF IInv, Core, EngineTypes, Places
<1>6. BootFacts' /\ BudgetFacts'
  BY <1>1, <1>2, <1>4, SaveKeeps DEF IInv
<1>7. Position' /\ Memory' /\ OnRecordedBoot'
  BY <1>2, <1>4 DEF Position, Memory, OnRecordedBoot, Entries, State
<1> QED BY <1>5, <1>6, <1>7 DEF Core

\* The hooks for a failure change nothing that is recorded.
LEMMA FailureHooksKeeps ==
  ASSUME IInv, FailureHooks
  PROVE  Core'
<1>1. pc = "fail.hooks" /\ pc' = "fail.report" /\ UNCHANGED <<disk, cycle, exc, issued, boot>>
  BY DEF FailureHooks, HandlerFrame, machineVars
<1>2. EngineTypes' /\ BootFacts' /\ BudgetFacts'
  BY <1>1 DEF IInv, Core, EngineTypes, BootFacts, BudgetFacts, Places
<1>3. Position' /\ Memory' /\ OnRecordedBoot'
  BY <1>1 DEF IInv, Core, Position, Memory, OnRecordedBoot, Working, HandlerSteps, Entries, State
<1> QED BY <1>2, <1>3 DEF Core

\* The deliveries of a failure are recorded before the archive.
LEMMA FailureNotifiedKeeps ==
  ASSUME IInv, FailureNotified
  PROVE  Core'
<1>1. /\ pc = "fail.deliver" /\ pc' = "archive" /\ UNCHANGED <<exc, issued, boot>>
      /\ disk' = [cycle EXCEPT !.notification_status = status] /\ cycle' = disk'
  BY DEF FailureNotified, HandlerFrame, machineVars
<1>2. /\ cycle \in Cycle /\ cycle = disk /\ disk.state = "FAILED"
      /\ status \in [Notifiers -> DeliveryStatus]
  BY <1>1 DEF IInv, Core, EngineTypes, OtherTypes, Position, Memory
<1>3. disk' \in Cycle /\ disk'.state = "FAILED" /\ SameFacts(disk')
  BY <1>1, <1>2, SetNotificationStatus DEF SameFacts
<1>4. EngineTypes'
  BY <1>1, <1>3 DEF IInv, Core, EngineTypes, Places
<1>5. BootFacts' /\ BudgetFacts'
  BY <1>1, <1>2, <1>3, SaveKeeps DEF IInv
<1>6. Position' /\ Memory' /\ OnRecordedBoot'
  BY <1>1, <1>2, <1>3
  DEF Position, Memory, OnRecordedBoot, Entries, State, Working, TerminalStates, HandlerSteps
<1> QED BY <1>4, <1>5, <1>6 DEF Core

\* Writing the archive leaves state.json alone.
LEMMA ArchiveKeeps ==
  ASSUME IInv, Archive
  PROVE  Core'
<1>1. /\ pc \in {"archive", "rearchive"} /\ pc' \in {"reset", "rereset"}
      /\ UNCHANGED <<disk, cycle, exc, issued, boot>>
  BY DEF Archive, machineVars
<1> QED BY <1>1 DEF IInv, Core, EngineTypes, Places, HandlerSteps, BootFacts, BudgetFacts,
                    Position, Memory, OnRecordedBoot, Entries, State, Working

\* The process ends, whatever became of the cycle.
LEMMA ExitKeeps ==
  ASSUME IInv, Exit, disk' \in Cycle, issued' \in Nat, boot' \in BootId,
         BootFacts', BudgetFacts'
  PROVE  Core'
<1>1. pc' = "down" /\ cycle' \in Cycle /\ exc' \in ErrorKinds
  BY FreshCycleType, BoundsAssumption DEF Exit, Idle, ErrorKinds
<1>2. EngineTypes'
  BY <1>1 DEF EngineTypes, Places
<1>3. Position' /\ Memory' /\ OnRecordedBoot'
  BY <1>1 DEF Position, Memory, OnRecordedBoot, Entries, State, Working, HandlerSteps
<1> QED BY <1>2, <1>3 DEF Core

\* The absence of a cycle says nothing of a boot.
LEMMA IdleFacts ==
  ASSUME IInv, disk' = Idle, UNCHANGED <<issued, boot>>
  PROVE  disk' \in Cycle /\ BootFacts' /\ BudgetFacts' /\ disk'.state = "IDLE"
<1>1. Idle \in Cycle
  BY FreshCycleType, BoundsAssumption DEF Idle
<1>2. /\ Idle.state = "IDLE" /\ Idle.run_id = 0 /\ Idle.boot_id_before = 0
      /\ Idle.boot_id_after = 0
  BY DEF Idle, FreshCycle
<1>3. boot \in 1 .. MaxBoots
  BY DEF IInv, Core, EngineTypes, BootId
<1> QED BY <1>1, <1>2, <1>3 DEF IInv, Core, BootFacts, BudgetFacts

\* The process ends with the cycle put away.
LEMMA ResetKeeps ==
  ASSUME IInv, Reset
  PROVE  Core'
<1>1. disk' = Idle /\ Exit /\ UNCHANGED <<issued, boot>>
  BY DEF Reset, machineVars
<1> QED BY <1>1, IdleFacts, ExitKeeps DEF IInv, Core, EngineTypes

\* run() puts a terminal cycle away and goes on.
LEMMA ResetForNewCycleKeeps ==
  ASSUME IInv, ResetForNewCycle
  PROVE  Core'
<1>1. disk' = Idle /\ pc' = "new" /\ UNCHANGED <<cycle, exc, issued, boot>>
  BY DEF ResetForNewCycle, HandlerFrame, machineVars
<1>2. disk' \in Cycle /\ BootFacts' /\ BudgetFacts' /\ disk'.state = "IDLE"
  BY <1>1, IdleFacts
<1>3. EngineTypes'
  BY <1>1, <1>2 DEF IInv, Core, EngineTypes, Places
<1>4. Position' /\ Memory' /\ OnRecordedBoot'
  BY <1>1, <1>2 DEF Position, Memory, OnRecordedBoot, Entries, State, Working, HandlerSteps
<1> QED BY <1>2, <1>3, <1>4 DEF Core

\* A new cycle has recorded no boot and issued no command.
LEMMA NewCycleKeeps ==
  ASSUME IInv, NewCycle
  PROVE  Core'
<1>1. pc = "new" /\ UNCHANGED boot /\ boot \in 1 .. MaxBoots
  BY DEF NewCycle, machineVars, IInv, Core, EngineTypes, BootId
<1>2. CASE Exit /\ UNCHANGED <<disk, issued>>
  BY <1>1, <1>2, ExitKeeps DEF IInv, Core, EngineTypes, BootFacts, BudgetFacts
<1>3. CASE started < MaxRuns /\ MoveTo(FreshCycle(started + 1), "PRECHECK") /\ issued' = 0
  <2> DEFINE r == started + 1
  <2> DEFINE c == FreshCycle(r)
  <2> DEFINE d == [c EXCEPT !.state = "PRECHECK"]
  <2>1. r \in 0 .. MaxRuns /\ r # 0
    BY <1>3, BoundsAssumption DEF IInv, OtherTypes
  <2>2. c \in Cycle
    BY <2>1, FreshCycleType
  <2>3. /\ c.state = "IDLE" /\ c.run_id = r /\ c.boot_id_before = 0 /\ c.boot_id_after = 0
    BY DEF FreshCycle
  <2>4. IsLegalTransition("IDLE", "PRECHECK")
    BY DEF IsLegalTransition, Transitions, State
  <2>5. disk' = d /\ cycle' = d /\ pc' = "PRECHECK" /\ exc' = exc
    BY <1>3, <2>3, <2>4 DEF MoveTo
  <2> HIDE DEF c
  <2>6. d \in Cycle
    BY <2>2, SetState DEF State
  <2>7. d.state = "PRECHECK" /\ d.run_id = r /\ d.boot_id_before = 0 /\ d.boot_id_after = 0
    BY <2>2, <2>3 DEF Cycle
  <2> HIDE DEF d, r
  <2>8. EngineTypes'
    BY <1>1, <1>3, <2>5, <2>6 DEF IInv, Core, EngineTypes, Places, HandlerSteps
  <2>9. BootFacts' /\ BudgetFacts'
    BY <1>1, <1>3, <2>1, <2>5, <2>7, BoundsAssumption DEF BootFacts, BudgetFacts
  <2>10. Position' /\ Memory' /\ OnRecordedBoot'
    BY <2>5, <2>7 DEF Position, Memory, OnRecordedBoot, Entries, State
  <2> QED BY <2>8, <2>9, <2>10 DEF Core
<1> QED BY <1>2, <1>3 DEF NewCycle

-----------------------------------------------------------------------------
(* A process starts on the cycle it loads.                                  *)

\* A process may fail any active cycle it loads.
LEMMA FailLoadedKeeps ==
  ASSUME IInv, disk.state \notin TerminalStates \cup {"IDLE"}, NEW kind \in ErrorKinds,
         FailLoaded(kind), UNCHANGED <<issued, boot>>
  PROVE  Core'
<1>1. pc' = "fail" /\ exc' = kind /\ cycle' = disk /\ disk' = disk
  BY DEF FailLoaded
<1>2. EngineTypes'
  BY <1>1 DEF IInv, Core, EngineTypes, Places
<1>3. BootFacts' /\ BudgetFacts'
  BY <1>1 DEF IInv, Core, BootFacts, BudgetFacts
<1>4. Position' /\ Memory' /\ OnRecordedBoot'
  BY <1>1 DEF Position, Memory, OnRecordedBoot, Entries, State
<1> QED BY <1>2, <1>3, <1>4 DEF Core

\* What a loaded cycle must say for a process to drive it from the state s.
LEMMA DriveFromKeeps ==
  ASSUME IInv, pc = "down", disk.state \notin TerminalStates \cup {"IDLE"},
         NEW s \in Entries,
         disk.boot_id_after # 0 => s \in PostRebootResumable,
         s # "PRECHECK" => disk.boot_id_before # 0,
         s = "PRECHECK" => disk.boot_id_before \in {0, boot},
         s \in BeforeReboot => disk.boot_id_before = boot,
         s = "POST_REBOOT" => disk.boot_id_before < boot,
         DriveFrom(s), UNCHANGED <<issued, boot>>
  PROVE  Core'
<1> DEFINE d == [disk EXCEPT !.state = s]
<1>1. disk \in Cycle /\ boot \in BootId /\ disk.run_id # 0
  BY DEF IInv, Core, EngineTypes, BootFacts
<1>2. CASE disk' = d /\ cycle' = d /\ pc' = s /\ exc' = exc
  <2>1. d \in Cycle
    BY <1>1, SetState DEF Entries
  <2>2. d.state = s /\ SameFacts(d)
    BY <1>1 DEF Cycle, SameFacts
  <2> HIDE DEF d
  <2>3. EngineTypes'
    BY <1>2, <2>1 DEF IInv, Core, EngineTypes, Places, Entries, State, HandlerSteps
  <2>4. BootFacts'
    BY <1>1, <1>2, <2>2 DEF SameFacts, IInv, Core, BootFacts, Entries, State
  <2>5. BudgetFacts'
    BY <1>2, <2>2 DEF SameFacts, IInv, Core, BudgetFacts
  <2>6. Position' /\ Memory'
    BY <1>2, <2>2 DEF Position, Memory, Entries, State
  <2>7. OnRecordedBoot'
    BY <1>2, <2>2 DEF SameFacts, OnRecordedBoot, Entries, State, BeforeReboot
  <2> QED BY <2>3, <2>4, <2>5, <2>6, <2>7 DEF Core
<1>3. CASE UNCHANGED <<disk, engineVars>>
  BY <1>3 DEF engineVars, IInv, Core, EngineTypes, BootFacts, BudgetFacts, Position, Memory,
              OnRecordedBoot
<1> QED BY <1>2, <1>3 DEF DriveFrom

\* What the boot comparison says, on a machine whose boot ids only grow.
LEMMA BootChangedFacts ==
  ASSUME IInv
  PROVE  /\ boot \in BootId /\ boot \in Nat
         /\ disk.boot_id_before \in 0 .. boot
         /\ disk.boot_id_after \in 0 .. boot
         /\ disk.boot_id_after = 0 =>
              (BootChanged(disk) <=> disk.boot_id_before \in 1 .. boot - 1)
         /\ disk.boot_id_after # 0 => (BootChanged(disk) <=> disk.boot_id_after # boot)
<1>1. disk \in Cycle /\ boot \in 1 .. MaxBoots
  BY DEF IInv, Core, EngineTypes, BootId
<1>2. disk.boot_id_before \in 0 .. MaxBoots /\ disk.boot_id_after \in 0 .. MaxBoots
  BY <1>1 DEF Cycle
<1> QED BY <1>1, <1>2, BoundsAssumption DEF IInv, Core, BootFacts, BootChanged, BootId

\* A reboot that never happened is tried again, or fails the cycle.
LEMMA RebootNeverHappenedKeeps ==
  ASSUME IInv, pc = "down", disk.state = "REBOOTING", RebootNeverHappened,
         UNCHANGED <<issued, boot>>
  PROVE  Core'
<1>1. CASE DriveFrom("REBOOTING")
  BY <1>1, DriveFromKeeps DEF IInv, Core, BootFacts, Entries, State, TerminalStates,
                              PostRebootResumable, BeforeReboot
<1>2. CASE FailLoaded("reboot-failed")
  BY <1>2, FailLoadedKeeps DEF ErrorKinds, TerminalStates
<1> QED BY <1>1, <1>2 DEF RebootNeverHappened

\* Each recovery of a loaded cycle satisfies what DriveFromKeeps asks.
LEMMA RecoverSameBootKeeps ==
  ASSUME IInv, pc = "down", disk.state \notin TerminalStates \cup {"IDLE"}, RecoverSameBoot,
         UNCHANGED <<issued, boot>>
  PROVE  Core'
<1>1. disk.state \in State
  BY DEF IInv, Core, EngineTypes, Cycle
<1>2. CASE \E kind \in ErrorKinds : FailLoaded(kind)
  BY <1>2, FailLoadedKeeps
<1>3. CASE /\ BootChanged(disk) /\ disk.boot_id_after = 0
           /\ disk.state \in {"REBOOTING", "POST_REBOOT"}
           /\ DriveFrom("POST_REBOOT")
  <2>1. disk.boot_id_before # 0 /\ disk.boot_id_before < boot
    BY <1>3, BootChangedFacts
  <2> QED BY <1>3, <2>1, DriveFromKeeps DEF Entries, State, BeforeReboot
<1>4. CASE disk.state = "REBOOTING" /\ RebootNeverHappened
  BY <1>4, RebootNeverHappenedKeeps
<1>5. CASE /\ ~BootChanged(disk) /\ disk.state \in SameBootResumable
           /\ DriveFrom(disk.state)
  <2>1. disk.boot_id_before # 0
    BY <1>5 DEF IInv, Core, BootFacts, SameBootResumable
  <2>2. disk.boot_id_after # 0 => disk.state \in PostRebootResumable
    BY DEF IInv, Core, BootFacts, TerminalStates
  <2>3. disk.state \in BeforeReboot => disk.boot_id_before = boot
    BY <1>5, <2>1, <2>2, BootChangedFacts DEF BeforeReboot, PostRebootResumable
  <2>4. disk.state = "POST_REBOOT" => disk.boot_id_before < boot
    BY DEF IInv, Core, BootFacts
  <2> QED BY <1>5, <2>1, <2>2, <2>3, <2>4, DriveFromKeeps DEF SameBootResumable, Entries, State
<1>6. CASE /\ ~BootChanged(disk) /\ disk.state \notin SameBootResumable \cup {"REBOOTING"}
           /\ DriveFrom("PRECHECK")
  <2>1. disk.boot_id_after = 0
    BY <1>6 DEF IInv, Core, BootFacts, SameBootResumable, PostRebootResumable, TerminalStates
  <2>2. disk.boot_id_before \in {0, boot}
    BY <1>6, <2>1, BootChangedFacts
  <2> QED BY <1>6, <2>1, <2>2, DriveFromKeeps DEF Entries, State, BeforeReboot
<1>7. \/ \E kind \in ErrorKinds : FailLoaded(kind)
      \/ /\ BootChanged(disk) /\ disk.boot_id_after = 0
         /\ disk.state \in {"REBOOTING", "POST_REBOOT"}
         /\ DriveFrom("POST_REBOOT")
      \/ disk.state = "REBOOTING" /\ RebootNeverHappened
      \/ /\ ~BootChanged(disk) /\ disk.state \in SameBootResumable
         /\ DriveFrom(disk.state)
      \/ /\ ~BootChanged(disk) /\ disk.state \notin SameBootResumable \cup {"REBOOTING"}
         /\ DriveFrom("PRECHECK")
  <2>1. {"stale-cycle", "unexpected-reboot"} \subseteq ErrorKinds
    BY DEF ErrorKinds
  <2> QED BY <2>1 DEF RecoverSameBoot
<1> QED BY <1>2, <1>3, <1>4, <1>5, <1>6, <1>7

\* run() begins, puts away or recovers.
LEMMA RunKeeps ==
  ASSUME IInv, Run
  PROVE  Core'
<1>1. pc = "down" /\ UNCHANGED <<issued, boot>>
  BY DEF Run, StartFrame, machineVars
<1>2. CASE /\ disk.state \in TerminalStates \cup {"IDLE"}
           /\ \/ disk.state = "IDLE" /\ pc' = "new"
              \/ disk.state \in TerminalStates /\ pc' = "rearchive"
           /\ UNCHANGED <<disk, cycle, exc>>
  BY <1>1, <1>2 DEF IInv, Core, EngineTypes, Places, BootFacts, BudgetFacts, Position, Memory,
                    OnRecordedBoot, Entries, State, Working, HandlerSteps, TerminalStates
<1>3. CASE disk.state \notin TerminalStates \cup {"IDLE"} /\ RecoverSameBoot
  BY <1>1, <1>3, RecoverSameBootKeeps
<1> QED BY <1>2, <1>3 DEF Run

\* resume() puts away, continues, recovers or fails.
LEMMA ResumeKeeps ==
  ASSUME IInv, Resume
  PROVE  Core'
<1> DEFINE target == ResumeTarget(disk.state, BootChanged(disk))
<1>1. pc = "down" /\ UNCHANGED <<issued, boot>>
  BY DEF Resume, StartFrame, machineVars
<1>2. CASE disk.state = "IDLE" /\ UNCHANGED <<disk, engineVars>>
  BY <1>1, <1>2 DEF engineVars, IInv, Core, EngineTypes, BootFacts, BudgetFacts, Position,
                    Memory, OnRecordedBoot
<1>3. CASE disk.state \in TerminalStates /\ pc' = "archive" /\ UNCHANGED <<disk, cycle, exc>>
  BY <1>1, <1>3 DEF IInv, Core, EngineTypes, Places, BootFacts, BudgetFacts, Position, Memory,
                    OnRecordedBoot, Entries, State, Working, HandlerSteps, TerminalStates
<1>4. ASSUME disk.state \notin TerminalStates \cup {"IDLE"}
      PROVE  /\ (\E kind \in ErrorKinds : FailLoaded(kind)) => Core'
             /\ RecoverSameBoot => Core'
             /\ disk.state = "REBOOTING" /\ RebootNeverHappened => Core'
  BY <1>1, <1>4, FailLoadedKeeps, RecoverSameBootKeeps, RebootNeverHappenedKeeps
<1>5. CASE /\ disk.state \notin TerminalStates \cup {"IDLE"} /\ disk.boot_id_after = 0
           /\ target # "NONE" /\ DriveFrom(target)
  <2>1. /\ BootChanged(disk)
        /\ \/ disk.state = "REBOOTING" /\ target = "POST_REBOOT"
           \/ disk.state \in PostRebootResumable /\ target = disk.state
    BY <1>5 DEF ResumeTarget, PostRebootResumable
  <2>2. disk.boot_id_before \in 1 .. boot - 1 /\ target \in PostRebootResumable
    BY <1>5, <2>1, BootChangedFacts DEF PostRebootResumable
  <2> HIDE DEF target
  <2>3. disk.boot_id_before # 0 /\ disk.boot_id_before < boot
    BY <2>2, BootChangedFacts DEF IInv, Core, EngineTypes, BootId
  <2> QED BY <1>1, <1>5, <2>2, <2>3, DriveFromKeeps
          DEF PostRebootResumable, Entries, State, BeforeReboot
<1>6. \/ disk.state = "IDLE" /\ UNCHANGED <<disk, engineVars>>
      \/ disk.state \in TerminalStates /\ pc' = "archive" /\ UNCHANGED <<disk, cycle, exc>>
      \/ /\ disk.state \notin TerminalStates \cup {"IDLE"}
         /\ \/ \E kind \in ErrorKinds : FailLoaded(kind)
            \/ RecoverSameBoot
            \/ disk.state = "REBOOTING" /\ RebootNeverHappened
            \/ disk.boot_id_after = 0 /\ target # "NONE" /\ DriveFrom(target)
  <2>1. {"stale-cycle", "unexpected-reboot"} \subseteq ErrorKinds
    BY DEF ErrorKinds
  <2> QED BY <2>1 DEF Resume
<1> HIDE DEF target
<1> QED BY <1>2, <1>3, <1>4, <1>5, <1>6

\* The death of a process changes nothing on disk.
LEMMA CrashKeeps ==
  ASSUME IInv, Crash
  PROVE  Core'
BY ExitKeeps DEF Crash, IInv, Core, EngineTypes, BootFacts, BudgetFacts

\* Boot ids only grow, so what was recorded of a boot stays in the past.
LEMMA RebootKeeps ==
  ASSUME IInv, Reboot
  PROVE  Core'
<1>1. boot < MaxBoots /\ boot' = boot + 1 /\ issued' = 0 /\ Exit /\ disk' = disk
  BY DEF Reboot
<1>2. disk \in Cycle /\ boot \in 1 .. MaxBoots
  BY DEF IInv, Core, EngineTypes, BootId
<1>3. disk.boot_id_before \in 0 .. MaxBoots /\ disk.boot_id_after \in 0 .. MaxBoots
  BY <1>2 DEF Cycle
<1>4. BootFacts' /\ BudgetFacts'
  BY <1>1, <1>2, <1>3, BoundsAssumption DEF IInv, Core, BootFacts, BudgetFacts
<1> QED BY <1>1, <1>2, <1>4, BoundsAssumption, ExitKeeps DEF BootId

\* Time and the operator change nothing the engine remembers.
LEMMA EnvironmentKeeps ==
  ASSUME IInv, GrowStale \/ EditConfig \/ UNCHANGED vars
  PROVE  Core'
BY DEF GrowStale, EditConfig, vars, engineVars, machineVars, IInv, Core, EngineTypes,
       BootFacts, BudgetFacts, Position, Memory, OnRecordedBoot

-----------------------------------------------------------------------------
(* The types of what the handlers do not change.                            *)

\* A step that changes none of these variables keeps their types.
LEMMA OtherSame ==
  ASSUME OtherTypes,
         UNCHANGED <<history, reports, todo, status, told, stale, pkgs, unbooted, envVars>>
  PROVE  OtherTypes'
BY DEF OtherTypes, envVars

\* A handler that only moves its cycle is such a step.
LEMMA HandlerTypes ==
  ASSUME OtherTypes, HandlerFrame
  PROVE  OtherTypes'
BY OtherSame DEF HandlerFrame, archiveVars, deliveryVars, machineVars

\* So is the start of a process.
LEMMA StartTypes ==
  ASSUME OtherTypes, Run \/ Resume
  PROVE  OtherTypes'
BY OtherSame DEF Run, Resume, StartFrame, archiveVars, deliveryVars, machineVars

\* The end of a process clears its delivery loop.
LEMMA ExitTypes ==
  ASSUME OtherTypes, Exit
  PROVE  todo' \subseteq Notifiers /\ status' \in [Notifiers -> DeliveryStatus]
BY DEF OtherTypes, Exit, DeliveryStatus

\* The steps that move packages, and those that only mark time.
LEMMA PackageTypes ==
  ASSUME IInv, RepairInterrupted \/ Refresh \/ BeginApply \/ EndApply
  PROVE  OtherTypes'
<1>1. UNCHANGED <<history, reports, todo, status, told, stale, envVars>>
  BY DEF RepairInterrupted, Refresh, BeginApply, EndApply, archiveVars, deliveryVars
<1>2. pkgs' \in {"current", "pending", "broken"}
  BY DEF RepairInterrupted, Refresh, BeginApply, EndApply, IInv, OtherTypes
<1>3. unbooted' \in BOOLEAN
  BY DEF RepairInterrupted, Refresh, BeginApply, EndApply, IInv, Core, EngineTypes, OtherTypes, Cycle
<1> QED BY <1>1, <1>2, <1>3 DEF IInv, OtherTypes, envVars

\* A delivery records a result and tells an outcome.
LEMMA DeliverTypes ==
  ASSUME IInv, NEW n \in Notifiers, DeliverTo(n)
  PROVE  status' \in [Notifiers -> DeliveryStatus] /\ told' \subseteq Outcomes
<1>1. disk.outcome \in Outcomes
  BY DEF IInv, Core, EngineTypes, Cycle
<1> QED BY <1>1 DEF DeliverTo, IInv, OtherTypes, DeliveryStatus

\* The delivery loops tell notifiers, and report runs that have an id.
LEMMA DeliveryTypes ==
  ASSUME IInv, \/ SaveReport \/ ReportFailure
               \/ \E n \in Notifiers : Deliver(n) \/ DeliverFailure(n)
  PROVE  OtherTypes'
<1>1. UNCHANGED <<history, stale, pkgs, unbooted, envVars>>
  BY DEF SaveReport, ReportFailure, Deliver, DeliverFailure, archiveVars, machineVars
<1>2. CASE SaveReport \/ ReportFailure
  <2>1. /\ disk.run_id \in 0 .. MaxRuns /\ cycle.run_id = disk.run_id /\ disk.run_id # 0
        /\ disk.notification_status \in [Notifiers -> DeliveryStatus]
        /\ cycle.notification_status \in [Notifiers -> DeliveryStatus]
    <3>1. disk \in Cycle /\ cycle \in Cycle
      BY DEF IInv, Core, EngineTypes
    <3>2. cycle.run_id = disk.run_id /\ disk.run_id # 0
      BY <1>2 DEF SaveReport, ReportFailure, IInv, Core, Position, Memory, BootFacts, Working,
                  HandlerSteps
    <3> QED BY <3>1, <3>2 DEF Cycle
  <2>2. disk.run_id \in RunId
    BY <2>1, BoundsAssumption DEF RunId
  <2>3. /\ reports' \subseteq RunId /\ todo' \subseteq Notifiers /\ told' = told
        /\ status' \in [Notifiers -> DeliveryStatus]
    BY <1>2, <2>1, <2>2 DEF SaveReport, ReportFailure, IInv, OtherTypes
  <2> QED BY <1>1, <2>3 DEF IInv, OtherTypes, envVars
<1>3. ASSUME NEW n \in Notifiers, Deliver(n) \/ DeliverFailure(n)
      PROVE  OtherTypes'
  <2>1. UNCHANGED reports /\ todo' \subseteq Notifiers /\ DeliverTo(n)
    BY <1>3 DEF Deliver, DeliverFailure, archiveVars, IInv, OtherTypes
  <2> QED BY <1>1, <2>1, DeliverTypes DEF IInv, OtherTypes, envVars
<1> QED BY <1>2, <1>3

\* The archive holds cycles.
LEMMA ArchiveTypes ==
  ASSUME IInv, Archive
  PROVE  OtherTypes'
<1>1. history' \in [RunId -> Cycle]
  BY DEF Archive, IInv, Core, EngineTypes, OtherTypes
<1>2. UNCHANGED <<reports, todo, status, told, stale, pkgs, unbooted, envVars>>
  BY DEF Archive, deliveryVars, machineVars
<1> QED BY <1>1, <1>2 DEF IInv, OtherTypes, envVars

\* The steps that end a process or begin a cycle.
LEMMA LifeTypes ==
  ASSUME IInv, CommandReboot \/ Reset \/ NewCycle \/ Crash \/ Reboot
  PROVE  OtherTypes'
<1>1. UNCHANGED <<history, reports, stale, config>>
  BY DEF CommandReboot, Reset, NewCycle, Crash, Reboot, archiveVars, envVars
<1>2. todo' \subseteq Notifiers /\ status' \in [Notifiers -> DeliveryStatus]
  BY ExitTypes DEF CommandReboot, Reset, NewCycle, Crash, Reboot, IInv, OtherTypes
<1>3. told' \subseteq Outcomes
  BY DEF CommandReboot, Reset, NewCycle, Crash, Reboot, IInv, OtherTypes
<1>4. pkgs' \in {"current", "pending", "broken"}
  BY DEF CommandReboot, Reset, NewCycle, Crash, Reboot, machineVars, IInv, OtherTypes
<1>5. unbooted' \in BOOLEAN
  BY DEF CommandReboot, Reset, NewCycle, Crash, Reboot, machineVars, IInv, Core, EngineTypes,
         OtherTypes, Cycle
<1>6. started' \in 0 .. MaxRuns /\ crashes' \in 0 .. MaxCrashes
  BY BoundsAssumption
  DEF CommandReboot, Reset, NewCycle, Crash, Reboot, envVars, IInv, OtherTypes
<1> QED BY <1>1, <1>2, <1>3, <1>4, <1>5, <1>6 DEF IInv, OtherTypes

\* The remaining steps keep every type.
LEMMA EnvironmentTypes ==
  ASSUME IInv, GrowStale \/ EditConfig \/ Fail \/ UNCHANGED vars
  PROVE  OtherTypes'
BY DEF GrowStale, EditConfig, Fail, vars, archiveVars, deliveryVars, machineVars, envVars,
       IInv, OtherTypes

-----------------------------------------------------------------------------
(* The invariant is inductive.                                              *)

\* The invariant holds before any process has run.
LEMMA InitIInv == Init => IInv
<1> SUFFICES ASSUME Init PROVE IInv
  OBVIOUS
<1>1. Idle \in Cycle
  BY FreshCycleType, BoundsAssumption DEF Idle
<1>2. /\ Idle.state = "IDLE" /\ Idle.run_id = 0 /\ Idle.boot_id_before = 0
      /\ Idle.boot_id_after = 0
  BY DEF Idle, FreshCycle
<1>3. disk = Idle /\ cycle = Idle /\ pc = "down" /\ exc = "none" /\ issued = 0 /\ boot = 1
  BY DEF Init
<1>4. EngineTypes
  BY <1>1, <1>3, BoundsAssumption DEF EngineTypes, Places, ErrorKinds, BootId
<1>5. BootFacts /\ BudgetFacts
  BY <1>2, <1>3, BoundsAssumption DEF BootFacts, BudgetFacts
<1>6. Position /\ Memory /\ OnRecordedBoot
  BY <1>2, <1>3 DEF Position, Memory, OnRecordedBoot, Entries, State, Working, HandlerSteps
<1>7. OtherTypes
  <2>1. history \in [RunId -> Cycle] /\ status \in [Notifiers -> DeliveryStatus]
    BY <1>1 DEF Init, DeliveryStatus
  <2>2. started \in 0 .. MaxRuns
    BY BoundsAssumption DEF Init
  <2>3. crashes \in 0 .. MaxCrashes
    BY BoundsAssumption DEF Init
  <2>4. stale \in BOOLEAN /\ unbooted \in BOOLEAN
    BY DEF Init
  <2>5. reports \subseteq RunId /\ todo \subseteq Notifiers /\ told \subseteq Outcomes
    BY DEF Init
  <2>6. config \in Configs /\ pkgs \in {"current", "pending", "broken"}
    BY DEF Init
  <2> QED BY <2>1, <2>2, <2>3, <2>4, <2>5, <2>6 DEF OtherTypes
<1> QED BY <1>4, <1>5, <1>6, <1>7 DEF IInv, Core

\* Every step of a delivery loop is one of DeliveryLoopKeeps.
LEMMA DeliveryKeeps ==
  ASSUME IInv, \/ SaveReport \/ ReportFailure
               \/ \E n \in Notifiers : Deliver(n) \/ DeliverFailure(n)
  PROVE  Core'
BY DeliveryLoopKeeps DEF SaveReport, ReportFailure, Deliver, DeliverFailure, machineVars

\* A handler may raise an error of its own at any of its steps.
LEMMA HandlerRaisesKeeps ==
  ASSUME IInv, HandlerRaises
  PROVE  Core'
<1>1. "internal" \in ErrorKinds /\ pc \in HandlerSteps /\ Raise("internal")
  BY DEF HandlerRaises, ErrorKinds
<1>2. UNCHANGED <<issued, boot>>
  BY DEF HandlerRaises, HandlerFrame, machineVars
<1> QED BY <1>1, <1>2, RaiseKeeps DEF IInv

\* One step of an engine keeps the invariant.
LEMMA EngineStepKeeps ==
  ASSUME IInv, EngineStep
  PROVE  IInv'
<1>1. CASE Precheck \/ PrecheckRepaired
  BY <1>1, PrecheckKeeps, HandlerTypes DEF Precheck, PrecheckRepaired, IInv
<1>2. CASE RepairInterrupted
  BY <1>2, RepairInterruptedKeeps, PackageTypes DEF IInv
<1>3. CASE Refresh
  BY <1>3, RefreshKeeps, PackageTypes DEF IInv
<1>4. CASE Discover
  BY <1>4, DiscoverKeeps, HandlerTypes DEF Discover, IInv
<1>5. CASE EnterUpgrade
  BY <1>5, EnterUpgradeKeeps, HandlerTypes DEF EnterUpgrade, IInv
<1>6. CASE BeginApply
  BY <1>6, BeginApplyKeeps, PackageTypes DEF IInv
<1>7. CASE EndApply
  BY <1>7, EndApplyKeeps, PackageTypes DEF IInv
<1>8. CASE SaveApplied
  BY <1>8, SaveAppliedKeeps, HandlerTypes DEF SaveApplied, IInv
<1>9. CASE AfterUpgrade
  BY <1>9, AfterUpgradeKeeps, HandlerTypes DEF AfterUpgrade, IInv
<1>10. CASE CheckReboot
  BY <1>10, CheckRebootKeeps, HandlerTypes DEF CheckReboot, IInv
<1>11. CASE DecideReboot
  BY <1>11, DecideRebootKeeps, HandlerTypes DEF DecideReboot, IInv
<1>12. CASE EnterReboot
  BY <1>12, EnterRebootKeeps, HandlerTypes DEF EnterReboot, IInv
<1>13. CASE PrepareReboot
  BY <1>13, PrepareRebootKeeps, HandlerTypes DEF PrepareReboot, IInv
<1>14. CASE CommandReboot
  BY <1>14, CommandRebootKeeps, LifeTypes DEF IInv
<1>15. CASE VerifyRebooted
  BY <1>15, VerifyRebootedKeeps, HandlerTypes DEF VerifyRebooted, IInv
<1>16. CASE AfterReboot
  BY <1>16, AfterRebootKeeps, HandlerTypes DEF AfterReboot, IInv
<1>17. CASE VerifyPackages
  BY <1>17, VerifyPackagesKeeps, HandlerTypes DEF VerifyPackages, IInv
<1>18. CASE PackagesVerified
  BY <1>18, PackagesVerifiedKeeps, HandlerTypes DEF PackagesVerified, IInv
<1>19. CASE CheckHealth
  BY <1>19, CheckHealthKeeps, HandlerTypes DEF CheckHealth, IInv
<1>20. CASE SaveOutcome
  BY <1>20, SaveOutcomeKeeps, HandlerTypes DEF SaveOutcome, IInv
<1>21. CASE RecordDelivery
  BY <1>21, RecordDeliveryKeeps, HandlerTypes DEF RecordDelivery, IInv
<1>22. CASE Notified
  BY <1>22, NotifiedKeeps, HandlerTypes DEF Notified, IInv
<1>23. CASE Complete
  BY <1>23, CompleteKeeps, HandlerTypes DEF Complete, IInv
<1>24. CASE \/ SaveReport \/ ReportFailure
            \/ \E n \in Notifiers : Deliver(n) \/ DeliverFailure(n)
  BY <1>24, DeliveryKeeps, DeliveryTypes DEF IInv
<1>25. CASE Fail
  BY <1>25, FailKeeps, EnvironmentTypes DEF IInv
<1>26. CASE RecordError
  BY <1>26, RecordErrorKeeps, HandlerTypes DEF RecordError, IInv
<1>27. CASE FailureNotified
  BY <1>27, FailureNotifiedKeeps, HandlerTypes DEF FailureNotified, IInv
<1>28. CASE Archive
  BY <1>28, ArchiveKeeps, ArchiveTypes DEF IInv
<1>29. CASE Reset
  BY <1>29, ResetKeeps, LifeTypes DEF IInv
<1>30. CASE ResetForNewCycle
  BY <1>30, ResetForNewCycleKeeps, HandlerTypes DEF ResetForNewCycle, IInv
<1>31. CASE NewCycle
  BY <1>31, NewCycleKeeps, LifeTypes DEF IInv
<1>32. CASE FailureHooks
  BY <1>32, FailureHooksKeeps, HandlerTypes DEF FailureHooks, IInv
<1> QED BY <1>1, <1>2, <1>3, <1>4, <1>5, <1>6, <1>7, <1>8, <1>9, <1>10, <1>11, <1>12,
           <1>13, <1>14, <1>15, <1>16, <1>17, <1>18, <1>19, <1>20, <1>21, <1>22, <1>23,
           <1>24, <1>25, <1>26, <1>27, <1>28, <1>29, <1>30, <1>31, <1>32
        DEF EngineStep

\* Every step keeps the invariant.
LEMMA NextKeeps == IInv /\ [Next]_vars => IInv'
<1> SUFFICES ASSUME IInv, [Next]_vars PROVE IInv'
  OBVIOUS
<1>1. CASE EngineStep
  BY <1>1, EngineStepKeeps
<1>2. CASE HandlerRaises
  BY <1>2, HandlerRaisesKeeps, HandlerTypes DEF HandlerRaises, IInv
<1>3. CASE Run
  BY <1>3, RunKeeps, StartTypes DEF IInv
<1>4. CASE Resume
  BY <1>4, ResumeKeeps, StartTypes DEF IInv
<1>5. CASE Crash
  BY <1>5, CrashKeeps, LifeTypes DEF IInv
<1>6. CASE Reboot
  BY <1>6, RebootKeeps, LifeTypes DEF IInv
<1>7. CASE GrowStale \/ EditConfig \/ UNCHANGED vars
  BY <1>7, EnvironmentKeeps, EnvironmentTypes DEF IInv
<1> QED BY <1>1, <1>2, <1>3, <1>4, <1>5, <1>6, <1>7 DEF Next

\* The inductive invariant holds of every behaviour of the engine: what a live
\* process remembers, where it is and what state.json says agree at every step.
THEOREM Invariant == Spec => []IInv
BY InitIInv, NextKeeps, PTL DEF Spec

-----------------------------------------------------------------------------
(* The properties.                                                          *)

\* Every variable keeps its type, whatever crashes and reboots: a state.json
\* the engine writes is one it can read, with an attempt count in its budget.
THEOREM TypeCorrect == Spec => []TypeOK
<1>1. IInv => TypeOK
  BY DEF IInv, Core, EngineTypes, OtherTypes, TypeOK
<1> QED BY <1>1, Invariant, PTL

\* Whenever the reboot command runs, the boot it leaves and the attempt it
\* makes are on disk: no crash can lose them.
THEOREM RebootIsRecordedFirst == Spec => []RebootFactsDurable
<1>1. IInv => RebootFactsDurable
  <2> SUFFICES ASSUME IInv, pc = "reboot.command"
               PROVE  /\ disk.state = "REBOOTING" /\ disk.boot_id_before = boot
                      /\ disk.boot_id_after = 0 /\ disk.reboot_attempts > issued
    BY DEF RebootFactsDurable
  <2>1. disk.state = "REBOOTING" /\ disk.boot_id_before = boot
    BY DEF IInv, Core, Position, OnRecordedBoot
  <2>2. disk.boot_id_after = 0
    BY <2>1 DEF IInv, Core, BootFacts, PostRebootResumable, TerminalStates
  <2>3. disk.reboot_attempts > issued
    BY BoundsAssumption DEF IInv, Core, OnRecordedBoot, EngineTypes, Cycle
  <2> QED BY <2>1, <2>2, <2>3
<1> QED BY <1>1, Invariant, PTL

\* A cycle issues at most MaxAttempts reboot commands on one boot, however the
\* commands are spread over processes.
THEOREM RebootsAreBounded == Spec => []RebootBudget
<1>1. IInv => RebootBudget
  BY DEF IInv, Core, BudgetFacts, RebootBudget
<1> QED BY <1>1, Invariant, PTL

\* A cycle in POST_REBOOT left the boot it recorded, and a boot it recorded
\* afterwards is a later one.
THEOREM PostRebootGenuine == Spec => []PostRebootIsGenuine
<1>1. IInv => PostRebootIsGenuine
  <2> SUFFICES ASSUME IInv PROVE PostRebootIsGenuine
    OBVIOUS
  <2>1. /\ boot \in Nat
        /\ disk.boot_id_before \in 0 .. boot
        /\ disk.boot_id_after \in 0 .. boot
    BY BootChangedFacts
  <2> QED BY <2>1 DEF IInv, Core, BootFacts, PostRebootIsGenuine
<1> QED BY <1>1, Invariant, PTL

\* A package transaction starts only for a cycle that has durably applied
\* nothing yet and was prechecked on the boot that runs.
THEOREM ApplyIsSafe == Spec => []ApplyIsFirstAndPrechecked
<1>1. IInv => ApplyIsFirstAndPrechecked
  BY DEF IInv, Core, Position, OnRecordedBoot, ApplyIsFirstAndPrechecked
<1> QED BY <1>1, Invariant, PTL

-----------------------------------------------------------------------------
(* The boot that a cycle's own reboot led to.                               *)

\* Where a process proves what a cycle did.
Proving ==
  PostRebootResumable \cup {"after_reboot", "verified", "notify.report", "notify.deliver",
                            "notify.record"}

\* A process there works on the boot that the cycle's reboot led to, if any.
OnConfirmedBoot == pc \in Proving => disk.boot_id_after \in {0, boot}

\* A cycle that is moved keeps the boots it recorded.
LEMMA MoveKeepsBoots ==
  ASSUME disk \in Cycle, cycle \in Cycle, NEW c \in Cycle, NEW dst, MoveTo(c, dst), UNCHANGED boot,
         c.boot_id_after \in {0, boot}
  PROVE  OnConfirmedBoot'
<1>1. CASE pc' = "fail"
  BY <1>1 DEF OnConfirmedBoot, Proving, PostRebootResumable
<1>2. CASE disk' = [c EXCEPT !.state = dst]
  BY <1>2 DEF OnConfirmedBoot, Cycle
<1> QED BY <1>1, <1>2 DEF MoveTo, Raise

\* The steps of a process between its start and its end.
LEMMA StepConfirms ==
  ASSUME IInv, OnConfirmedBoot, EngineStep \/ HandlerRaises
  PROVE  OnConfirmedBoot'
<1>1. disk \in Cycle /\ cycle \in Cycle /\ pc \in Places
  BY DEF IInv, Core, EngineTypes
<1>2. pc \in Entries => cycle = disk /\ disk.state = pc
  BY DEF IInv, Core, Memory, Position
<1>3. CASE CheckReboot \/ DecideReboot
  <2>1. UNCHANGED boot /\ cycle = disk /\ disk.state \in {"CHECKING_REBOOT", "REBOOT_PENDING"}
    <3>1. UNCHANGED boot /\ pc \in {"CHECKING_REBOOT", "REBOOT_PENDING"}
      BY <1>3 DEF CheckReboot, DecideReboot, HandlerFrame, machineVars
    <3>2. pc \in Entries
      BY <3>1 DEF Entries, State
    <3> QED BY <1>2, <3>1, <3>2
  <2>2. cycle.boot_id_after = 0
    BY <2>1 DEF IInv, Core, BootFacts, PostRebootResumable, TerminalStates
  <2>3. \/ pc' = "fail"
        \/ \E c \in Cycle, dst \in State : MoveTo(c, dst) /\ c.boot_id_after = 0
    <3>1. CASE CheckReboot
      <4>1. CASE Raise("preflight-failed")
        BY <4>1 DEF Raise
      <4>2. CASE ~Raise("preflight-failed")
        <5>1. PICK required \in BOOLEAN :
                LET c == [cycle EXCEPT !.reboot_required = required]
                IN  IF cycle.pre_existing_reboot /\ config.existing_pending = "report_only"
                    THEN MoveTo([c EXCEPT !.outcome = "MANUAL_REBOOT_REQUIRED"], "VERIFYING")
                    ELSE MoveTo(c, IF required \/ config.policy = "always"
                                   THEN "REBOOT_PENDING" ELSE "VERIFYING")
          BY <3>1, <4>2 DEF CheckReboot
        <5> DEFINE c == [cycle EXCEPT !.reboot_required = required]
                   m == [c EXCEPT !.outcome = "MANUAL_REBOOT_REQUIRED"]
        <5>2. "VERIFYING" \in State /\ "REBOOT_PENDING" \in State
          BY DEF State
        <5>3. MoveTo(m, "VERIFYING") \/ MoveTo(c, "VERIFYING") \/ MoveTo(c, "REBOOT_PENDING")
          BY <5>1
        <5>4. c \in Cycle /\ c.boot_id_after = 0
          BY <1>1, <2>2 DEF Cycle
        <5> HIDE DEF c
        <5>5. m \in Cycle /\ m.boot_id_after = 0
          BY <5>4 DEF Cycle, Outcomes
        <5> HIDE DEF m
        <5> QED BY <5>2, <5>3, <5>4, <5>5
      <4> QED BY <4>1, <4>2
    <3>2. CASE DecideReboot
      <4> DEFINE m == [cycle EXCEPT !.outcome = "MANUAL_REBOOT_REQUIRED"]
      <4>1. m \in Cycle /\ m.boot_id_after = 0
        BY <1>1, <2>2 DEF Cycle, Outcomes
      <4>2. "VERIFYING" \in State /\ "REBOOTING" \in State
        BY DEF State
      <4>3. PICK action \in Evaluate(cycle.reboot_required) :
              CASE action = "reboot" -> MoveTo(cycle, "REBOOTING")
                [] action = "blocked" -> Raise("preflight-failed")
                [] action = "defer_manual" -> MoveTo(m, "VERIFYING")
                [] action = "skip" -> MoveTo(cycle, "VERIFYING")
        BY <3>2 DEF DecideReboot
      <4>4. action \in {"reboot", "blocked", "defer_manual", "skip"}
        BY DEF Evaluate
      <4> HIDE DEF m
      <4>5. \/ MoveTo(cycle, "REBOOTING") \/ Raise("preflight-failed")
            \/ MoveTo(m, "VERIFYING") \/ MoveTo(cycle, "VERIFYING")
        BY <4>3, <4>4
      <4> QED BY <1>1, <2>2, <4>1, <4>2, <4>5 DEF Raise
    <3> QED BY <1>3, <3>1, <3>2
  <2>4. CASE pc' = "fail"
    BY <2>4 DEF OnConfirmedBoot, Proving, PostRebootResumable
  <2>5. CASE \E c \in Cycle, dst \in State : MoveTo(c, dst) /\ c.boot_id_after = 0
    BY <1>1, <2>1, <2>5, MoveKeepsBoots
  <2> QED BY <2>3, <2>4, <2>5
<1>4. CASE VerifyRebooted
  BY <1>1, <1>4 DEF VerifyRebooted, Raise, HandlerFrame, machineVars, OnConfirmedBoot, Proving,
     PostRebootResumable, Cycle
<1>5. CASE AfterReboot
  <2>1. UNCHANGED boot /\ disk.boot_id_after \in {0, boot} /\ boot \in BootId
    BY <1>5 DEF AfterReboot, HandlerFrame, machineVars, OnConfirmedBoot, Proving, IInv, Core,
       EngineTypes
  <2>2. CASE MoveTo(disk, "VERIFYING")
    BY <1>1, <2>1, <2>2, MoveKeepsBoots
  <2>3. CASE pc' \in {"fail", "PRECHECK"}
    BY <2>3 DEF OnConfirmedBoot, Proving, PostRebootResumable
  <2> QED BY <1>5, <2>2, <2>3 DEF AfterReboot, MoveTo, Raise
<1>6. CASE VerifyPackages \/ SaveOutcome \/ RecordDelivery
  <2>1. UNCHANGED boot /\ disk.boot_id_after \in {0, boot}
    BY <1>6 DEF VerifyPackages, SaveOutcome, RecordDelivery, HandlerFrame, machineVars,
       OnConfirmedBoot, Proving, PostRebootResumable
  <2>2. pc' = "fail" \/ disk'.boot_id_after = disk.boot_id_after
    BY <1>1, <1>2, <1>6 DEF VerifyPackages, SaveOutcome, RecordDelivery, Raise, Cycle, Entries, State
  <2> QED BY <2>1, <2>2 DEF OnConfirmedBoot, Proving, PostRebootResumable
<1>7. CASE PackagesVerified \/ Notified
  <2>1. UNCHANGED boot /\ disk.boot_id_after \in {0, boot}
    BY <1>7 DEF PackagesVerified, Notified, HandlerFrame, machineVars, OnConfirmedBoot, Proving
  <2> QED BY <1>1, <1>7, <2>1, MoveKeepsBoots DEF PackagesVerified, Notified
<1>8. CASE CheckHealth
  <2>1. UNCHANGED boot /\ disk.boot_id_after \in {0, boot} /\ cycle = disk
    BY <1>2, <1>8 DEF CheckHealth, HandlerFrame, machineVars, OnConfirmedBoot, Proving,
       PostRebootResumable, Entries, State
  <2>2. PICK health \in {"ok", "warning", "critical"} :
          MoveTo([cycle EXCEPT !.health_results = health,
                               !.error = IF health = "critical"
                                         THEN "health-check-failed" ELSE @], "NOTIFYING")
    BY <1>8 DEF CheckHealth
  <2> DEFINE c == [cycle EXCEPT !.health_results = health,
                                !.error = IF health = "critical"
                                          THEN "health-check-failed" ELSE @]
  <2>3. c \in Cycle /\ c.boot_id_after = cycle.boot_id_after
    BY <1>1 DEF Cycle, ErrorKinds
  <2>4. MoveTo(c, "NOTIFYING")
    BY <2>2
  <2> HIDE DEF c
  <2> QED BY <1>1, <2>1, <2>3, <2>4, MoveKeepsBoots
<1>9. CASE SaveReport \/ (\E n \in Notifiers : Deliver(n))
  <2>1. UNCHANGED <<boot, disk>> /\ pc \in Proving
    BY <1>9 DEF SaveReport, Deliver, machineVars, Proving
  <2> QED BY <2>1 DEF OnConfirmedBoot
<1>10. CASE HandlerRaises \/ (\E n \in Notifiers : DeliverFailure(n))
  BY <1>10 DEF HandlerRaises, Raise, DeliverFailure, OnConfirmedBoot, Proving, PostRebootResumable
<1>11. CASE \/ Precheck \/ RepairInterrupted \/ PrecheckRepaired \/ Refresh \/ Discover
            \/ EnterUpgrade \/ BeginApply \/ EndApply \/ SaveApplied \/ AfterUpgrade
            \/ EnterReboot \/ PrepareReboot \/ CommandReboot \/ Complete
            \/ Fail \/ RecordError \/ FailureHooks \/ ReportFailure \/ FailureNotified
            \/ Archive \/ Reset \/ ResetForNewCycle \/ NewCycle
  <2>1. pc' \notin Proving
    BY <1>11
    DEF Precheck, RepairInterrupted, PrecheckRepaired, PrecheckPassed, Refresh, Discover,
        EnterUpgrade, BeginApply, EndApply, SaveApplied, AfterUpgrade, EnterReboot, PrepareReboot,
        CommandReboot, Complete, Fail, RecordError, FailureHooks, ReportFailure, FailureNotified,
        Archive, Reset, ResetForNewCycle, NewCycle, MoveTo, Raise, Exit, Proving,
        PostRebootResumable
  <2> QED BY <2>1 DEF OnConfirmedBoot
<1> QED BY <1>3, <1>4, <1>5, <1>6, <1>7, <1>8, <1>9, <1>10, <1>11 DEF EngineStep

\* A cycle that recorded another boot than this one is failed, not driven.
LEMMA StartConfirms ==
  ASSUME IInv, Run \/ Resume
  PROVE  OnConfirmedBoot'
<1>1. disk \in Cycle /\ UNCHANGED boot
  BY DEF IInv, Core, EngineTypes, Run, Resume, StartFrame, machineVars
<1>2. ASSUME NEW s, DriveFrom(s)
      PROVE  disk'.boot_id_after = disk.boot_id_after
  BY <1>1, <1>2 DEF DriveFrom, Cycle
<1>3. CASE disk.boot_id_after \in {0, boot}
  <2>1. disk'.boot_id_after = disk.boot_id_after
    <3>1. \/ disk' = disk
          \/ \E s \in State \cup {ResumeTarget(disk.state, BootChanged(disk))} : DriveFrom(s)
      BY DEF Run, Resume, RecoverSameBoot, RebootNeverHappened, FailLoaded, State,
             SameBootResumable
    <3> QED BY <1>2, <3>1
  <2> QED BY <1>1, <1>3, <2>1 DEF OnConfirmedBoot
<1>4. CASE disk.boot_id_after \notin {0, boot}
  <2>1. BootChanged(disk)
    BY <1>4 DEF BootChanged
  <2>2. disk' = disk
    BY <1>4, <2>1 DEF Run, Resume, RecoverSameBoot, FailLoaded
  <2>3. pc' \in {"new", "archive", "rearchive", "fail", "down"}
    BY <1>4, <2>1 DEF Run, Resume, RecoverSameBoot, FailLoaded, engineVars
  <2> QED BY <2>3 DEF OnConfirmedBoot, Proving, PostRebootResumable
<1> QED BY <1>3, <1>4

\* The environment leaves no process to prove anything, or leaves it its boot.
LEMMA OthersConfirm ==
  ASSUME OnConfirmedBoot, Crash \/ Reboot \/ GrowStale \/ EditConfig \/ UNCHANGED vars
  PROVE  OnConfirmedBoot'
<1>1. CASE Crash \/ Reboot
  BY <1>1 DEF Crash, Reboot, Exit, OnConfirmedBoot, Proving, PostRebootResumable
<1>2. CASE GrowStale \/ EditConfig \/ UNCHANGED vars
  BY <1>2 DEF GrowStale, EditConfig, vars, engineVars, machineVars, OnConfirmedBoot
<1> QED BY <1>1, <1>2

\* A process that proves what its cycle did works on the boot that the cycle's
\* reboot led to.
LEMMA ConfirmedBoot == Spec => []OnConfirmedBoot
<1>1. Init => OnConfirmedBoot
  BY DEF Init, OnConfirmedBoot, Proving, PostRebootResumable
<1>2. IInv /\ OnConfirmedBoot /\ [Next]_vars => OnConfirmedBoot'
  BY StepConfirms, StartConfirms, OthersConfirm DEF Next
<1> QED BY <1>1, <1>2, Invariant, PTL DEF Spec

-----------------------------------------------------------------------------
(* Reboots that nobody ordered.                                             *)

\* After a reboot it did not order, the only process that holds a cycle is one
\* that fails it.
LEMMA OverrunCycleRests == IInv /\ OnConfirmedBoot => NoWorkAfterUnexpectedReboot
<1> SUFFICES ASSUME IInv, OnConfirmedBoot, RebootedUnderneath PROVE pc \in {"down", "fail"}
  BY DEF NoWorkAfterUnexpectedReboot
<1>1. pc \in Places
  BY DEF IInv, Core, EngineTypes
<1>2. CASE disk.state \in EarlyStates
  <2>1. disk.boot_id_before # 0 /\ BootChanged(disk)
    BY <1>2 DEF RebootedUnderneath, EarlyStates, PostRebootResumable
  <2>2. disk.boot_id_after = 0
    BY <1>2 DEF IInv, Core, BootFacts, EarlyStates, PostRebootResumable, TerminalStates
  <2>3. disk.boot_id_before # boot
    BY <2>1, <2>2 DEF BootChanged
  <2> QED BY <1>1, <1>2, <2>1, <2>3
          DEF Places, HandlerSteps, EarlyStates, IInv, Core, Position, OnRecordedBoot, Entries,
              State, TerminalStates
<1>3. CASE disk.state \in PostRebootResumable
  <2>1. disk.boot_id_after \notin {0, boot}
    BY <1>3 DEF RebootedUnderneath, BootChanged, EarlyStates, PostRebootResumable
  <2>2. pc \notin Proving
    BY <2>1 DEF OnConfirmedBoot
  <2> QED BY <1>1, <1>3, <2>2
          DEF Places, HandlerSteps, Proving, PostRebootResumable, IInv, Core, Position, Entries,
              State, TerminalStates
<1> QED BY <1>2, <1>3 DEF RebootedUnderneath

\* A cycle whose machine rebooted underneath it is never driven again.
THEOREM NoWorkIsDone == Spec => []NoWorkAfterUnexpectedReboot
BY OverrunCycleRests, ConfirmedBoot, Invariant, PTL

\* An overrun cycle stays as it is until it fails.
LEMMA OverrunStep ==
  ASSUME IInv, OnConfirmedBoot, [Next]_vars, RebootedUnderneath
  PROVE  RebootedUnderneath' \/ disk'.state = "FAILED"
<1>1. pc \in {"down", "fail"}
  BY OverrunCycleRests DEF NoWorkAfterUnexpectedReboot
<1>2. /\ BootChanged(disk)
      /\ \/ disk.state \in EarlyStates /\ disk.boot_id_after = 0 /\ disk.boot_id_before # boot
         \/ disk.state \in PostRebootResumable /\ disk.boot_id_after \notin {0, boot}
  BY DEF RebootedUnderneath, BootChanged, IInv, Core, BootFacts, EarlyStates,
         PostRebootResumable, TerminalStates
<1>3. /\ boot \in Nat /\ disk.boot_id_before \in Nat /\ disk.boot_id_after \in Nat
      /\ disk.boot_id_before <= boot /\ disk.boot_id_after <= boot
  BY BoundsAssumption DEF IInv, Core, EngineTypes, BootFacts, Cycle, BootId
<1>4. disk' = disk /\ boot' \in {boot, boot + 1} => RebootedUnderneath'
  BY <1>2, <1>3 DEF RebootedUnderneath, BootChanged
<1>5. CASE EngineStep \/ HandlerRaises
  <2>1. Fail
    BY <1>1, <1>5
    DEF EngineStep, HandlerRaises, HandlerSteps, Precheck, RepairInterrupted, PrecheckRepaired,
        Refresh, Discover, EnterUpgrade, BeginApply, EndApply, SaveApplied, AfterUpgrade,
        CheckReboot, DecideReboot, EnterReboot, PrepareReboot, CommandReboot, VerifyRebooted,
        AfterReboot, VerifyPackages, PackagesVerified, CheckHealth, SaveOutcome, SaveReport,
        Deliver, DeliverFailure, RecordDelivery, Notified, Complete, RecordError,
        FailureHooks, ReportFailure, FailureNotified, Archive, Reset, ResetForNewCycle, NewCycle
  <2>2. disk \in Cycle /\ cycle \in Cycle
    BY DEF IInv, Core, EngineTypes
  <2>3. disk'.state = "FAILED"
    BY <2>1, <2>2 DEF Fail, Cycle
  <2> QED BY <2>3
<1>6. CASE Run \/ Resume
  <2>1. disk' = disk
    <3>1. CASE disk.boot_id_after # 0
      BY <1>2, <1>6, <3>1 DEF Run, Resume, RecoverSameBoot, FailLoaded
    <3>2. CASE disk.boot_id_after = 0
      BY <1>2, <1>6, <3>2
      DEF Run, Resume, RecoverSameBoot, FailLoaded, ResumeTarget, EarlyStates, TerminalStates,
          PostRebootResumable
    <3> QED BY <3>1, <3>2
  <2>2. boot' = boot
    BY <1>6 DEF Run, Resume, StartFrame, machineVars
  <2> QED BY <1>4, <2>1, <2>2
<1>7. CASE Crash \/ Reboot \/ GrowStale \/ EditConfig \/ UNCHANGED vars
  <2>1. disk' = disk /\ boot' \in {boot, boot + 1}
    BY <1>7 DEF Crash, Reboot, GrowStale, EditConfig, vars, machineVars
  <2> QED BY <1>4, <2>1
<1> QED BY <1>5, <1>6, <1>7 DEF Next

\* An unexpected reboot is fatal to a cycle that had not ordered one yet and to
\* one whose own was confirmed already: whatever processes start, die or are
\* rebooted again, the next thing that happens to it is its failure.
THEOREM OverrunCycleFails == Spec => UnexpectedRebootIsFatal
<1>1. IInv /\ OnConfirmedBoot /\ [Next]_vars
      => [RebootedUnderneath => RebootedUnderneath' \/ disk'.state = "FAILED"]_vars
  BY OverrunStep
<1> QED BY <1>1, ConfirmedBoot, Invariant, PTL DEF Spec, UnexpectedRebootIsFatal
=============================================================================
