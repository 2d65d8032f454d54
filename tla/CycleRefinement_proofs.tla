------------------------ MODULE CycleRefinement_proofs ------------------------
(***************************************************************************)
(* What CycleEngine records of its cycles, told to the end: no cycle is    *)
(* lost, what the archive and the notifiers say of a completed one is      *)
(* true, every step, crashes and reboots included, is one of               *)
(* MaintenanceCycle or none, and the hooks of CycleHooks are followed      *)
(* through; for every set of notifiers and of configurations and every     *)
(* bound.                                                                  *)
(***************************************************************************)
EXTENDS CycleRefinement, CycleHooks, CycleEngine_proofs

-----------------------------------------------------------------------------
(* The invariant, on top of IInv.                                           *)

\* Where a terminal cycle is still to be archived for the first time.
NotYetArchived == {"COMPLETED", "fail.record", "fail.hooks", "fail.report", "fail.deliver"}

\* Cycles are numbered in turn; all but the last are in the archive, the last
\* is there or on disk, and one that is in both is the same in both.
Ledger ==
  /\ disk.run_id \in {0, started}
  /\ \A r \in RunId :
       /\ history[r].run_id \in {0, r}
       /\ r > started => history[r].run_id = 0
       /\ r <= started /\ r # disk.run_id => history[r].run_id = r
       /\ history[r].run_id # 0 => history[r].state \in TerminalStates
       /\ history[r].run_id # 0 /\ r = disk.run_id => disk = history[r]
  /\ pc \in {"reset", "rereset"} => history[disk.run_id] = disk
  /\ pc \in NotYetArchived => history[disk.run_id].run_id = 0

\* What a completed cycle says is so: it was verified, has its report, tried
\* every notifier, and names the outcome that its own facts give.
Truthful(c) ==
  /\ c.verify_passed
  /\ c.run_id \in reports
  /\ \A n \in Notifiers : c.notification_status[n] # "unset"
  /\ c.outcome = FinalOutcome(c)

\* What the cycle on disk and those in the archive say of themselves.
Records ==
  /\ disk.state \in {"HEALTH_CHECKING", "NOTIFYING"} \/ pc = "verified" => disk.verify_passed
  /\ disk.state = "COMPLETED" => Truthful(disk)
  /\ disk.reboot_before_updates => ~disk.initial_reboot_completed
  /\ disk.state = "IDLE" => disk = Idle
  /\ \A r \in RunId : history[r].state = "COMPLETED" => history[r].run_id = r /\ Truthful(history[r])

\* Nothing is told before NOTIFYING, and from there on only the outcome that
\* the facts of the cycle give, whatever the outcome field says by then.
Telling ==
  /\ disk.state \in {"NOTIFYING", "COMPLETED"} => told \subseteq {FinalOutcome(disk)}
  /\ disk.state \notin {"NOTIFYING", "COMPLETED", "FAILED", "IDLE"} => told = {}

\* The delivery loop of a successful cycle: its outcome and report are there
\* before it, and whoever is not to be tried any more was tried.
Loop ==
  /\ pc \in {"notify.report", "notify.deliver", "notify.record"} => disk.outcome = FinalOutcome(disk)
  /\ pc \in {"notify.deliver", "notify.record"} =>
       /\ disk.run_id \in reports
       /\ \A n \in Notifiers \ todo : status[n] # "unset"
  /\ pc = "notify.deliver" => status = disk.notification_status

\* The states after the last that may order a reboot.
Late == {"VERIFYING", "HEALTH_CHECKING", "NOTIFYING", "COMPLETED"}

\* No reboot is required of the cycle any more, as far as it knows: it was
\* told of none, crossed one, leaves it to an operator, or fails its health
\* checks.
NoneOwed(c) ==
  \/ ~c.reboot_required
  \/ c.boot_id_after # 0
  \/ c.outcome = "MANUAL_REBOOT_REQUIRED"
  \/ c.error = "health-check-failed"

\* What the cycle on disk installed, and this boot does not run, was installed
\* on this boot; and no required reboot is behind a cycle past its last chance.
OwnReboot ==
  /\ disk.run_id # 0 /\ unbooted => disk.boot_id_before = boot /\ disk.boot_id_after = 0
  /\ disk.state \in Late => NoneOwed(disk)

Facts == Ledger /\ Records /\ Telling /\ Loop /\ OwnReboot

-----------------------------------------------------------------------------
(* Lemmas about the operators.                                              *)

\* The cycle d is the cycle c, but for its state and its attempts.
Kept(c, d) ==
  /\ d.run_id = c.run_id
  /\ d.outcome = c.outcome
  /\ d.packages_pending = c.packages_pending
  /\ d.updates_applied = c.updates_applied
  /\ d.reboot_required = c.reboot_required
  /\ d.boot_id_before = c.boot_id_before
  /\ d.boot_id_after = c.boot_id_after
  /\ d.reboot_before_updates = c.reboot_before_updates
  /\ d.initial_reboot_completed = c.initial_reboot_completed
  /\ d.verify_passed = c.verify_passed
  /\ d.health_results = c.health_results
  /\ d.warnings = c.warnings
  /\ d.notification_status = c.notification_status
  /\ d.error = c.error

\* A state that is set changes nothing else.
LEMMA SetStateKeeps ==
  ASSUME NEW c \in Cycle, NEW s \in State
  PROVE  LET d == [c EXCEPT !.state = s] IN d \in Cycle /\ d.state = s /\ Kept(c, d)
BY SetState DEF Cycle, Kept

\* The outcome that the facts of a cycle give does not depend on its state, and
\* is not changed by saving it.
LEMMA KeptOutcome ==
  ASSUME NEW c, NEW d, Kept(c, d)
  PROVE  FinalOutcome(d) = FinalOutcome(c)
BY DEF Kept, FinalOutcome

\* The same of what it says of itself.
LEMMA KeptTruth ==
  ASSUME NEW c, NEW d, Kept(c, d)
  PROVE  Truthful(c) <=> Truthful(d)
BY KeptOutcome DEF Kept, Truthful

\* What a move does to the cycle on disk.
Moved(c, dst) ==
  /\ IsLegalTransition(c.state, dst)
  /\ disk' \in Cycle /\ disk'.state = dst /\ Kept(c, disk')
  /\ cycle' = disk'
  /\ pc' = dst

\* A move takes its arc, or raises.
LEMMA MovedOrRaised ==
  ASSUME NEW c \in Cycle, NEW dst \in State, MoveTo(c, dst)
  PROVE  Moved(c, dst) \/ Raise("internal")
<1>1. CASE IsLegalTransition(c.state, dst)
  BY <1>1, SetStateKeeps DEF MoveTo, Moved
<1>2. CASE ~IsLegalTransition(c.state, dst)
  BY <1>2 DEF MoveTo
<1> QED BY <1>1, <1>2

-----------------------------------------------------------------------------
(* What the steps of a handler are made of keeps the facts.                 *)

\* The cycle on disk is not in the archive before it is terminal, nor before
\* its last saves.
LEMMA NotInArchive ==
  ASSUME IInv, Ledger, disk.state \notin TerminalStates \cup {"IDLE"} \/ pc \in NotYetArchived
  PROVE  disk.run_id \in RunId /\ history[disk.run_id].run_id = 0
<1>1. disk \in Cycle /\ disk.state # "IDLE"
  BY DEF IInv, Core, EngineTypes, Position, NotYetArchived, Entries, State
<1>2. disk.run_id \in 0 .. MaxRuns /\ disk.run_id # 0
  BY <1>1 DEF IInv, Core, BootFacts, Cycle
<1>3. disk.run_id \in RunId
  BY <1>2, BoundsAssumption DEF RunId
<1> QED BY <1>1, <1>3 DEF Ledger

\* A step that neither archives the cycle, nor lets go of it, nor begins one,
\* nor changes it once it may be in the archive.
StaysInHand ==
  /\ UNCHANGED <<history, started>>
  /\ disk'.run_id = disk.run_id
  /\ disk' = disk \/ disk.state \notin TerminalStates \cup {"IDLE"} \/ pc \in NotYetArchived
  /\ pc' \notin {"reset", "rereset"}
  /\ pc' \in NotYetArchived => disk.state \notin TerminalStates \cup {"IDLE"} \/ pc \in NotYetArchived

LEMMA LedgerKeeps ==
  ASSUME IInv, Ledger, StaysInHand
  PROVE  Ledger'
<1>1. CASE disk' = disk /\ pc' \notin NotYetArchived
  BY <1>1 DEF Ledger, StaysInHand
<1>2. CASE disk.state \notin TerminalStates \cup {"IDLE"} \/ pc \in NotYetArchived
  <2>1. disk.run_id \in RunId /\ history[disk.run_id].run_id = 0
    BY <1>2, NotInArchive
  <2> QED BY <2>1 DEF Ledger, StaysInHand
<1> QED BY <1>1, <1>2 DEF StaysInHand

\* Where Loop and Records say something of the process.
Telltale == {"verified", "notify.report", "notify.deliver", "notify.record"}

\* A step that leaves what is recorded as it is.
LEMMA QuietFacts ==
  ASSUME IInv, Facts, UNCHANGED <<disk, archiveVars, told, started>>, OwnReboot',
         pc' \notin Telltale \cup NotYetArchived \cup {"reset", "rereset"}
  PROVE  Facts'
<1>1. Ledger'
  BY LedgerKeeps DEF Facts, StaysInHand, archiveVars
<1>2. Records' /\ Telling' /\ Loop'
  BY DEF Facts, Records, Telling, Loop, Truthful, Telltale, archiveVars
<1> QED BY <1>1, <1>2 DEF Facts

\* The reboots due do not change, or are over.
LEMMA SameCauses ==
  ASSUME OwnReboot, UNCHANGED <<disk, started>>,
         UNCHANGED <<boot, unbooted>> \/ unbooted' = FALSE
  PROVE  OwnReboot'
BY DEF OwnReboot

\* Raising changes nothing that is recorded.
LEMMA RaiseFacts ==
  ASSUME IInv, Facts, NEW kind, Raise(kind), UNCHANGED <<archiveVars, told, started, boot, unbooted>>
  PROVE  Facts'
BY QuietFacts, SameCauses DEF Facts, Raise, Telltale, NotYetArchived

\* What the cycle c must say to enter the state dst.
Ready(c, dst) ==
  /\ c.run_id = disk.run_id
  /\ c.reboot_before_updates => ~c.initial_reboot_completed
  /\ dst \in {"HEALTH_CHECKING", "NOTIFYING"} => c.verify_passed
  /\ dst = "COMPLETED" => Truthful(c)
  /\ IF dst \in {"NOTIFYING", "COMPLETED"} THEN told \subseteq {FinalOutcome(c)} ELSE told = {}
  /\ unbooted => c.boot_id_before = boot /\ c.boot_id_after = 0
  /\ dst \in Late => NoneOwed(c)

\* A cycle that is ready for a state and moves there keeps the facts.
LEMMA MovedFacts ==
  ASSUME IInv, Facts, disk.state \notin TerminalStates \cup {"IDLE"}, NEW c, NEW dst \in Entries,
         disk'.state = dst, Kept(c, disk'), pc' = dst,
         Ready(c, dst), UNCHANGED <<archiveVars, told, started, boot, unbooted>>
  PROVE  Facts'
<1>1. Ledger'
  BY LedgerKeeps DEF Facts, StaysInHand, Ready, Kept, Entries, State, archiveVars
<1>2. FinalOutcome(disk') = FinalOutcome(c) /\ (Truthful(c) <=> Truthful(disk'))
  BY KeptOutcome, KeptTruth
<1>3. Truthful(disk') <=> Truthful(disk)'
  BY DEF Truthful, archiveVars
<1>4. Records'
  <2>1. \A r \in RunId : Truthful(history[r])' <=> Truthful(history[r])
    BY DEF Truthful, archiveVars
  <2> QED BY <1>2, <1>3, <2>1 DEF Facts, Records, Ready, Kept, Entries, State, archiveVars
<1>5. Telling'
  BY <1>2 DEF Telling, Ready, Entries, State
<1>6. Loop'
  BY DEF Loop, Entries, State
<1>7. OwnReboot'
  BY DEF Facts, OwnReboot, Ready, Kept, NoneOwed
<1> QED BY <1>1, <1>4, <1>5, <1>6, <1>7 DEF Facts

\* A handler that moves or raises.
LEMMA MoveFacts ==
  ASSUME IInv, Facts, pc \in HandlerSteps, NEW c \in Cycle, NEW dst \in Entries,
         MoveTo(c, dst), Ready(c, dst), UNCHANGED <<archiveVars, told, started, boot, unbooted>>
  PROVE  Facts'
<1>1. disk.state \notin TerminalStates \cup {"IDLE"}
  BY DEF IInv, Core, Position, HandlerSteps, Entries, State, TerminalStates
<1>2. CASE Raise("internal")
  BY <1>2, RaiseFacts
<1>3. CASE Moved(c, dst)
  BY <1>1, <1>3, MovedFacts DEF Moved
<1> QED BY <1>2, <1>3, MovedOrRaised DEF Entries

\* What the frame of a handler leaves alone.
LEMMA FrameFacts ==
  ASSUME HandlerFrame
  PROVE  UNCHANGED <<archiveVars, told, started, boot, unbooted>> /\ UNCHANGED <<todo, status>>
BY DEF HandlerFrame, deliveryVars, machineVars, envVars

\* What the facts say of an active cycle that has told nobody yet.
LEMMA ActiveFacts ==
  ASSUME IInv, Facts, disk.state \notin {"NOTIFYING", "COMPLETED", "FAILED", "IDLE"}
  PROVE  /\ told = {}
         /\ disk.reboot_before_updates => ~disk.initial_reboot_completed
         /\ disk.run_id # 0
         /\ unbooted => disk.boot_id_before = boot /\ disk.boot_id_after = 0
         /\ disk.state \in Late => NoneOwed(disk)
BY DEF IInv, Core, BootFacts, Facts, Records, Telling, OwnReboot

-----------------------------------------------------------------------------
(* The handlers up to the verification.                                     *)

\* Whatever the precheck notes, a reboot first is chosen at most once.
LEMMA PrecheckFacts ==
  ASSUME IInv, Facts, Precheck \/ PrecheckRepaired
  PROVE  Facts'
<1>1. /\ UNCHANGED <<archiveVars, told, started, boot, unbooted>> /\ pc \in {"PRECHECK", "repaired"}
      /\ pc \in HandlerSteps
  BY FrameFacts DEF Precheck, PrecheckRepaired, HandlerSteps
<1>2. /\ cycle = disk /\ disk.state = "PRECHECK" /\ disk \in Cycle /\ boot \in 0 .. MaxBoots
      /\ disk.boot_id_after = 0
  BY <1>1, BoundsAssumption
  DEF IInv, Core, EngineTypes, Position, Memory, BootFacts, Entries, State, BootId,
      PostRebootResumable, TerminalStates
<1>3. CASE Raise("preflight-failed")
  BY <1>1, <1>3, RaiseFacts
<1>4. CASE PrecheckPassed
  <2>0. PICK pending \in BOOLEAN :
          LET c == [cycle EXCEPT !.boot_id_before = boot, !.pre_existing_reboot = pending]
          IN  \/ MoveTo(c, "REFRESHING")
              \/ /\ ~c.initial_reboot_completed
                 /\ MoveTo([c EXCEPT !.reboot_before_updates = TRUE, !.reboot_required = TRUE],
                           "REBOOT_PENDING")
    BY <1>4 DEF PrecheckPassed
  <2> DEFINE c == [cycle EXCEPT !.boot_id_before = boot, !.pre_existing_reboot = pending]
             d == [c EXCEPT !.reboot_before_updates = TRUE, !.reboot_required = TRUE]
  <2>1. /\ c \in Cycle
        /\ c.run_id = disk.run_id /\ c.boot_id_before = boot /\ c.boot_id_after = 0
        /\ c.reboot_before_updates = disk.reboot_before_updates
        /\ c.initial_reboot_completed = disk.initial_reboot_completed
    <3> DEFINE c1 == [cycle EXCEPT !.boot_id_before = boot]
    <3>1. /\ c1 \in Cycle
          /\ c1.run_id = disk.run_id /\ c1.boot_id_before = boot /\ c1.boot_id_after = 0
          /\ c1.reboot_before_updates = disk.reboot_before_updates
          /\ c1.initial_reboot_completed = disk.initial_reboot_completed
      BY <1>2, SetBootBefore DEF Cycle
    <3> HIDE DEF c1
    <3>2. ASSUME NEW p \in BOOLEAN
          PROVE  LET e == [c1 EXCEPT !.pre_existing_reboot = p]
                 IN  /\ e \in Cycle
                     /\ e.run_id = disk.run_id /\ e.boot_id_before = boot /\ e.boot_id_after = 0
                     /\ e.reboot_before_updates = disk.reboot_before_updates
                     /\ e.initial_reboot_completed = disk.initial_reboot_completed
      BY <3>1 DEF Cycle
    <3>3. c = [c1 EXCEPT !.pre_existing_reboot = pending]
      BY DEF c1
    <3> QED BY <3>2, <3>3
  <2>2. \/ MoveTo(c, "REFRESHING")
        \/ ~c.initial_reboot_completed /\ MoveTo(d, "REBOOT_PENDING")
    BY <2>0
  <2> HIDE DEF c
  <2>3. /\ d \in Cycle
        /\ d.run_id = disk.run_id /\ d.boot_id_before = boot /\ d.boot_id_after = 0
        /\ d.reboot_required /\ d.initial_reboot_completed = disk.initial_reboot_completed
    BY <2>1 DEF Cycle
  <2> HIDE DEF d
  <2>4. told = {} /\ (disk.reboot_before_updates => ~disk.initial_reboot_completed)
    BY <1>2, ActiveFacts
  <2>5. Ready(c, "REFRESHING")
    BY <2>1, <2>4 DEF Ready, Late
  <2>6. ~c.initial_reboot_completed => Ready(d, "REBOOT_PENDING")
    BY <2>1, <2>3, <2>4 DEF Ready, Late
  <2> QED BY <1>1, <2>1, <2>2, <2>3, <2>5, <2>6, MoveFacts DEF Entries, State
<1> QED BY <1>3, <1>4 DEF Precheck, PrecheckRepaired

\* A refresh and a discovery change nothing that an outcome rests on yet.
LEMMA PlanFacts ==
  ASSUME IInv, Facts, Refresh \/ Discover
  PROVE  Facts'
<1>1. /\ UNCHANGED <<archiveVars, told, started, boot, unbooted>>
      /\ pc \in {"REFRESHING", "DISCOVERING_UPDATES"} /\ pc \in HandlerSteps
  BY FrameFacts DEF Refresh, Discover, HandlerSteps, deliveryVars, envVars
<1>2. cycle \in Cycle /\ cycle = disk /\ disk.state = pc
  BY <1>1, EntryFacts DEF Entries, State
<1>3. \/ \E kind \in {"pm-failed", "preflight-failed"} : Raise(kind)
      \/ \E w \in BOOLEAN : MoveTo([cycle EXCEPT !.warnings = w], "DISCOVERING_UPDATES")
      \/ \E a \in BOOLEAN, dst \in {"UPGRADING", "CHECKING_REBOOT"} :
           MoveTo([cycle EXCEPT !.packages_pending = a], dst)
  <2>1. CASE Refresh
    <3>1. \A w \in BOOLEAN : (cycle.warnings \/ w) \in BOOLEAN
      OBVIOUS
    <3> QED BY <2>1, <3>1 DEF Refresh
  <2>2. CASE Discover
    <3>1. (pkgs = "pending") \in BOOLEAN
      OBVIOUS
    <3> QED BY <2>2, <3>1 DEF Discover
  <2> QED BY <2>1, <2>2
<1>4. ASSUME NEW c \in Cycle, NEW dst \in {"DISCOVERING_UPDATES", "UPGRADING", "CHECKING_REBOOT"},
             c.run_id = disk.run_id, c.boot_id_before = disk.boot_id_before,
             c.boot_id_after = disk.boot_id_after,
             c.reboot_before_updates = disk.reboot_before_updates,
             c.initial_reboot_completed = disk.initial_reboot_completed,
             MoveTo(c, dst)
      PROVE  Facts'
  <2>1. Ready(c, dst)
    BY <1>1, <1>2, <1>4, ActiveFacts DEF Ready, Late
  <2> QED BY <1>1, <1>4, <2>1, MoveFacts DEF Entries, State
<1>5. ASSUME NEW x \in BOOLEAN
      PROVE  /\ LET c == [cycle EXCEPT !.warnings = x]
                IN  /\ c \in Cycle
                    /\ c.run_id = disk.run_id /\ c.boot_id_before = disk.boot_id_before
                    /\ c.boot_id_after = disk.boot_id_after
                    /\ c.reboot_before_updates = disk.reboot_before_updates
                    /\ c.initial_reboot_completed = disk.initial_reboot_completed
             /\ LET c == [cycle EXCEPT !.packages_pending = x]
                IN  /\ c \in Cycle
                    /\ c.run_id = disk.run_id /\ c.boot_id_before = disk.boot_id_before
                    /\ c.boot_id_after = disk.boot_id_after
                    /\ c.reboot_before_updates = disk.reboot_before_updates
                    /\ c.initial_reboot_completed = disk.initial_reboot_completed
  BY <1>2 DEF Cycle
<1> QED BY <1>1, <1>3, <1>4, <1>5, RaiseFacts

\* A step within a handler that saves nothing.
LEMMA WithinHandlerFacts ==
  ASSUME IInv, Facts, RepairInterrupted \/ BeginApply \/ EnterReboot \/ CommandReboot
  PROVE  Facts'
<1>1. UNCHANGED <<disk, archiveVars, told, started, boot, unbooted>>
  BY FrameFacts
  DEF RepairInterrupted, BeginApply, EnterReboot, CommandReboot, Raise, deliveryVars, envVars,
      machineVars
<1>2. pc' \in {"repaired", "applying", "fail", "reboot.prepare", "down"}
  BY DEF RepairInterrupted, BeginApply, EnterReboot, CommandReboot, Raise, Exit
<1> QED BY <1>1, <1>2, QuietFacts, SameCauses DEF Facts, Telltale, NotYetArchived

\* An upgrade already applied is not repeated.
LEMMA EnterUpgradeFacts ==
  ASSUME IInv, Facts, EnterUpgrade
  PROVE  Facts'
<1>1. /\ UNCHANGED <<archiveVars, told, started, boot, unbooted>> /\ pc = "UPGRADING"
      /\ pc \in HandlerSteps
  BY FrameFacts DEF EnterUpgrade, HandlerSteps
<1>2. cycle \in Cycle /\ cycle = disk /\ disk.state = "UPGRADING"
  BY <1>1, EntryFacts DEF Entries, State
<1>3. CASE MoveTo(cycle, "CHECKING_REBOOT")
  <2>1. Ready(cycle, "CHECKING_REBOOT")
    BY <1>2, ActiveFacts DEF Ready, Late
  <2> QED BY <1>1, <1>2, <1>3, <2>1, MoveFacts DEF Entries, State
<1>4. CASE Raise("preflight-failed")
  BY <1>1, <1>4, RaiseFacts
<1>5. CASE pc' = "apply" /\ UNCHANGED <<disk, cycle, exc>>
  BY <1>1, <1>5, QuietFacts, SameCauses DEF Facts, Telltale, NotYetArchived
<1> QED BY <1>3, <1>4, <1>5 DEF EnterUpgrade

\* A transaction may make a reboot due, on the boot it runs on; it may do so
\* after its process died.
LEMMA TransactionFacts ==
  ASSUME IInv, Facts, pc = "applying", EndApply \/ Crash
  PROVE  Facts'
<1>1. /\ UNCHANGED <<disk, archiveVars, told, started, boot>>
      /\ unbooted' \in BOOLEAN /\ (unbooted => unbooted')
  BY DEF EndApply, Crash, Raise, archiveVars, deliveryVars, envVars
<1>2. /\ cycle.run_id = disk.run_id /\ disk.state = "UPGRADING" /\ disk.boot_id_before = boot
      /\ disk.boot_id_after = 0 /\ disk.run_id # 0
  BY DEF IInv, Core, Position, Memory, OnRecordedBoot, BootFacts, Working, PostRebootResumable,
         TerminalStates
<1>3. disk.run_id = started /\ started \in Nat
  BY <1>2, BoundsAssumption DEF Facts, Ledger, IInv, OtherTypes
<1>4. OwnReboot'
  BY <1>1, <1>2, <1>3 DEF Facts, OwnReboot, Late
<1>5. pc' \in {"applied", "fail", "down"}
  BY DEF EndApply, Crash, Raise, Exit
<1> QED BY <1>1, <1>4, <1>5, QuietFacts DEF Telltale, NotYetArchived

\* The first save of the upgrade handler.
LEMMA SaveAppliedFacts ==
  ASSUME IInv, Facts, SaveApplied
  PROVE  Facts'
<1>1. /\ UNCHANGED <<archiveVars, told, started, boot, unbooted>>
      /\ pc = "applied" /\ pc' = "after_upgrade"
      /\ disk' = [cycle EXCEPT !.updates_applied = TRUE]
  BY FrameFacts DEF SaveApplied
<1>2. cycle \in Cycle /\ cycle = disk /\ disk.state = "UPGRADING"
  BY <1>1, EntryFacts DEF IInv, Core, Position
<1>3. /\ disk'.state = "UPGRADING" /\ disk'.run_id = disk.run_id
      /\ disk'.boot_id_before = disk.boot_id_before /\ disk'.boot_id_after = disk.boot_id_after
      /\ disk'.reboot_before_updates = disk.reboot_before_updates
      /\ disk'.initial_reboot_completed = disk.initial_reboot_completed
  BY <1>1, <1>2 DEF Cycle
<1>4. Ledger'
  BY <1>1, <1>2, <1>3, LedgerKeeps DEF Facts, StaysInHand, NotYetArchived, TerminalStates, archiveVars
<1>5. Records' /\ Telling' /\ Loop'
  BY <1>1, <1>2, <1>3 DEF Facts, Records, Telling, Loop, Truthful, archiveVars
<1>6. OwnReboot'
  BY <1>1, <1>2, <1>3 DEF Facts, OwnReboot, Late
<1> QED BY <1>4, <1>5, <1>6 DEF Facts

\* The cycle moves on as it was saved.
LEMMA AfterUpgradeFacts ==
  ASSUME IInv, Facts, AfterUpgrade
  PROVE  Facts'
<1>1. /\ UNCHANGED <<archiveVars, told, started, boot, unbooted>> /\ pc = "after_upgrade"
      /\ pc \in HandlerSteps /\ MoveTo(disk, "CHECKING_REBOOT")
  BY FrameFacts DEF AfterUpgrade, HandlerSteps
<1>2. disk \in Cycle /\ disk.state = "UPGRADING"
  BY <1>1 DEF IInv, Core, EngineTypes, Position
<1>3. Ready(disk, "CHECKING_REBOOT")
  BY <1>2, ActiveFacts DEF Ready, Late
<1> QED BY <1>1, <1>2, <1>3, MoveFacts DEF Entries, State

-----------------------------------------------------------------------------
(* The reboot and the verification.                                         *)

\* A reboot that the provider requires is decided on, or left to an operator.
LEMMA CheckRebootFacts ==
  ASSUME IInv, Facts, CheckReboot
  PROVE  Facts'
<1>0. PICK required \in BOOLEAN :
        LET c == [cycle EXCEPT !.reboot_required = required]
        IN  \/ Raise("preflight-failed")
            \/ MoveTo([c EXCEPT !.outcome = "MANUAL_REBOOT_REQUIRED"], "VERIFYING")
            \/ MoveTo(c, "REBOOT_PENDING")
            \/ ~required /\ MoveTo(c, "VERIFYING")
  BY DEF CheckReboot
<1> DEFINE c == [cycle EXCEPT !.reboot_required = required]
           d == [c EXCEPT !.outcome = "MANUAL_REBOOT_REQUIRED"]
<1>1. /\ UNCHANGED <<archiveVars, told, started, boot, unbooted>> /\ pc = "CHECKING_REBOOT"
      /\ pc \in HandlerSteps
  BY FrameFacts DEF CheckReboot, HandlerSteps
<1>2. cycle \in Cycle /\ cycle = disk /\ disk.state = "CHECKING_REBOOT"
  BY <1>1, EntryFacts DEF Entries, State
<1>3. \/ Raise("preflight-failed")
      \/ MoveTo(d, "VERIFYING")
      \/ MoveTo(c, "REBOOT_PENDING")
      \/ ~required /\ MoveTo(c, "VERIFYING")
  BY <1>0
<1>4. /\ c \in Cycle /\ c.run_id = disk.run_id /\ c.boot_id_before = disk.boot_id_before
      /\ c.boot_id_after = disk.boot_id_after
      /\ c.reboot_before_updates = disk.reboot_before_updates
      /\ c.initial_reboot_completed = disk.initial_reboot_completed
      /\ ~required => ~c.reboot_required
  <2>1. ASSUME NEW x \in BOOLEAN
        PROVE  LET e == [cycle EXCEPT !.reboot_required = x]
               IN  /\ e \in Cycle /\ e.run_id = disk.run_id
                   /\ e.boot_id_before = disk.boot_id_before
                   /\ e.boot_id_after = disk.boot_id_after
                   /\ e.reboot_before_updates = disk.reboot_before_updates
                   /\ e.initial_reboot_completed = disk.initial_reboot_completed
                   /\ e.reboot_required = x
    BY <1>2 DEF Cycle
  <2> QED BY <2>1
<1> HIDE DEF c
<1>5. /\ d \in Cycle /\ d.run_id = disk.run_id /\ d.boot_id_before = disk.boot_id_before
      /\ d.boot_id_after = disk.boot_id_after
      /\ d.reboot_before_updates = disk.reboot_before_updates
      /\ d.initial_reboot_completed = disk.initial_reboot_completed
      /\ d.outcome = "MANUAL_REBOOT_REQUIRED"
  BY <1>4 DEF Cycle, Outcomes
<1> HIDE DEF d
<1>6. Ready(d, "VERIFYING") /\ Ready(c, "REBOOT_PENDING") /\ (~required => Ready(c, "VERIFYING"))
  BY <1>2, <1>4, <1>5, ActiveFacts DEF Ready, Late, NoneOwed
<1> QED BY <1>1, <1>3, <1>4, <1>5, <1>6, MoveFacts, RaiseFacts DEF Entries, State

\* A reboot that is required is never skipped.
LEMMA DecideRebootFacts ==
  ASSUME IInv, Facts, DecideReboot
  PROVE  Facts'
<1> DEFINE c == [cycle EXCEPT !.outcome = "MANUAL_REBOOT_REQUIRED"]
<1>1. /\ UNCHANGED <<archiveVars, told, started, boot, unbooted>> /\ pc = "REBOOT_PENDING"
      /\ pc \in HandlerSteps
  BY FrameFacts DEF DecideReboot, HandlerSteps
<1>2. cycle \in Cycle /\ cycle = disk /\ disk.state = "REBOOT_PENDING"
  BY <1>1, EntryFacts DEF Entries, State
<1>3. \/ Raise("preflight-failed")
      \/ MoveTo(c, "VERIFYING")
      \/ MoveTo(cycle, "REBOOTING")
      \/ ~cycle.reboot_required /\ MoveTo(cycle, "VERIFYING")
  BY DEF DecideReboot, Evaluate
<1>4. /\ c \in Cycle /\ c.run_id = disk.run_id /\ c.boot_id_before = disk.boot_id_before
      /\ c.boot_id_after = disk.boot_id_after
      /\ c.reboot_before_updates = disk.reboot_before_updates
      /\ c.initial_reboot_completed = disk.initial_reboot_completed
      /\ c.outcome = "MANUAL_REBOOT_REQUIRED"
  BY <1>2 DEF Cycle, Outcomes
<1> HIDE DEF c
<1>5. /\ Ready(c, "VERIFYING") /\ Ready(cycle, "REBOOTING")
      /\ ~cycle.reboot_required => Ready(cycle, "VERIFYING")
  BY <1>2, <1>4, ActiveFacts DEF Ready, Late, NoneOwed
<1> QED BY <1>1, <1>2, <1>3, <1>4, <1>5, MoveFacts, RaiseFacts DEF Entries, State

\* A save within a handler that has told nobody yet.
LEMMA SavedFacts ==
  ASSUME IInv, Facts, UNCHANGED <<archiveVars, told, started, boot, unbooted>>,
         disk.state \notin {"IDLE", "HEALTH_CHECKING", "NOTIFYING"} \cup TerminalStates,
         disk'.run_id = disk.run_id, disk'.state = disk.state,
         disk'.reboot_before_updates = disk.reboot_before_updates,
         disk'.initial_reboot_completed = disk.initial_reboot_completed,
         disk.state \in Late \cup {"REBOOT_PENDING"} =>
           Kept([disk EXCEPT !.verify_passed = disk'.verify_passed], disk'),
         unbooted => disk'.boot_id_before = boot /\ disk'.boot_id_after = 0,
         pc' \notin {"reset", "rereset", "notify.report", "notify.deliver", "notify.record"}
                    \cup NotYetArchived,
         pc' = "verified" => disk'.verify_passed
  PROVE  Facts'
<1>1. Ledger'
  BY LedgerKeeps DEF Facts, StaysInHand, archiveVars
<1>2. Records' /\ Telling' /\ Loop'
  BY DEF Facts, Records, Telling, Loop, Truthful, TerminalStates, archiveVars
<1>3. disk.state \in Late \cup {"REBOOT_PENDING"} =>
        /\ disk'.outcome = disk.outcome /\ disk'.error = disk.error
        /\ disk'.reboot_required = disk.reboot_required
        /\ disk'.boot_id_after = disk.boot_id_after
  BY DEF Kept, IInv, Core, EngineTypes, Cycle
<1>4. OwnReboot'
  BY <1>3 DEF Facts, OwnReboot, NoneOwed
<1> QED BY <1>1, <1>2, <1>4 DEF Facts

\* The attempt is counted and the boot it leaves recorded: the same one, when
\* the updates of the cycle wait for it.
LEMMA PrepareRebootFacts ==
  ASSUME IInv, Facts, PrepareReboot
  PROVE  Facts'
<1>1. /\ UNCHANGED <<archiveVars, told, started, boot, unbooted>> /\ pc = "reboot.prepare"
      /\ disk \in Cycle /\ disk.state = "REBOOTING"
  BY FrameFacts DEF PrepareReboot, IInv, Core, EngineTypes, Position
<1>2. CASE Raise("reboot-failed")
  BY <1>1, <1>2, RaiseFacts
<1>3. CASE /\ disk' = [disk EXCEPT !.boot_id_before = boot,
                                   !.boot_id_after = 0,
                                   !.reboot_attempts = @ + 1]
           /\ pc' = "reboot.command"
  <2>1. /\ disk'.run_id = disk.run_id /\ disk'.state = disk.state
        /\ disk'.reboot_before_updates = disk.reboot_before_updates
        /\ disk'.initial_reboot_completed = disk.initial_reboot_completed
        /\ disk'.boot_id_before = boot /\ disk'.boot_id_after = 0
    BY <1>1, <1>3 DEF Cycle
  <2> QED BY <1>1, <1>3, <2>1, SavedFacts DEF NotYetArchived, TerminalStates, Late
<1> QED BY <1>2, <1>3 DEF PrepareReboot

\* A verified reboot ran on the updates that waited for one.
LEMMA VerifyRebootedFacts ==
  ASSUME IInv, Facts, VerifyRebooted
  PROVE  Facts'
<1>1. /\ UNCHANGED <<archiveVars, told, started, boot, unbooted>> /\ pc = "POST_REBOOT"
  BY FrameFacts DEF VerifyRebooted
<1>2. cycle \in Cycle /\ cycle = disk /\ disk.state = "POST_REBOOT"
  BY <1>1, EntryFacts DEF Entries, State
<1>3. CASE Raise("reboot-failed")
  BY <1>1, <1>3, RaiseFacts
<1>4. CASE /\ cycle.boot_id_before \notin {0, boot}
           /\ disk' = [cycle EXCEPT !.boot_id_after = boot]
           /\ pc' = "after_reboot"
  <2>1. /\ disk'.run_id = disk.run_id /\ disk'.state = disk.state
        /\ disk'.reboot_before_updates = disk.reboot_before_updates
        /\ disk'.initial_reboot_completed = disk.initial_reboot_completed
    BY <1>2, <1>4 DEF Cycle
  <2>2. ~unbooted
    BY <1>2, <1>4, ActiveFacts DEF TerminalStates
  <2> QED BY <1>1, <1>2, <1>4, <2>1, <2>2, SavedFacts DEF NotYetArchived, TerminalStates, Late
<1> QED BY <1>3, <1>4 DEF VerifyRebooted

\* The reboot before the updates is noted as done when its order is taken back.
LEMMA AfterRebootFacts ==
  ASSUME IInv, Facts, AfterReboot
  PROVE  Facts'
<1>1. /\ UNCHANGED <<archiveVars, told, started, boot, unbooted>> /\ pc = "after_reboot"
      /\ pc \in HandlerSteps
  BY FrameFacts DEF AfterReboot, HandlerSteps
<1>2. /\ disk \in Cycle /\ disk.state = "POST_REBOOT" /\ disk.boot_id_after = boot
      /\ boot \in 1 .. MaxBoots
  BY <1>1 DEF IInv, Core, EngineTypes, Position, OnRecordedBoot, BootId
<1>3. ~unbooted /\ told = {}
      /\ (disk.reboot_before_updates => ~disk.initial_reboot_completed)
  BY <1>2, ActiveFacts
<1>4. CASE MoveTo(disk, "VERIFYING")
  <2>1. Ready(disk, "VERIFYING")
    BY <1>2, <1>3 DEF Ready, NoneOwed
  <2> QED BY <1>1, <1>2, <1>4, <2>1, MoveFacts DEF Entries, State
<1>5. CASE MoveTo([disk EXCEPT !.reboot_before_updates = FALSE,
                               !.initial_reboot_completed = TRUE,
                               !.boot_id_before = boot,
                               !.boot_id_after = 0,
                               !.reboot_attempts = 0], "PRECHECK")
  <2> DEFINE c1 == [disk EXCEPT !.reboot_before_updates = FALSE]
             c2 == [c1 EXCEPT !.initial_reboot_completed = TRUE]
             c3 == [c2 EXCEPT !.boot_id_before = boot]
             c4 == [c3 EXCEPT !.boot_id_after = 0]
             c5 == [c4 EXCEPT !.reboot_attempts = 0]
  <2>1. MoveTo(c5, "PRECHECK")
    BY <1>5
  <2>2. c1 \in Cycle /\ c1.run_id = disk.run_id /\ ~c1.reboot_before_updates
    BY <1>2 DEF Cycle
  <2> HIDE DEF c1
  <2>3. c2 \in Cycle /\ c2.run_id = disk.run_id /\ ~c2.reboot_before_updates
    BY <2>2 DEF Cycle
  <2> HIDE DEF c2
  <2>4. c3 \in Cycle /\ c3.run_id = disk.run_id /\ ~c3.reboot_before_updates
    BY <1>2, <2>3, SetBootBefore DEF Cycle
  <2> HIDE DEF c3
  <2>5. c4 \in Cycle /\ c4.run_id = disk.run_id /\ ~c4.reboot_before_updates
    BY <2>4, SetBootAfter, BoundsAssumption DEF Cycle
  <2> HIDE DEF c4
  <2>6. c5 \in Cycle /\ c5.run_id = disk.run_id /\ ~c5.reboot_before_updates
    BY <2>5, SetAttempts, BoundsAssumption DEF Cycle
  <2> HIDE DEF c5
  <2>7. Ready(c5, "PRECHECK")
    BY <1>3, <2>6 DEF Ready, Late
  <2> QED BY <1>1, <2>1, <2>6, <2>7, MoveFacts DEF Entries, State
<1> QED BY <1>4, <1>5 DEF AfterReboot

\* Verification passes a cycle on only when it says so on disk.
LEMMA VerifyPackagesFacts ==
  ASSUME IInv, Facts, VerifyPackages
  PROVE  Facts'
<1>1. /\ UNCHANGED <<archiveVars, told, started, boot, unbooted>> /\ pc = "VERIFYING"
  BY FrameFacts DEF VerifyPackages
<1>2. cycle \in Cycle /\ cycle = disk /\ disk.state = "VERIFYING"
  BY <1>1, EntryFacts DEF Entries, State
<1>3. CASE Raise("preflight-failed")
  BY <1>1, <1>3, RaiseFacts
<1>4. ASSUME NEW x \in BOOLEAN, disk' = [cycle EXCEPT !.verify_passed = x],
             pc' = IF x THEN "verified" ELSE "fail"
      PROVE  Facts'
  <2>1. /\ disk'.run_id = disk.run_id /\ disk'.state = disk.state
        /\ disk'.reboot_before_updates = disk.reboot_before_updates
        /\ disk'.initial_reboot_completed = disk.initial_reboot_completed
        /\ disk'.boot_id_before = disk.boot_id_before
        /\ disk'.boot_id_after = disk.boot_id_after
        /\ disk'.verify_passed = x
    BY <1>2, <1>4 DEF Cycle
  <2>2. Kept([disk EXCEPT !.verify_passed = disk'.verify_passed], disk')
    BY <1>2, <1>4, <2>1 DEF Kept, Cycle
  <2> QED BY <1>1, <1>2, <1>4, <2>1, <2>2, ActiveFacts, SavedFacts DEF NotYetArchived, TerminalStates
<1>5. (pkgs = "current") \in BOOLEAN
  OBVIOUS
<1> QED BY <1>3, <1>4, <1>5 DEF VerifyPackages

\* A verified cycle moves on as it was saved.
LEMMA PackagesVerifiedFacts ==
  ASSUME IInv, Facts, PackagesVerified
  PROVE  Facts'
<1>1. /\ UNCHANGED <<archiveVars, told, started, boot, unbooted>> /\ pc = "verified"
      /\ pc \in HandlerSteps /\ MoveTo(disk, "HEALTH_CHECKING")
  BY FrameFacts DEF PackagesVerified, HandlerSteps
<1>2. disk \in Cycle /\ disk.state = "VERIFYING" /\ disk.verify_passed
  BY <1>1 DEF IInv, Core, EngineTypes, Position, Facts, Records
<1>3. Ready(disk, "HEALTH_CHECKING")
  BY <1>2, ActiveFacts DEF Ready, Late
<1> QED BY <1>1, <1>2, <1>3, MoveFacts DEF Entries, State

\* The health checks are the last thing the outcome rests on.
LEMMA CheckHealthFacts ==
  ASSUME IInv, Facts, CheckHealth
  PROVE  Facts'
<1>1. /\ UNCHANGED <<archiveVars, told, started, boot, unbooted>> /\ pc = "HEALTH_CHECKING"
      /\ pc \in HandlerSteps
  BY FrameFacts DEF CheckHealth, HandlerSteps
<1>2. /\ cycle \in Cycle /\ cycle = disk /\ disk.state = "HEALTH_CHECKING" /\ disk.verify_passed
  BY <1>1, EntryFacts DEF Entries, State, Facts, Records
<1>3. PICK health \in {"ok", "warning", "critical"} :
        MoveTo([cycle EXCEPT !.health_results = health,
                             !.error = IF health = "critical"
                                       THEN "health-check-failed" ELSE @], "NOTIFYING")
  BY DEF CheckHealth
<1> DEFINE e == IF health = "critical" THEN "health-check-failed" ELSE cycle.error
           c == [cycle EXCEPT !.health_results = health, !.error = e]
<1>4. e \in ErrorKinds /\ (disk.error = "health-check-failed" => e = disk.error)
  BY <1>2 DEF Cycle, ErrorKinds
<1>5. MoveTo(c, "NOTIFYING")
  BY <1>3
<1> HIDE DEF e
<1>6. /\ c \in Cycle /\ c.run_id = disk.run_id /\ c.boot_id_before = disk.boot_id_before
      /\ c.boot_id_after = disk.boot_id_after
      /\ c.reboot_before_updates = disk.reboot_before_updates
      /\ c.initial_reboot_completed = disk.initial_reboot_completed
      /\ c.verify_passed = disk.verify_passed /\ c.outcome = disk.outcome /\ c.error = e
      /\ c.reboot_required = disk.reboot_required
  BY <1>2, <1>4 DEF Cycle
<1> HIDE DEF c
<1>7. Ready(c, "NOTIFYING")
  BY <1>2, <1>4, <1>6, ActiveFacts DEF Ready, Late, NoneOwed
<1> QED BY <1>1, <1>5, <1>6, <1>7, MoveFacts DEF Entries, State

-----------------------------------------------------------------------------
(* The outcome and its delivery.                                            *)

\* Saving the outcome that the facts give changes no fact it rests on.
LEMMA SaveOutcomeTwice ==
  ASSUME NEW c \in Cycle
  PROVE  LET d == [c EXCEPT !.outcome = FinalOutcome(c)]
         IN  /\ d \in Cycle /\ d.state = c.state /\ d.run_id = c.run_id
             /\ d.boot_id_before = c.boot_id_before /\ d.boot_id_after = c.boot_id_after
             /\ d.reboot_before_updates = c.reboot_before_updates
             /\ d.initial_reboot_completed = c.initial_reboot_completed
             /\ d.verify_passed = c.verify_passed
             /\ d.outcome = FinalOutcome(c)
             /\ FinalOutcome(d) = FinalOutcome(c)
             /\ NoneOwed(c) => NoneOwed(d)
<1> DEFINE o == FinalOutcome(c)
           d == [c EXCEPT !.outcome = o]
<1>1. o \in Outcomes /\ (o = "MANUAL_REBOOT_REQUIRED" => c.outcome = "MANUAL_REBOOT_REQUIRED")
  BY FinalOutcomeType DEF FinalOutcome
<1>2. c.outcome = "MANUAL_REBOOT_REQUIRED" /\ c.error # "health-check-failed" => o = "MANUAL_REBOOT_REQUIRED"
  BY DEF FinalOutcome
<1> HIDE DEF o
<1>3. /\ d \in Cycle /\ d.state = c.state /\ d.run_id = c.run_id
      /\ d.boot_id_before = c.boot_id_before /\ d.boot_id_after = c.boot_id_after
      /\ d.reboot_before_updates = c.reboot_before_updates
      /\ d.initial_reboot_completed = c.initial_reboot_completed
      /\ d.verify_passed = c.verify_passed /\ d.outcome = o
      /\ d.reboot_required = c.reboot_required
      /\ d.error = c.error /\ d.warnings = c.warnings /\ d.health_results = c.health_results
      /\ d.updates_applied = c.updates_applied /\ d.packages_pending = c.packages_pending
  BY <1>1 DEF Cycle
<1> HIDE DEF d
<1>4. FinalOutcome(d) = FinalOutcome(c)
  BY <1>1, <1>2, <1>3 DEF FinalOutcome
<1>5. NoneOwed(c) => NoneOwed(d)
  BY <1>2, <1>3 DEF NoneOwed
<1> QED BY <1>3, <1>4, <1>5 DEF d, o

\* The outcome is on disk before anybody is told of it.
LEMMA SaveOutcomeFacts ==
  ASSUME IInv, Facts, SaveOutcome
  PROVE  Facts'
<1>1. /\ UNCHANGED <<archiveVars, told, started, boot, unbooted>> /\ pc = "NOTIFYING"
      /\ pc' = "notify.report" /\ disk' = [cycle EXCEPT !.outcome = FinalOutcome(cycle)]
  BY FrameFacts DEF SaveOutcome
<1>2. cycle \in Cycle /\ cycle = disk /\ disk.state = "NOTIFYING"
  BY <1>1, EntryFacts DEF Entries, State
<1>3. /\ disk'.state = "NOTIFYING" /\ disk'.run_id = disk.run_id
      /\ disk'.boot_id_before = disk.boot_id_before /\ disk'.boot_id_after = disk.boot_id_after
      /\ disk'.reboot_before_updates = disk.reboot_before_updates
      /\ disk'.initial_reboot_completed = disk.initial_reboot_completed
      /\ disk'.verify_passed = disk.verify_passed
      /\ disk'.outcome = FinalOutcome(disk) /\ FinalOutcome(disk') = FinalOutcome(disk)
      /\ NoneOwed(disk) => NoneOwed(disk')
  BY <1>1, <1>2, SaveOutcomeTwice
<1>4. Ledger'
  BY <1>1, <1>2, <1>3, LedgerKeeps DEF Facts, StaysInHand, NotYetArchived, TerminalStates, archiveVars
<1>5. Records' /\ Telling' /\ Loop'
  BY <1>1, <1>2, <1>3 DEF Facts, Records, Telling, Loop, Truthful, archiveVars
<1>6. OwnReboot'
  BY <1>1, <1>2, <1>3 DEF Facts, OwnReboot, Late
<1> QED BY <1>4, <1>5, <1>6 DEF Facts

\* The report is there before the deliveries, which leave out only notifiers
\* that were told.
LEMMA SaveReportFacts ==
  ASSUME IInv, Facts, SaveReport
  PROVE  Facts'
<1>1. /\ UNCHANGED <<disk, history, told, started, boot, unbooted>>
      /\ pc = "notify.report" /\ pc' = "notify.deliver"
      /\ reports' = reports \cup {disk.run_id} /\ status' = disk.notification_status
      /\ todo' = {n \in Notifiers : disk.notification_status[n] # "sent"}
  BY DEF SaveReport, machineVars, envVars
<1>2. disk.state = "NOTIFYING"
  BY <1>1 DEF IInv, Core, Position
<1>3. Ledger'
  BY <1>1, LedgerKeeps DEF Facts, StaysInHand, NotYetArchived
<1>4. Records' /\ Telling' /\ Loop'
  BY <1>1, <1>2 DEF Facts, Records, Telling, Loop, Truthful
<1>5. OwnReboot'
  BY <1>1, SameCauses DEF Facts
<1> QED BY <1>3, <1>4, <1>5 DEF Facts

\* What is delivered is the outcome on disk.
LEMMA DeliverFacts ==
  ASSUME IInv, Facts, NEW n \in Notifiers, Deliver(n)
  PROVE  Facts'
<1>1. /\ UNCHANGED <<disk, archiveVars, started, boot, unbooted>>
      /\ pc = "notify.deliver" /\ pc' = "notify.record" /\ todo' = todo \ {n} /\ DeliverTo(n)
  BY DEF Deliver, machineVars, envVars
<1>2. /\ disk.state = "NOTIFYING" /\ disk.outcome = FinalOutcome(disk)
      /\ status \in [Notifiers -> DeliveryStatus]
  BY <1>1 DEF IInv, Core, Position, OtherTypes, Facts, Loop
<1>3. Ledger'
  BY <1>1, LedgerKeeps DEF Facts, StaysInHand, NotYetArchived, archiveVars
<1>4. Records' /\ Telling'
  BY <1>1, <1>2 DEF Facts, Records, Telling, Truthful, DeliverTo, archiveVars
<1>5. Loop'
  <2>1. PICK result \in {"sent", "failed"} : status' = [status EXCEPT ![n] = result]
    BY <1>1 DEF DeliverTo
  <2>2. \A m \in Notifiers \ todo' : status'[m] # "unset"
    BY <1>1, <1>2, <2>1 DEF Facts, Loop
  <2> QED BY <1>1, <1>2, <2>2 DEF Facts, Loop, archiveVars
<1>6. OwnReboot'
  BY <1>1, SameCauses DEF Facts
<1> QED BY <1>3, <1>4, <1>5, <1>6 DEF Facts

\* What was tried is recorded before the next notifier is.
LEMMA RecordDeliveryFacts ==
  ASSUME IInv, Facts, RecordDelivery
  PROVE  Facts'
<1>1. /\ UNCHANGED <<archiveVars, told, started, boot, unbooted>> /\ UNCHANGED <<todo, status>>
      /\ pc = "notify.record" /\ pc' = "notify.deliver"
      /\ disk' = [disk EXCEPT !.notification_status = status]
  BY FrameFacts DEF RecordDelivery
<1>2. disk \in Cycle /\ disk.state = "NOTIFYING" /\ status \in [Notifiers -> DeliveryStatus]
  BY <1>1 DEF IInv, Core, EngineTypes, OtherTypes, Position
<1>3. /\ disk'.state = "NOTIFYING" /\ disk'.run_id = disk.run_id
      /\ disk'.boot_id_before = disk.boot_id_before /\ disk'.boot_id_after = disk.boot_id_after
      /\ disk'.reboot_before_updates = disk.reboot_before_updates
      /\ disk'.initial_reboot_completed = disk.initial_reboot_completed
      /\ disk'.verify_passed = disk.verify_passed
      /\ disk'.outcome = disk.outcome /\ disk'.error = disk.error
      /\ disk'.warnings = disk.warnings /\ disk'.health_results = disk.health_results
      /\ disk'.updates_applied = disk.updates_applied
      /\ disk'.packages_pending = disk.packages_pending
      /\ disk'.reboot_required = disk.reboot_required
      /\ disk'.notification_status = status
  BY <1>1, <1>2 DEF Cycle
<1>4. FinalOutcome(disk') = FinalOutcome(disk) /\ (NoneOwed(disk) => NoneOwed(disk'))
  BY <1>3 DEF FinalOutcome, NoneOwed
<1>5. Ledger'
  BY <1>1, <1>2, <1>3, LedgerKeeps DEF Facts, StaysInHand, NotYetArchived, TerminalStates, archiveVars
<1>6. Records' /\ Telling' /\ Loop'
  BY <1>1, <1>2, <1>3, <1>4 DEF Facts, Records, Telling, Loop, Truthful, archiveVars
<1>7. OwnReboot'
  BY <1>1, <1>2, <1>3, <1>4 DEF Facts, OwnReboot, Late
<1> QED BY <1>5, <1>6, <1>7 DEF Facts

\* A cycle that completes says of itself what is so.
LEMMA NotifiedFacts ==
  ASSUME IInv, Facts, Notified
  PROVE  Facts'
<1>1. /\ UNCHANGED <<archiveVars, told, started, boot, unbooted>> /\ pc = "notify.deliver"
      /\ pc \in HandlerSteps /\ todo = {} /\ MoveTo(disk, "COMPLETED")
  BY FrameFacts DEF Notified, HandlerSteps
<1>2. disk \in Cycle /\ disk.state = "NOTIFYING"
  BY <1>1 DEF IInv, Core, EngineTypes, Position
<1>3. Truthful(disk)
  BY <1>1, <1>2 DEF Facts, Records, Loop, Truthful
<1>4. Ready(disk, "COMPLETED")
  BY <1>2, <1>3 DEF Ready, Late, Facts, Records, Telling, OwnReboot, IInv, Core, BootFacts
<1> QED BY <1>1, <1>2, <1>4, MoveFacts DEF Entries, State

\* The last save of a completed cycle changes nothing.
LEMMA CompleteFacts ==
  ASSUME IInv, Facts, Complete
  PROVE  Facts'
<1>1. /\ UNCHANGED <<archiveVars, told, started, boot, unbooted>> /\ pc = "COMPLETED"
      /\ pc' = "archive" /\ disk' = [cycle EXCEPT !.outcome = FinalOutcome(cycle)]
  BY FrameFacts DEF Complete
<1>2. cycle \in Cycle /\ cycle = disk /\ disk.state = "COMPLETED"
  BY <1>1 DEF IInv, Core, EngineTypes, Position, Memory, Entries, State
<1>3. FinalOutcome(cycle) = cycle.outcome
  BY <1>2 DEF Facts, Records, Truthful
<1>4. disk' = disk
  BY <1>1, <1>2, <1>3 DEF Cycle
<1> QED BY <1>1, <1>4, QuietFacts, SameCauses DEF Facts, Telltale, NotYetArchived

-----------------------------------------------------------------------------
(* The failure path.                                                        *)

\* A failure that is recorded, and is not in the archive yet.
LEMMA FailingFacts ==
  ASSUME IInv, Facts, pc \in {"fail", "fail.record", "fail.hooks", "fail.report", "fail.deliver"},
         UNCHANGED <<history, started, boot, unbooted>>, reports \subseteq reports',
         disk'.state = "FAILED", disk'.run_id = disk.run_id,
         disk'.boot_id_before = disk.boot_id_before, disk'.boot_id_after = disk.boot_id_after,
         disk'.reboot_before_updates = disk.reboot_before_updates,
         disk'.initial_reboot_completed = disk.initial_reboot_completed,
         pc' \in {"fail.record", "fail.hooks", "fail.report", "fail.deliver", "archive"}
  PROVE  Facts'
<1>1. disk.state \notin TerminalStates \cup {"IDLE"} \/ pc \in NotYetArchived
  BY DEF IInv, Core, Position, NotYetArchived
<1>2. Ledger'
  BY <1>1, LedgerKeeps DEF Facts, StaysInHand
<1>3. Records' /\ Telling' /\ Loop'
  BY DEF Facts, Records, Telling, Loop, Truthful
<1>4. OwnReboot'
  BY DEF Facts, OwnReboot, Late
<1> QED BY <1>2, <1>3, <1>4 DEF Facts

\* From the error to the archive.
LEMMA FailureFacts ==
  ASSUME IInv, Facts,
         \/ Fail \/ RecordError \/ FailureHooks \/ ReportFailure \/ FailureNotified
         \/ \E n \in Notifiers : DeliverFailure(n)
  PROVE  Facts'
<1>1. /\ disk \in Cycle /\ cycle.run_id = disk.run_id /\ disk.state \in State
      /\ pc \in {"fail.record", "fail.hooks", "fail.report", "fail.deliver"} =>
           cycle = disk /\ disk.state = "FAILED"
  BY DEF IInv, Core, EngineTypes, Position, Memory, Working, Cycle,
         Fail, RecordError, FailureHooks, ReportFailure, FailureNotified, DeliverFailure
<1>2. CASE Fail
  <2>1. disk' = [disk EXCEPT !.state = "FAILED"] /\ pc' = "fail.record" /\ pc = "fail"
        /\ UNCHANGED <<archiveVars, started, boot, unbooted>>
    BY <1>1, <1>2 DEF Fail, machineVars, envVars
  <2>2. disk'.state = "FAILED" /\ Kept(disk, disk')
    BY <1>1, <2>1, SetStateKeeps DEF State
  <2> QED BY <2>1, <2>2, FailingFacts DEF Kept, archiveVars
<1>3. CASE RecordError
  <2> DEFINE o == IF exc = "preflight-failed" THEN "BLOCKED" ELSE "FAILED"
  <2>1. disk' = [disk EXCEPT !.error = exc, !.outcome = o] /\ pc' = "fail.hooks" /\ pc = "fail.record"
        /\ UNCHANGED <<archiveVars, started, boot, unbooted>>
    BY <1>1, <1>3, FrameFacts DEF RecordError
  <2> HIDE DEF o
  <2>2. /\ disk'.state = disk.state /\ disk'.run_id = disk.run_id
        /\ disk'.boot_id_before = disk.boot_id_before /\ disk'.boot_id_after = disk.boot_id_after
        /\ disk'.reboot_before_updates = disk.reboot_before_updates
        /\ disk'.initial_reboot_completed = disk.initial_reboot_completed
    BY <1>1, <2>1 DEF Cycle
  <2> QED BY <1>1, <2>1, <2>2, FailingFacts DEF archiveVars
<1>4. CASE FailureHooks \/ ReportFailure \/ \E n \in Notifiers : DeliverFailure(n)
  <2>1. /\ UNCHANGED <<disk, history, started, boot, unbooted>> /\ reports \subseteq reports'
        /\ pc \in {"fail.hooks", "fail.report", "fail.deliver"}
        /\ pc' \in {"fail.report", "fail.deliver"}
    BY <1>4, FrameFacts DEF FailureHooks, ReportFailure, DeliverFailure, archiveVars, machineVars, envVars
  <2> QED BY <1>1, <2>1, FailingFacts
<1>5. CASE FailureNotified
  <2>1. /\ disk' = [disk EXCEPT !.notification_status = status] /\ pc' = "archive" /\ pc = "fail.deliver"
        /\ UNCHANGED <<archiveVars, started, boot, unbooted>>
    BY <1>1, <1>5, FrameFacts DEF FailureNotified
  <2>2. /\ disk'.state = disk.state /\ disk'.run_id = disk.run_id
        /\ disk'.boot_id_before = disk.boot_id_before /\ disk'.boot_id_after = disk.boot_id_after
        /\ disk'.reboot_before_updates = disk.reboot_before_updates
        /\ disk'.initial_reboot_completed = disk.initial_reboot_completed
    BY <1>1, <2>1 DEF Cycle
  <2> QED BY <1>1, <2>1, <2>2, FailingFacts DEF archiveVars
<1> QED BY <1>2, <1>3, <1>4, <1>5

-----------------------------------------------------------------------------
(* The archive, and the life of processes and of the machine.               *)

\* The archive takes the cycle as it is on disk, again after a crash.
LEMMA ArchiveFacts ==
  ASSUME IInv, Facts, Archive
  PROVE  Facts'
<1>1. /\ UNCHANGED <<disk, reports, told, started, boot, unbooted>>
      /\ history' = [history EXCEPT ![disk.run_id] = disk] /\ pc' \in {"reset", "rereset"}
      /\ pc \in {"archive", "rearchive"}
  BY DEF Archive, deliveryVars, machineVars, envVars
<1>2. disk.state \in TerminalStates /\ disk \in Cycle
  BY <1>1 DEF IInv, Core, Position, EngineTypes
<1>3. disk.run_id \in 0 .. MaxRuns /\ disk.run_id # 0
  BY <1>2 DEF IInv, Core, BootFacts, Cycle, TerminalStates
<1>4. disk.run_id \in RunId /\ history \in [RunId -> Cycle] /\ started \in Nat /\ disk.run_id = started
  BY <1>3, BoundsAssumption DEF RunId, IInv, OtherTypes, Facts, Ledger
<1>5. history'[disk.run_id] = disk /\ \A r \in RunId \ {disk.run_id} : history'[r] = history[r]
  BY <1>1, <1>4
<1>6. Ledger'
  BY <1>1, <1>2, <1>4, <1>5 DEF Facts, Ledger, NotYetArchived, RunId
<1>7. Records' /\ Telling' /\ Loop'
  BY <1>1, <1>4, <1>5 DEF Facts, Records, Telling, Loop, Truthful
<1>8. OwnReboot'
  BY <1>1, SameCauses DEF Facts
<1> QED BY <1>6, <1>7, <1>8 DEF Facts

\* Only what the archive holds is let go of.
LEMMA ResetFacts ==
  ASSUME IInv, Facts, Reset \/ ResetForNewCycle
  PROVE  Facts'
<1>1. /\ UNCHANGED <<archiveVars, told, started, boot, unbooted>> /\ disk' = Idle
      /\ pc' \in {"down", "new"} /\ pc \in {"reset", "rereset"}
  BY FrameFacts DEF Reset, ResetForNewCycle, Exit, machineVars, envVars
<1>2. Idle.run_id = 0 /\ Idle.state = "IDLE" /\ ~Idle.reboot_before_updates
  BY DEF Idle, FreshCycle
<1>3. Ledger'
  BY <1>1, <1>2 DEF Facts, Ledger, NotYetArchived, RunId, archiveVars
<1>4. Records' /\ Telling' /\ Loop'
  BY <1>1, <1>2 DEF Facts, Records, Telling, Loop, Truthful, archiveVars
<1>5. OwnReboot'
  BY <1>1, <1>2 DEF Facts, OwnReboot, Late
<1> QED BY <1>3, <1>4, <1>5 DEF Facts

\* A new cycle takes the next number, with everything before it in the archive.
LEMMA NewCycleFacts ==
  ASSUME IInv, Facts, NewCycle
  PROVE  Facts'
<1>1. pc = "new" /\ UNCHANGED <<archiveVars, boot>> /\ disk.state = "IDLE"
  BY DEF NewCycle, machineVars, IInv, Core, Position
<1>2. CASE Exit /\ UNCHANGED <<disk, told, started, unbooted>>
  BY <1>1, <1>2, QuietFacts, SameCauses DEF Facts, Exit, Telltale, NotYetArchived
<1>3. CASE started < MaxRuns /\ MoveTo(FreshCycle(started + 1), "PRECHECK")
           /\ started' = started + 1 /\ told' = {} /\ unbooted' = FALSE
  <2> DEFINE r == started + 1
             c == FreshCycle(r)
  <2>1. r \in 0 .. MaxRuns /\ started \in Nat /\ disk.run_id = 0
    BY <1>1, <1>3, BoundsAssumption DEF IInv, OtherTypes, Core, BootFacts
  <2>2. /\ c \in Cycle /\ c.state = "IDLE" /\ c.run_id = r /\ ~c.reboot_before_updates
    BY <2>1, FreshCycleType DEF FreshCycle
  <2>3. IsLegalTransition("IDLE", "PRECHECK")
    BY DEF IsLegalTransition, Transitions, State
  <2>4. disk' = [c EXCEPT !.state = "PRECHECK"] /\ pc' = "PRECHECK"
    BY <1>3, <2>2, <2>3 DEF MoveTo
  <2> HIDE DEF c
  <2>5. disk'.state = "PRECHECK" /\ Kept(c, disk')
    BY <2>2, <2>4, SetStateKeeps DEF State
  <2>6. disk'.run_id = r /\ ~disk'.reboot_before_updates
    BY <2>2, <2>5 DEF Kept
  <2>7. Ledger'
    BY <1>1, <1>3, <2>1, <2>4, <2>6 DEF Facts, Ledger, NotYetArchived, RunId, archiveVars
  <2>8. Records' /\ Telling' /\ Loop'
    BY <1>1, <1>3, <2>4, <2>5, <2>6 DEF Facts, Records, Telling, Loop, Truthful, archiveVars
  <2>9. OwnReboot'
    BY <1>3, <2>4, <2>5 DEF OwnReboot, Late
  <2> QED BY <2>7, <2>8, <2>9 DEF Facts
<1> QED BY <1>2, <1>3 DEF NewCycle

\* A process goes on from the state on disk, or from one that nothing is asked
\* of.
LEMMA ProceedFacts ==
  ASSUME IInv, Facts, pc = "down", disk.state \notin TerminalStates \cup {"IDLE"},
         UNCHANGED <<archiveVars, told, started, boot, unbooted>>,
         pc' \in Entries \ {"COMPLETED"}, disk'.state = pc', Kept(disk, disk') \/ disk' = disk,
         \/ pc' = disk.state
         \/ pc' \in {"PRECHECK", "POST_REBOOT"} /\ disk.state # "NOTIFYING"
  PROVE  Facts'
<1>1. Kept(disk, disk')
  BY DEF Kept
<1>2. PICK s \in Entries \ {"COMPLETED"} : s = pc'
  OBVIOUS
<1>3. Ready(disk, s)
  <2>1. CASE s = "NOTIFYING"
    BY <1>2, <2>1 DEF Ready, Late, Facts, Records, Telling, OwnReboot, IInv, Core, BootFacts
  <2>2. CASE s # "NOTIFYING"
    BY <1>2, <2>2, ActiveFacts DEF Ready, Late, Facts, Records, TerminalStates
  <2> QED BY <2>1, <2>2
<1> QED BY <1>1, <1>2, <1>3, MovedFacts

\* A process that fails the cycle it loads, or stays within a save of it.
LEMMA StartFacts ==
  ASSUME IInv, Facts, pc = "down", UNCHANGED <<archiveVars, told, started, boot, unbooted>>,
         disk' = disk, pc' \in {"fail", "new", "archive", "rearchive", "down"}
  PROVE  Facts'
BY QuietFacts, SameCauses DEF Facts, Telltale, NotYetArchived

\* A process that drives a cycle from the state it is in leaves it as it is.
LEMMA DriveOn ==
  ASSUME NEW s, disk \in Cycle, s = disk.state, DriveFrom(s)
  PROVE  disk' = disk /\ pc' \in {s, pc}
<1>1. [disk EXCEPT !.state = s] = disk
  BY DEF Cycle
<1> QED BY <1>1 DEF DriveFrom, engineVars

\* What the recoveries do to the loaded cycle.
Recovery ==
  \/ disk' = disk /\ pc' \in {"fail", "down", disk.state}
  \/ /\ disk.state \in {"REBOOTING", "POST_REBOOT"} /\ BootChanged(disk)
     /\ DriveFrom("POST_REBOOT")
  \/ disk.state \in EarlyStates /\ DriveFrom("PRECHECK")

LEMMA RecoverySteps ==
  ASSUME IInv, pc = "down", disk.state \notin TerminalStates \cup {"IDLE"},
         RecoverSameBoot \/ (disk.state = "REBOOTING" /\ RebootNeverHappened)
  PROVE  Recovery
<1>1. PICK s : s = disk.state
  OBVIOUS
<1>2. DriveFrom(s) => disk' = disk /\ pc' \in {s, pc}
  BY <1>1, DriveOn DEF IInv, Core, EngineTypes
<1>3. disk.state = "REBOOTING" /\ RebootNeverHappened => Recovery
  BY <1>1, <1>2 DEF RebootNeverHappened, Recovery, FailLoaded
<1>4. CASE RecoverSameBoot
  <2>1. disk.state \in State
    BY DEF IInv, Core, EngineTypes, Cycle
  <2> QED BY <1>1, <1>2, <1>3, <1>4, <2>1
          DEF RecoverSameBoot, Recovery, FailLoaded, SameBootResumable, EarlyStates, State, TerminalStates
<1> QED BY <1>3, <1>4

\* Each recovery keeps the facts.
LEMMA RecoveryFacts ==
  ASSUME IInv, Facts, pc = "down", disk.state \notin TerminalStates \cup {"IDLE"},
         UNCHANGED <<archiveVars, told, started, boot, unbooted>>, Recovery
  PROVE  Facts'
<1>1. disk.state \in Entries \ {"COMPLETED"} /\ disk \in Cycle
  BY DEF IInv, Core, EngineTypes, Cycle, Entries, TerminalStates
<1>2. CASE disk' = disk /\ pc' \in {"fail", "down"}
  BY <1>2, StartFacts
<1>3. CASE disk' = disk /\ pc' = disk.state
  BY <1>1, <1>3, ProceedFacts
<1>4. ASSUME NEW s \in {"PRECHECK", "POST_REBOOT"}, disk.state # "NOTIFYING",
             disk' = [disk EXCEPT !.state = s] /\ pc' = s
      PROVE  Facts'
  <2>1. s \in State
    BY <1>4 DEF State
  <2>2. disk'.state = s /\ Kept(disk, disk')
    BY <1>1, <1>4, <2>1, SetStateKeeps
  <2> QED BY <1>4, <2>2, ProceedFacts DEF Entries, State
<1>5. disk.state \in {"REBOOTING", "POST_REBOOT"} \cup EarlyStates => disk.state # "NOTIFYING"
  BY DEF EarlyStates
<1> QED BY <1>2, <1>3, <1>4, <1>5 DEF Recovery, DriveFrom, engineVars

\* A process that starts recovers the cycle, or leaves it as it is.
LEMMA StartSteps ==
  ASSUME IInv, Run \/ Resume
  PROVE  \/ disk' = disk /\ pc' \in {"fail", "new", "archive", "rearchive", "down"}
         \/ disk.state \notin TerminalStates \cup {"IDLE"} /\ Recovery
<1>1. pc = "down"
  BY DEF Run, Resume
<1>2. CASE Run
  <2>1. disk.state \notin TerminalStates \cup {"IDLE"} /\ RecoverSameBoot => Recovery
    BY <1>1, RecoverySteps
  <2> QED BY <1>2, <2>1 DEF Run
<1>3. CASE Resume
  <2> DEFINE target == ResumeTarget(disk.state, BootChanged(disk))
  <2>1. ASSUME disk.state \notin TerminalStates \cup {"IDLE"}
        PROVE  RecoverSameBoot \/ (disk.state = "REBOOTING" /\ RebootNeverHappened) => Recovery
    BY <1>1, <2>1, RecoverySteps
  <2>2. target # "NONE" /\ DriveFrom(target) => Recovery
    <3>1. PICK s : s = target
      OBVIOUS
    <3>2. CASE s = disk.state /\ DriveFrom(s)
      BY <1>1, <3>2, DriveOn DEF IInv, Core, EngineTypes, Recovery
    <3>3. CASE s = "POST_REBOOT" /\ disk.state = "REBOOTING" /\ BootChanged(disk) /\ DriveFrom(s)
      BY <3>3 DEF Recovery
    <3> QED BY <3>1, <3>2, <3>3 DEF ResumeTarget
  <2> HIDE DEF target
  <2>3. \/ disk' = disk /\ pc' \in {"archive", "down", "fail"}
        \/ /\ disk.state \notin TerminalStates \cup {"IDLE"}
           /\ \/ RecoverSameBoot
              \/ disk.state = "REBOOTING" /\ RebootNeverHappened
              \/ target # "NONE" /\ DriveFrom(target)
    BY <1>1, <1>3 DEF Resume, FailLoaded, engineVars, target
  <2> QED BY <2>1, <2>2, <2>3
<1> QED BY <1>2, <1>3

\* Either keeps the facts.
LEMMA RunResumeFacts ==
  ASSUME IInv, Facts, Run \/ Resume
  PROVE  Facts'
<1>1. pc = "down" /\ UNCHANGED <<archiveVars, told, started, boot, unbooted>>
  BY DEF Run, Resume, StartFrame, deliveryVars, machineVars, envVars
<1> QED BY <1>1, StartSteps, StartFacts, RecoveryFacts

\* The end of a process or of the machine's boot, and everything else outside.
LEMMA OutsideFacts ==
  ASSUME IInv, Facts, Crash \/ Reboot \/ GrowStale \/ EditConfig \/ UNCHANGED vars
  PROVE  Facts'
<1>1. CASE Crash /\ pc = "applying"
  BY <1>1, TransactionFacts
<1>2. CASE (Crash /\ pc # "applying") \/ Reboot
  <2>1. /\ UNCHANGED <<disk, archiveVars, told, started>> /\ pc' = "down"
        /\ UNCHANGED <<boot, unbooted>> \/ unbooted' = FALSE
    BY <1>2 DEF Crash, Reboot, Exit, envVars
  <2> QED BY <2>1, QuietFacts, SameCauses DEF Facts, Telltale, NotYetArchived
<1>3. CASE GrowStale \/ EditConfig \/ UNCHANGED vars
  <2>1. UNCHANGED <<disk, archiveVars, told, started, boot, unbooted, pc, todo, status>>
    BY <1>3 DEF GrowStale, EditConfig, vars, deliveryVars, machineVars, envVars, engineVars
  <2> QED BY <2>1 DEF Facts, Ledger, Records, Telling, Loop, OwnReboot, Truthful, archiveVars
<1> QED BY <1>1, <1>2, <1>3

-----------------------------------------------------------------------------
(* The facts hold throughout.                                               *)

LEMMA InitFacts == Init => Facts
<1> SUFFICES ASSUME Init PROVE Facts
  OBVIOUS
<1>1. Idle.run_id = 0 /\ Idle.state = "IDLE" /\ ~Idle.reboot_before_updates
  BY DEF Idle, FreshCycle
<1>2. Ledger
  BY <1>1 DEF Init, Ledger, NotYetArchived, RunId
<1>3. Records /\ Telling /\ Loop
  BY <1>1 DEF Init, Records, Telling, Loop
<1>4. OwnReboot
  BY <1>1 DEF Init, OwnReboot, Late
<1> QED BY <1>2, <1>3, <1>4 DEF Facts

\* Every step of the engine keeps the facts.
LEMMA EngineStepFacts ==
  ASSUME IInv, Facts, EngineStep
  PROVE  Facts'
<1>1. CASE Precheck \/ PrecheckRepaired
  BY <1>1, PrecheckFacts
<1>2. CASE Refresh \/ Discover
  BY <1>2, PlanFacts
<1>3. CASE RepairInterrupted \/ BeginApply \/ EnterReboot \/ CommandReboot
  BY <1>3, WithinHandlerFacts
<1>4. CASE EnterUpgrade
  BY <1>4, EnterUpgradeFacts
<1>5. CASE EndApply
  BY <1>5, TransactionFacts DEF EndApply
<1>6. CASE SaveApplied
  BY <1>6, SaveAppliedFacts
<1>7. CASE AfterUpgrade
  BY <1>7, AfterUpgradeFacts
<1>8. CASE CheckReboot
  BY <1>8, CheckRebootFacts
<1>9. CASE DecideReboot
  BY <1>9, DecideRebootFacts
<1>10. CASE PrepareReboot
  BY <1>10, PrepareRebootFacts
<1>11. CASE VerifyRebooted
  BY <1>11, VerifyRebootedFacts
<1>12. CASE AfterReboot
  BY <1>12, AfterRebootFacts
<1>13. CASE VerifyPackages
  BY <1>13, VerifyPackagesFacts
<1>14. CASE PackagesVerified
  BY <1>14, PackagesVerifiedFacts
<1>15. CASE CheckHealth
  BY <1>15, CheckHealthFacts
<1>16. CASE SaveOutcome
  BY <1>16, SaveOutcomeFacts
<1>17. CASE SaveReport
  BY <1>17, SaveReportFacts
<1>18. CASE RecordDelivery
  BY <1>18, RecordDeliveryFacts
<1>19. CASE Notified
  BY <1>19, NotifiedFacts
<1>20. CASE Complete
  BY <1>20, CompleteFacts
<1>21. ASSUME NEW n \in Notifiers, Deliver(n)
       PROVE  Facts'
  BY <1>21, DeliverFacts
<1>22. CASE \/ Fail \/ RecordError \/ FailureHooks \/ ReportFailure \/ FailureNotified
            \/ \E n \in Notifiers : DeliverFailure(n)
  BY <1>22, FailureFacts
<1>23. CASE Archive
  BY <1>23, ArchiveFacts
<1>24. CASE Reset \/ ResetForNewCycle
  BY <1>24, ResetFacts
<1>25. CASE NewCycle
  BY <1>25, NewCycleFacts
<1> QED BY <1>1, <1>2, <1>3, <1>4, <1>5, <1>6, <1>7, <1>8, <1>9, <1>10, <1>11, <1>12,
           <1>13, <1>14, <1>15, <1>16, <1>17, <1>18, <1>19, <1>20, <1>21, <1>22, <1>23,
           <1>24, <1>25
        DEF EngineStep

\* So does every other step.
LEMMA NextKeepsFacts == IInv /\ Facts /\ [Next]_vars => Facts'
<1> SUFFICES ASSUME IInv, Facts, [Next]_vars PROVE Facts'
  OBVIOUS
<1>1. CASE EngineStep
  BY <1>1, EngineStepFacts
<1>2. CASE HandlerRaises
  BY <1>2, RaiseFacts, FrameFacts DEF HandlerRaises
<1>3. CASE Run \/ Resume
  BY <1>3, RunResumeFacts
<1>4. CASE Crash \/ Reboot \/ GrowStale \/ EditConfig \/ UNCHANGED vars
  BY <1>4, OutsideFacts
<1> QED BY <1>1, <1>2, <1>3, <1>4 DEF Next

\* What the engine records of its cycles holds of every behaviour.
THEOREM RecordsAreTrue == Spec => [](IInv /\ Facts)
BY InitIInv, NextKeeps, InitFacts, NextKeepsFacts, PTL DEF Spec

-----------------------------------------------------------------------------
(* The properties.                                                          *)

\* A cycle once begun is on disk or in the archive, whatever dies between the
\* two writes of an archiving, and what is archived is never worked on again.
THEOREM NothingIsLost == Spec => []NoCycleIsLost
<1>1. IInv /\ Facts => NoCycleIsLost
  <2> SUFFICES ASSUME IInv, Facts, NEW r \in 1 .. started
               PROVE  /\ r = disk.run_id \/ history[r].run_id = r
                      /\ history[r].run_id # 0 => /\ history[r].run_id = r
                                                  /\ history[r].state \in TerminalStates
                      /\ history[r].run_id # 0 /\ r = disk.run_id => disk = history[r]
    BY DEF NoCycleIsLost
  <2>1. r \in RunId /\ r <= started /\ r # 0
    BY BoundsAssumption DEF IInv, OtherTypes, RunId
  <2> QED BY <2>1 DEF Facts, Ledger
<1> QED BY <1>1, RecordsAreTrue, PTL

\* A cycle archived as completed was verified, has its report, tried every
\* notifier and names the outcome of its own facts.
THEOREM CompletionIsTrue == Spec => []CompletedIsTrue
<1>1. Facts => CompletedIsTrue
  BY DEF Facts, Records, Truthful, CompletedIsTrue
<1> QED BY <1>1, RecordsAreTrue, PTL

\* No notifier was told of another outcome than the one a completed cycle
\* ends with, before or after any number of crashes.
THEOREM TheTruthIsTold == Spec => []DeliveredOutcomeIsFinal
<1>1. Facts => DeliveredOutcomeIsFinal
  BY DEF Facts, Records, Telling, Truthful, DeliveredOutcomeIsFinal
<1> QED BY <1>1, RecordsAreTrue, PTL

\* A cycle that calls itself a success and was told, by the last answer of its
\* provider, that a reboot is required, crossed one since, and nothing that it
\* installed still waits for one.  It says nothing of a reboot that the provider
\* does not see.
THEOREM SuccessSkipsNoReboot == Spec => []NoRequiredRebootIsSkipped
<1>1. IInv /\ Facts => NoRequiredRebootIsSkipped
  <2> SUFFICES ASSUME IInv, Facts, disk.state = "COMPLETED", disk.reboot_required,
                      disk.outcome \in {"SUCCESS", "SUCCESS_WITH_WARNINGS", "NO_UPDATES"}
               PROVE  disk.boot_id_after # 0 /\ ~unbooted
    BY DEF NoRequiredRebootIsSkipped
  <2>1. disk.outcome = FinalOutcome(disk)
    BY DEF Facts, Records, Truthful
  <2>2. disk.run_id # 0
    BY DEF IInv, Core, BootFacts
  <2>3. NoneOwed(disk) /\ (unbooted => disk.boot_id_after = 0)
    BY <2>2 DEF Facts, OwnReboot, Late
  <2>4. disk.boot_id_after # 0
    BY <2>1, <2>3 DEF FinalOutcome, NoneOwed
  <2> QED BY <2>3, <2>4
<1> QED BY <1>1, RecordsAreTrue, PTL

-----------------------------------------------------------------------------
(* The refinement: every step is one of the abstract cycle, or none.        *)

\* The stages of the states.
LEMMA Stages ==
  /\ Stage("IDLE") = "idle"
  /\ \A s \in EarlyStates : Stage(s) = "planning"
  /\ Stage("REBOOTING") = "rebooting"
  /\ \A s \in {"POST_REBOOT", "VERIFYING", "HEALTH_CHECKING", "NOTIFYING"} : Stage(s) = "proving"
  /\ \A s \in TerminalStates : Stage(s) = s
BY DEF Stage, EarlyStates, TerminalStates

\* The abstract cycle cannot tell c and d apart, but for their stages.
Alike(c, d) ==
  /\ d.run_id = c.run_id
  /\ d.updates_applied = c.updates_applied
  /\ d.initial_reboot_completed = c.initial_reboot_completed
  /\ d.verify_passed = c.verify_passed
  /\ Home(d) = Home(c)

\* A cycle that is kept but for its state is alike.
LEMMA KeptAlike ==
  ASSUME NEW c, NEW d, Kept(c, d)
  PROVE  Alike(c, d)
BY DEF Kept, Alike, Home

\* What the abstract cycle does not see of a step.
LEMMA Unseen ==
  ASSUME UNCHANGED <<history, boot>>,
         disk' = disk \/ (Alike(disk, disk') /\ Stage(disk'.state) = Stage(disk.state))
  PROVE  UNCHANGED Promise!vars
BY DEF Promise!vars, Alike

\* A move of a cycle alike leaves all but the stage, or raises.
LEMMA MoveSeen ==
  ASSUME NEW c \in Cycle, NEW dst \in State, MoveTo(c, dst), Alike(disk, c)
  PROVE  disk' = disk \/ (disk'.state = dst /\ Alike(disk, disk'))
<1>1. CASE Moved(c, dst)
  BY <1>1, KeptAlike DEF Moved, Alike
<1>2. CASE Raise("internal")
  BY <1>2 DEF Raise
<1> QED BY <1>1, <1>2, MovedOrRaised

\* It goes unseen within a stage.
LEMMA MoveUnseen ==
  ASSUME NEW c \in Cycle, NEW dst \in State, MoveTo(c, dst), Alike(disk, c),
         Stage(dst) = Stage(disk.state), UNCHANGED <<history, boot>>
  PROVE  UNCHANGED Promise!vars
BY MoveSeen, Unseen

\* What the frame of a handler leaves alone of what is seen.
LEMMA FrameSeen ==
  ASSUME HandlerFrame
  PROVE  UNCHANGED <<history, boot>>
BY DEF HandlerFrame, archiveVars, machineVars

\* The precheck passes on the boot the cycle knows of, or on its first.
LEMMA PrecheckMaps ==
  ASSUME IInv, Facts, Precheck \/ PrecheckRepaired
  PROVE  Promise!Precheck \/ UNCHANGED Promise!vars
<1>1. UNCHANGED <<history, boot>> /\ pc \in {"PRECHECK", "repaired"}
  BY FrameSeen DEF Precheck, PrecheckRepaired
<1>2. /\ cycle = disk /\ disk.state = "PRECHECK" /\ disk \in Cycle /\ boot \in 1 .. MaxBoots
      /\ disk.boot_id_after = 0 /\ disk.boot_id_before \in {0, boot}
  BY <1>1, BoundsAssumption
  DEF IInv, Core, EngineTypes, Position, Memory, BootFacts, OnRecordedBoot, Entries, State, BootId,
      PostRebootResumable, TerminalStates
<1>3. CASE Raise("preflight-failed")
  BY <1>1, <1>3, Unseen DEF Raise
<1>4. CASE PrecheckPassed
  <2>1. PICK p \in BOOLEAN :
          LET c == [cycle EXCEPT !.boot_id_before = boot, !.pre_existing_reboot = p]
          IN  \/ MoveTo(c, "REFRESHING")
              \/ MoveTo([c EXCEPT !.reboot_before_updates = TRUE, !.reboot_required = TRUE],
                        "REBOOT_PENDING")
    BY <1>4 DEF PrecheckPassed
  <2> DEFINE c1 == [cycle EXCEPT !.boot_id_before = boot]
             c == [c1 EXCEPT !.pre_existing_reboot = p]
             d == [c EXCEPT !.reboot_before_updates = TRUE, !.reboot_required = TRUE]
  <2>2. MoveTo(c, "REFRESHING") \/ MoveTo(d, "REBOOT_PENDING")
    BY <2>1
  <2>3. /\ c1 \in Cycle /\ c1.run_id = disk.run_id /\ c1.boot_id_before = boot
        /\ c1.boot_id_after = 0 /\ c1.updates_applied = disk.updates_applied
        /\ c1.initial_reboot_completed = disk.initial_reboot_completed
        /\ c1.verify_passed = disk.verify_passed
    BY <1>2, SetBootBefore, BoundsAssumption DEF Cycle
  <2> HIDE DEF c1
  <2>4. c \in Cycle /\ Alike(c1, c) /\ Home(c) = boot
    BY <2>3 DEF Cycle, Alike, Home
  <2> HIDE DEF c
  <2>5. d \in Cycle /\ Alike(c, d) /\ Home(d) = boot
    BY <2>4 DEF Cycle, Alike, Home
  <2> HIDE DEF d
  <2>6. disk' = disk \/ (disk'.state \in {"REFRESHING", "REBOOT_PENDING"} /\ Alike(c1, disk'))
    <3>1. CASE MoveTo(c, "REFRESHING")
      BY <2>4, <3>1, MovedOrRaised, KeptAlike DEF Moved, Raise, Alike, State
    <3>2. CASE MoveTo(d, "REBOOT_PENDING")
      BY <2>4, <2>5, <3>2, MovedOrRaised, KeptAlike DEF Moved, Raise, Alike, State
    <3> QED BY <2>2, <3>1, <3>2
  <2>7. Home(c1) = boot /\ Home(disk) \in {0, boot}
    BY <1>2, <2>3 DEF Home
  <2>8. CASE disk' = disk
    BY <1>1, <2>8, Unseen
  <2>9. CASE disk'.state \in {"REFRESHING", "REBOOT_PENDING"} /\ Alike(c1, disk')
    <3>1. Stage(disk'.state) = "planning" /\ Stage(disk.state) = "planning"
      BY <1>2, <2>9, Stages DEF EarlyStates
    <3> QED BY <1>1, <2>3, <2>7, <2>9, <3>1 DEF Promise!Precheck, Alike
  <2> QED BY <2>6, <2>8, <2>9
<1> QED BY <1>3, <1>4 DEF Precheck, PrecheckRepaired

\* The steps of the planning that the abstract cycle does not see.
LEMMA PlanningUnseen ==
  ASSUME IInv, Facts, Refresh \/ Discover \/ EnterUpgrade \/ AfterUpgrade
  PROVE  UNCHANGED Promise!vars
<1>1. UNCHANGED <<history, boot>>
  BY FrameSeen DEF Refresh, Discover, EnterUpgrade, AfterUpgrade, archiveVars
<1>2. /\ disk \in Cycle /\ Stage(disk.state) = "planning"
      /\ pc # "after_upgrade" => cycle = disk
  BY EntryFacts, Stages
  DEF Refresh, Discover, EnterUpgrade, AfterUpgrade, Entries, State, EarlyStates, IInv, Core,
      EngineTypes, Position
<1>3. ASSUME NEW x \in BOOLEAN
      PROVE  /\ LET c == [disk EXCEPT !.warnings = x] IN c \in Cycle /\ Alike(disk, c)
             /\ LET c == [disk EXCEPT !.packages_pending = x] IN c \in Cycle /\ Alike(disk, c)
  BY <1>2 DEF Cycle, Alike, Home
<1>4. \A s \in {"DISCOVERING_UPDATES", "UPGRADING", "CHECKING_REBOOT"} :
        s \in State /\ Stage(s) = "planning"
  BY Stages DEF EarlyStates, State
<1>5. CASE disk' = disk
  BY <1>1, <1>5, Unseen
<1>6. CASE Refresh
  <2>1. PICK w \in BOOLEAN : \/ Raise("pm-failed")
                            \/ MoveTo([disk EXCEPT !.warnings = w], "DISCOVERING_UPDATES")
    <3>1. \A v \in BOOLEAN : (disk.warnings \/ v) \in BOOLEAN
      OBVIOUS
    <3> QED BY <1>2, <1>6, <3>1 DEF Refresh
  <2> DEFINE c == [disk EXCEPT !.warnings = w]
  <2>2. c \in Cycle /\ Alike(disk, c)
    BY <1>3
  <2>3. CASE MoveTo(c, "DISCOVERING_UPDATES")
    <3> HIDE DEF c
    <3> QED BY <1>1, <1>2, <1>4, <2>2, <2>3, MoveUnseen
  <2> QED BY <1>5, <2>1, <2>3 DEF Raise
<1>7. CASE Discover
  <2>1. PICK a \in BOOLEAN : \/ Raise("preflight-failed")
                            \/ \E dst \in {"UPGRADING", "CHECKING_REBOOT"} :
                                 MoveTo([disk EXCEPT !.packages_pending = a], dst)
    <3>1. (pkgs = "pending") \in BOOLEAN
      OBVIOUS
    <3> QED BY <1>2, <1>7, <3>1 DEF Discover
  <2> DEFINE c == [disk EXCEPT !.packages_pending = a]
  <2>2. c \in Cycle /\ Alike(disk, c)
    BY <1>3
  <2>3. ASSUME NEW dst \in {"UPGRADING", "CHECKING_REBOOT"}, MoveTo(c, dst)
        PROVE  UNCHANGED Promise!vars
    <3> HIDE DEF c
    <3> QED BY <1>1, <1>2, <1>4, <2>2, <2>3, MoveUnseen
  <2> QED BY <1>5, <2>1, <2>3 DEF Raise
<1>8. CASE EnterUpgrade \/ AfterUpgrade
  <2>1. MoveTo(disk, "CHECKING_REBOOT") \/ disk' = disk
    BY <1>2, <1>8 DEF EnterUpgrade, AfterUpgrade, Raise
  <2>2. Alike(disk, disk)
    BY DEF Alike
  <2> QED BY <1>1, <1>2, <1>4, <1>5, <2>1, <2>2, MoveUnseen
<1> QED BY <1>6, <1>7, <1>8

\* The applied updates are recorded once.
LEMMA SaveAppliedMaps ==
  ASSUME IInv, Facts, SaveApplied
  PROVE  Promise!Apply
<1>1. UNCHANGED <<history, boot>> /\ pc = "applied" /\ disk' = [cycle EXCEPT !.updates_applied = TRUE]
  BY FrameSeen DEF SaveApplied
<1>2. /\ cycle = disk /\ disk \in Cycle /\ disk.state = "UPGRADING" /\ ~disk.updates_applied
      /\ disk.boot_id_before = boot /\ disk.boot_id_after = 0
  BY <1>1 DEF IInv, Core, EngineTypes, Position, Memory, OnRecordedBoot, BootFacts,
              PostRebootResumable, TerminalStates
<1>3. /\ disk'.run_id = disk.run_id /\ disk'.state = disk.state /\ disk'.updates_applied
      /\ disk'.initial_reboot_completed = disk.initial_reboot_completed
      /\ disk'.verify_passed = disk.verify_passed
      /\ Home(disk') = Home(disk) /\ Home(disk) = boot
  BY <1>1, <1>2 DEF Cycle, Home
<1>4. disk'.updates_applied = TRUE
  BY <1>1, <1>2 DEF Cycle
<1> QED BY <1>1, <1>2, <1>3, <1>4, Stages DEF Promise!Apply, EarlyStates

\* What follows the planning is decided on the boot it was done on.
LEMMA DecideMaps ==
  ASSUME IInv, Facts, CheckReboot \/ DecideReboot
  PROVE  Promise!Decide \/ UNCHANGED Promise!vars
<1>1. UNCHANGED <<history, boot>> /\ pc \in {"CHECKING_REBOOT", "REBOOT_PENDING"}
  BY FrameSeen DEF CheckReboot, DecideReboot
<1>2. /\ cycle = disk /\ disk \in Cycle /\ disk.state = pc
      /\ disk.boot_id_before = boot /\ disk.boot_id_after = 0
  BY <1>1 DEF IInv, Core, EngineTypes, Position, Memory, OnRecordedBoot, BootFacts, Entries, State,
              PostRebootResumable, TerminalStates
<1>3. Stage(disk.state) = "planning" /\ Home(disk) = boot
  BY <1>1, <1>2, Stages DEF EarlyStates, Home
<1>4. PICK required \in BOOLEAN :
        CheckReboot =>
          LET c == [cycle EXCEPT !.reboot_required = required]
          IN  \/ Raise("preflight-failed")
              \/ MoveTo([c EXCEPT !.outcome = "MANUAL_REBOOT_REQUIRED"], "VERIFYING")
              \/ \E dst \in {"REBOOT_PENDING", "VERIFYING"} : MoveTo(c, dst)
  BY DEF CheckReboot
<1> DEFINE c == [disk EXCEPT !.reboot_required = required]
           d == [c EXCEPT !.outcome = "MANUAL_REBOOT_REQUIRED"]
           e == [disk EXCEPT !.outcome = "MANUAL_REBOOT_REQUIRED"]
<1>5. \/ disk' = disk
      \/ \E f \in {disk, c, d, e}, dst \in {"REBOOT_PENDING", "REBOOTING", "VERIFYING"} : MoveTo(f, dst)
  <2>1. CASE CheckReboot
    BY <1>2, <1>4, <2>1 DEF Raise
  <2>2. CASE DecideReboot
    BY <1>2, <2>2 DEF DecideReboot, Evaluate, Raise
  <2> QED BY <2>1, <2>2
<1>6. c \in Cycle /\ Alike(disk, c) /\ e \in Cycle /\ Alike(disk, e) /\ Alike(disk, disk)
  BY <1>2 DEF Cycle, Outcomes, Alike, Home
<1> HIDE DEF c, e
<1>7. d \in Cycle /\ Alike(disk, d)
  BY <1>6 DEF Cycle, Outcomes, Alike, Home
<1> HIDE DEF d
<1>8. ASSUME NEW f \in Cycle, Alike(disk, f), NEW dst \in {"REBOOT_PENDING", "REBOOTING", "VERIFYING"},
             MoveTo(f, dst)
      PROVE  Promise!Decide \/ UNCHANGED Promise!vars
  <2>1. disk' = disk \/ (disk'.state = dst /\ Alike(disk, disk'))
    BY <1>8, MoveSeen DEF State
  <2>2. CASE disk' = disk
    BY <1>1, <2>2, Unseen
  <2>3. CASE disk'.state = dst /\ Alike(disk, disk')
    <3>1. CASE dst = "REBOOT_PENDING"
      BY <1>1, <1>3, <2>3, <3>1, Unseen, Stages DEF EarlyStates
    <3>2. CASE dst \in {"REBOOTING", "VERIFYING"}
      <4>1. Stage(disk'.state) \in {"rebooting", "proving"}
        BY <2>3, <3>2, Stages
      <4> QED BY <1>1, <1>3, <2>3, <4>1 DEF Promise!Decide, Alike
    <3> QED BY <3>1, <3>2
  <2> QED BY <2>1, <2>2, <2>3
<1>9. CASE disk' = disk
  BY <1>1, <1>9, Unseen
<1> QED BY <1>2, <1>5, <1>6, <1>7, <1>8, <1>9

\* The boot that a command is to end is recorded before it.
LEMMA PrepareRebootMaps ==
  ASSUME IInv, Facts, PrepareReboot
  PROVE  Promise!Leave \/ UNCHANGED Promise!vars
<1>1. UNCHANGED <<history, boot>> /\ pc = "reboot.prepare"
  BY FrameSeen DEF PrepareReboot
<1>2. disk \in Cycle /\ disk.state = "REBOOTING"
  BY <1>1 DEF IInv, Core, EngineTypes, Position
<1>3. CASE Raise("reboot-failed")
  BY <1>1, <1>3, Unseen DEF Raise
<1>4. CASE disk' = [disk EXCEPT !.boot_id_before = boot,
                               !.boot_id_after = 0,
                               !.reboot_attempts = @ + 1]
  <2>1. /\ disk'.run_id = disk.run_id /\ disk'.state = disk.state
        /\ disk'.updates_applied = disk.updates_applied
        /\ disk'.initial_reboot_completed = disk.initial_reboot_completed
        /\ disk'.verify_passed = disk.verify_passed
        /\ disk'.boot_id_before = boot /\ disk'.boot_id_after = 0
    BY <1>2, <1>4 DEF Cycle
  <2>2. Home(disk') = boot
    BY <2>1 DEF Home
  <2> QED BY <1>1, <1>2, <2>1, <2>2, Stages DEF Promise!Leave
<1> QED BY <1>3, <1>4 DEF PrepareReboot

\* The verified boot becomes the one the cycle knows of.
LEMMA VerifyRebootedMaps ==
  ASSUME IInv, Facts, VerifyRebooted
  PROVE  Promise!Settle \/ UNCHANGED Promise!vars
<1>1. UNCHANGED <<history, boot>> /\ pc = "POST_REBOOT"
  BY FrameSeen DEF VerifyRebooted
<1>2. cycle = disk /\ disk \in Cycle /\ disk.state = "POST_REBOOT" /\ boot \in 1 .. MaxBoots
  BY <1>1 DEF IInv, Core, EngineTypes, Position, Memory, Entries, State, BootId
<1>3. CASE Raise("reboot-failed")
  BY <1>1, <1>3, Unseen DEF Raise
<1>4. CASE disk' = [cycle EXCEPT !.boot_id_after = boot]
  <2>1. /\ disk'.run_id = disk.run_id /\ disk'.state = disk.state
        /\ disk'.updates_applied = disk.updates_applied
        /\ disk'.initial_reboot_completed = disk.initial_reboot_completed
        /\ disk'.verify_passed = disk.verify_passed /\ disk'.boot_id_after = boot
    BY <1>2, <1>4 DEF Cycle
  <2>2. Home(disk') = boot
    BY <1>2, <2>1 DEF Home
  <2> QED BY <1>1, <1>2, <2>1, <2>2, Stages DEF Promise!Settle
<1> QED BY <1>3, <1>4 DEF VerifyRebooted

\* A cycle is planned anew once, on the boot that it knows of.
LEMMA AfterRebootMaps ==
  ASSUME IInv, Facts, AfterReboot
  PROVE  Promise!Replan \/ UNCHANGED Promise!vars
<1>1. UNCHANGED <<history, boot>> /\ pc = "after_reboot"
  BY FrameSeen DEF AfterReboot
<1>2. /\ disk \in Cycle /\ disk.state = "POST_REBOOT" /\ disk.boot_id_after = boot
      /\ boot \in 1 .. MaxBoots
  BY <1>1 DEF IInv, Core, EngineTypes, Position, OnRecordedBoot, BootId
<1>3. Stage(disk.state) = "proving" /\ Home(disk) = boot
  BY <1>2, Stages DEF Home
<1>4. CASE MoveTo(disk, "VERIFYING")
  <2>1. Alike(disk, disk) /\ Stage("VERIFYING") = "proving"
    BY Stages DEF Alike
  <2> QED BY <1>1, <1>2, <1>3, <1>4, <2>1, MoveUnseen DEF State
<1>5. CASE /\ disk.reboot_before_updates
           /\ MoveTo([disk EXCEPT !.reboot_before_updates = FALSE,
                                  !.initial_reboot_completed = TRUE,
                                  !.boot_id_before = boot,
                                  !.boot_id_after = 0,
                                  !.reboot_attempts = 0], "PRECHECK")
  <2> DEFINE c1 == [disk EXCEPT !.reboot_before_updates = FALSE]
             c2 == [c1 EXCEPT !.initial_reboot_completed = TRUE]
             c3 == [c2 EXCEPT !.boot_id_before = boot]
             c4 == [c3 EXCEPT !.boot_id_after = 0]
             c5 == [c4 EXCEPT !.reboot_attempts = 0]
  <2>1. MoveTo(c5, "PRECHECK")
    BY <1>5
  <2>2. c1 \in Cycle /\ Alike(disk, c1)
    BY <1>2 DEF Cycle, Alike, Home
  <2> HIDE DEF c1
  <2>3. /\ c2 \in Cycle /\ c2.run_id = disk.run_id /\ c2.updates_applied = disk.updates_applied
        /\ c2.initial_reboot_completed = TRUE /\ c2.verify_passed = disk.verify_passed
    BY <2>2 DEF Cycle, Alike
  <2> HIDE DEF c2
  <2>4. /\ c3 \in Cycle /\ c3.run_id = disk.run_id /\ c3.updates_applied = disk.updates_applied
        /\ c3.initial_reboot_completed = TRUE /\ c3.verify_passed = disk.verify_passed
        /\ c3.boot_id_before = boot
    BY <1>2, <2>3, SetBootBefore DEF Cycle
  <2> HIDE DEF c3
  <2>5. /\ c4 \in Cycle /\ c4.run_id = disk.run_id /\ c4.updates_applied = disk.updates_applied
        /\ c4.initial_reboot_completed = TRUE /\ c4.verify_passed = disk.verify_passed
        /\ Home(c4) = boot
    BY <2>4, SetBootAfter, BoundsAssumption DEF Cycle, Home
  <2> HIDE DEF c4
  <2>6. c5 \in Cycle /\ Alike(c4, c5)
    BY <2>5, SetAttempts, BoundsAssumption DEF Cycle, Alike, Home
  <2> HIDE DEF c5
  <2>7. disk' = disk \/ (disk'.state = "PRECHECK" /\ Alike(c5, disk'))
    BY <2>1, <2>6, MovedOrRaised, KeptAlike DEF Moved, Raise, State
  <2>8. CASE disk' = disk
    BY <1>1, <2>8, Unseen
  <2>9. CASE disk'.state = "PRECHECK" /\ Alike(c5, disk')
    <3>1. Stage(disk'.state) = "planning" /\ ~disk.initial_reboot_completed
      BY <1>5, <2>9, Stages DEF EarlyStates, Facts, Records
    <3> QED BY <1>1, <1>3, <2>5, <2>6, <2>9, <3>1 DEF Promise!Replan, Alike
  <2> QED BY <2>7, <2>8, <2>9
<1> QED BY <1>4, <1>5 DEF AfterReboot

\* The result of the verification is recorded either way.
LEMMA VerifyPackagesMaps ==
  ASSUME IInv, Facts, VerifyPackages
  PROVE  Promise!Verify \/ UNCHANGED Promise!vars
<1>1. UNCHANGED <<history, boot>> /\ pc = "VERIFYING"
  BY FrameSeen DEF VerifyPackages
<1>2. cycle = disk /\ disk \in Cycle /\ disk.state = "VERIFYING"
  BY <1>1 DEF IInv, Core, EngineTypes, Position, Memory, Entries, State
<1>3. CASE Raise("preflight-failed")
  BY <1>1, <1>3, Unseen DEF Raise
<1>4. ASSUME NEW x \in BOOLEAN, disk' = [cycle EXCEPT !.verify_passed = x]
      PROVE  Promise!Verify
  <2>1. /\ disk'.run_id = disk.run_id /\ disk'.state = disk.state
        /\ disk'.updates_applied = disk.updates_applied
        /\ disk'.initial_reboot_completed = disk.initial_reboot_completed
        /\ disk'.verify_passed \in BOOLEAN /\ Home(disk') = Home(disk)
    BY <1>2, <1>4 DEF Cycle, Home
  <2> QED BY <1>1, <1>2, <2>1, Stages DEF Promise!Verify
<1>5. (pkgs = "current") \in BOOLEAN
  OBVIOUS
<1> QED BY <1>3, <1>4, <1>5 DEF VerifyPackages

\* The steps of a verified cycle up to its completion, and those of a failed
\* one, that the abstract cycle does not see.
LEMMA ProvedUnseen ==
  ASSUME IInv, Facts,
         \/ PackagesVerified \/ CheckHealth \/ SaveOutcome \/ RecordDelivery \/ Complete
         \/ RecordError \/ FailureNotified
  PROVE  UNCHANGED Promise!vars
<1>1. UNCHANGED <<history, boot>>
  BY FrameSeen DEF PackagesVerified, CheckHealth, SaveOutcome, RecordDelivery, Complete,
                   RecordError, FailureNotified
<1>2. disk \in Cycle /\ Alike(disk, disk)
  BY DEF IInv, Core, EngineTypes, Alike
<1>3. CASE PackagesVerified
  <2>1. MoveTo(disk, "HEALTH_CHECKING") /\ disk.state = "VERIFYING"
    BY <1>3 DEF PackagesVerified, IInv, Core, Position
  <2> QED BY <1>1, <1>2, <2>1, MoveUnseen, Stages DEF State
<1>4. CASE CheckHealth
  <2>1. cycle = disk /\ disk.state = "HEALTH_CHECKING"
    BY <1>4, EntryFacts DEF CheckHealth, Entries, State
  <2>2. PICK health \in {"ok", "warning", "critical"} :
          MoveTo([cycle EXCEPT !.health_results = health,
                               !.error = IF health = "critical"
                                         THEN "health-check-failed" ELSE @], "NOTIFYING")
    BY <1>4 DEF CheckHealth
  <2> DEFINE e == IF health = "critical" THEN "health-check-failed" ELSE cycle.error
             c == [disk EXCEPT !.health_results = health, !.error = e]
  <2>3. e \in ErrorKinds /\ MoveTo(c, "NOTIFYING")
    BY <1>2, <2>1, <2>2 DEF Cycle, ErrorKinds
  <2> HIDE DEF e
  <2>4. c \in Cycle /\ Alike(disk, c)
    BY <1>2, <2>3 DEF Cycle, Alike, Home
  <2> HIDE DEF c
  <2> QED BY <1>1, <2>1, <2>3, <2>4, MoveUnseen, Stages DEF State
<1>5. CASE SaveOutcome \/ Complete
  <2>1. cycle = disk /\ disk' = [disk EXCEPT !.outcome = FinalOutcome(disk)]
    BY <1>5 DEF SaveOutcome, Complete, IInv, Core, Memory, Entries, State
  <2>2. disk'.state = disk.state /\ Alike(disk, disk')
    BY <1>2, <2>1, SaveOutcomeTwice DEF Alike, Home
  <2> QED BY <1>1, <2>2, Unseen
<1>6. CASE RecordDelivery \/ FailureNotified
  <2>1. disk' = [disk EXCEPT !.notification_status = status]
    BY <1>6 DEF RecordDelivery, FailureNotified, IInv, Core, Memory
  <2>2. disk'.state = disk.state /\ Alike(disk, disk')
    BY <1>2, <2>1 DEF Cycle, Alike, Home
  <2> QED BY <1>1, <2>2, Unseen
<1>7. CASE RecordError
  <2> DEFINE o == IF exc = "preflight-failed" THEN "BLOCKED" ELSE "FAILED"
  <2>1. disk' = [disk EXCEPT !.error = exc, !.outcome = o]
    BY <1>7 DEF RecordError, IInv, Core, Memory
  <2> HIDE DEF o
  <2>2. disk'.state = disk.state /\ Alike(disk, disk')
    BY <1>2, <2>1 DEF Cycle, Alike, Home
  <2> QED BY <1>1, <2>2, Unseen
<1> QED BY <1>3, <1>4, <1>5, <1>6, <1>7

\* Only a verified cycle completes.
LEMMA NotifiedMaps ==
  ASSUME IInv, Facts, Notified
  PROVE  Promise!Complete \/ UNCHANGED Promise!vars
<1>1. UNCHANGED <<history, boot>> /\ pc = "notify.deliver" /\ MoveTo(disk, "COMPLETED")
  BY FrameSeen DEF Notified
<1>2. disk \in Cycle /\ disk.state = "NOTIFYING" /\ disk.verify_passed /\ Alike(disk, disk)
  BY <1>1 DEF IInv, Core, EngineTypes, Position, Facts, Records, Alike
<1>3. disk' = disk \/ (disk'.state = "COMPLETED" /\ Alike(disk, disk'))
  BY <1>1, <1>2, MoveSeen DEF State
<1>4. CASE disk' = disk
  BY <1>1, <1>4, Unseen
<1>5. CASE disk'.state = "COMPLETED" /\ Alike(disk, disk')
  <2>1. Stage(disk.state) = "proving" /\ Stage(disk'.state) = "COMPLETED"
    BY <1>2, <1>5, Stages DEF TerminalStates
  <2> QED BY <1>1, <1>2, <1>5, <2>1 DEF Promise!Complete, Alike
<1> QED BY <1>3, <1>4, <1>5

\* An active cycle may fail at any stage.
LEMMA FailMaps ==
  ASSUME IInv, Facts, Fail
  PROVE  Promise!Fail
<1>1. /\ disk \in Cycle /\ cycle.run_id = disk.run_id /\ disk.state \in State
      /\ disk.state \notin TerminalStates \cup {"IDLE"}
  BY DEF Fail, IInv, Core, EngineTypes, Position, Memory, Working, Cycle
<1>2. disk' = [disk EXCEPT !.state = "FAILED"] /\ UNCHANGED <<history, boot>>
  BY <1>1 DEF Fail, archiveVars, machineVars
<1>3. disk'.state = "FAILED" /\ Alike(disk, disk')
  BY <1>1, <1>2, SetStateKeeps, KeptAlike DEF State
<1>4. Stage(disk.state) \in {"planning", "rebooting", "proving"}
  BY <1>1, Stages DEF State, EarlyStates, TerminalStates
<1>5. Stage(disk'.state) = "FAILED"
  BY <1>3, Stages DEF TerminalStates
<1> QED BY <1>2, <1>3, <1>4, <1>5 DEF Promise!Fail, Promise!Active, Alike

\* The ledger is the archive.
LEMMA ArchiveMaps ==
  ASSUME IInv, Facts, Archive
  PROVE  Promise!Archive
<1>1. /\ UNCHANGED <<disk, boot>> /\ history' = [history EXCEPT ![disk.run_id] = disk]
      /\ pc \in {"archive", "rearchive"}
  BY DEF Archive, machineVars
<1>2. disk.state \in TerminalStates /\ disk \in Cycle /\ disk.run_id # 0
  BY <1>1 DEF IInv, Core, Position, EngineTypes, BootFacts, TerminalStates
<1>3. disk.run_id \in RunId /\ history \in [RunId -> Cycle]
  <2>1. disk.run_id \in RunId
    BY <1>2, BoundsAssumption DEF Cycle, RunId
  <2> QED BY <2>1 DEF IInv, OtherTypes
<1>4. Stage(disk.state) = disk.state
  BY <1>2, Stages
<1>5. \A r \in RunId : history'[r] = IF r = disk.run_id THEN disk ELSE history[r]
  BY <1>1, <1>3
<1>6. [r \in RunId |-> IF history[r].run_id = 0 THEN "none" ELSE history[r].state]'
        = [[r \in RunId |-> IF history[r].run_id = 0 THEN "none" ELSE history[r].state]
             EXCEPT ![disk.run_id] = Stage(disk.state)]
  BY <1>2, <1>3, <1>4, <1>5
<1> QED BY <1>1, <1>2, <1>4, <1>6 DEF Promise!Archive, Promise!Ended, TerminalStates

\* Only what the archive holds is let go of.
LEMMA ResetMaps ==
  ASSUME IInv, Facts, Reset \/ ResetForNewCycle
  PROVE  Promise!PutAway
<1>1. /\ UNCHANGED <<history, boot>> /\ disk' = Idle /\ pc \in {"reset", "rereset"}
  BY FrameSeen DEF Reset, ResetForNewCycle, archiveVars, machineVars
<1>2. disk.state \in TerminalStates /\ disk \in Cycle /\ disk.run_id # 0
  BY <1>1 DEF IInv, Core, Position, EngineTypes, BootFacts, TerminalStates
<1>3. disk.run_id \in RunId /\ history[disk.run_id] = disk
  BY <1>1, <1>2, BoundsAssumption DEF Cycle, RunId, Facts, Ledger
<1>4. Stage(disk.state) = disk.state /\ Stage("IDLE") = "idle"
  BY <1>2, Stages
<1>5. /\ Idle.run_id = 0 /\ Idle.state = "IDLE" /\ Idle.updates_applied = FALSE
      /\ Idle.initial_reboot_completed = FALSE /\ Idle.verify_passed = FALSE /\ Home(Idle) = 0
  BY DEF Idle, FreshCycle, Home
<1> QED BY <1>1, <1>2, <1>3, <1>4, <1>5 DEF Promise!PutAway, Promise!Ended, TerminalStates

\* A cycle begins when all before it are in the archive.
LEMMA NewCycleMaps ==
  ASSUME IInv, Facts, NewCycle
  PROVE  Promise!Begin \/ UNCHANGED Promise!vars
<1>1. UNCHANGED <<history, boot>> /\ disk.state = "IDLE" /\ disk = Idle /\ disk.run_id = 0
  BY DEF NewCycle, archiveVars, machineVars, IInv, Core, Position, BootFacts, Facts, Records
<1>2. CASE disk' = disk
  BY <1>1, <1>2, Unseen
<1>3. CASE started < MaxRuns /\ MoveTo(FreshCycle(started + 1), "PRECHECK")
  <2> DEFINE run == started + 1
             c == FreshCycle(run)
  <2>1. run \in RunId /\ run \in 0 .. MaxRuns /\ started \in Nat
    BY <1>3, BoundsAssumption DEF IInv, OtherTypes, RunId
  <2>2. c \in Cycle /\ c.state = "IDLE" /\ c.run_id = run
    BY <2>1, FreshCycleType DEF FreshCycle
  <2>3. /\ c.updates_applied = disk.updates_applied /\ c.verify_passed = disk.verify_passed
        /\ c.initial_reboot_completed = disk.initial_reboot_completed /\ Home(c) = Home(disk)
    BY <1>1 DEF Idle, FreshCycle, Home
  <2>4. IsLegalTransition("IDLE", "PRECHECK")
    BY DEF IsLegalTransition, Transitions, State
  <2>5. disk' = [c EXCEPT !.state = "PRECHECK"]
    BY <1>3, <2>2, <2>4 DEF MoveTo
  <2> HIDE DEF c
  <2>6. disk'.state = "PRECHECK" /\ Alike(c, disk')
    BY <2>2, <2>5, SetStateKeeps, KeptAlike DEF State
  <2> HIDE DEF run
  <2>7. \A r \in RunId :
          [q \in RunId |-> IF history[q].run_id = 0 THEN "none" ELSE history[q].state][r] = "none"
            <=> r >= run
    <3>1. \A r \in RunId : r <= started <=> ~(r >= run)
      BY <2>1 DEF run, RunId
    <3>2. \A r \in RunId : history[r].run_id = 0 <=> ~(r <= started)
      BY <1>1, <2>1 DEF Facts, Ledger, RunId
    <3>3. \A r \in RunId : history[r].run_id # 0 => history[r].state # "none"
      BY DEF Facts, Ledger, TerminalStates
    <3> QED BY <3>1, <3>2, <3>3
  <2>8. Stage(disk.state) = "idle" /\ Stage(disk'.state) = "planning"
    BY <1>1, <2>6, Stages DEF EarlyStates
  <2> QED BY <1>1, <2>1, <2>2, <2>3, <2>6, <2>7, <2>8 DEF Promise!Begin, Alike
<1> QED BY <1>2, <1>3 DEF NewCycle

\* A process that starts goes on within a stage, or arrives on another boot.
LEMMA StartMaps ==
  ASSUME IInv, Facts, Run \/ Resume
  PROVE  Promise!Arrive \/ UNCHANGED Promise!vars
<1>1. UNCHANGED <<history, boot>> /\ disk \in Cycle
  BY DEF Run, Resume, StartFrame, archiveVars, machineVars, IInv, Core, EngineTypes
<1>2. CASE disk' = disk
  BY <1>1, <1>2, Unseen
<1>3. ASSUME NEW s \in {"PRECHECK", "POST_REBOOT"}, disk' = [disk EXCEPT !.state = s]
      PROVE  disk'.state = s /\ Alike(disk, disk')
  <2>1. s \in State
    BY <1>3 DEF State
  <2> QED BY <1>1, <1>3, <2>1, SetStateKeeps, KeptAlike
<1>4. CASE /\ disk.state \in {"REBOOTING", "POST_REBOOT"} /\ BootChanged(disk)
           /\ disk' = [disk EXCEPT !.state = "POST_REBOOT"]
  <2>1. Home(disk) # boot /\ disk'.state = "POST_REBOOT" /\ Alike(disk, disk')
    BY <1>3, <1>4 DEF BootChanged, Home
  <2>2. Stage(disk.state) \in {"rebooting", "proving"} /\ Stage(disk'.state) = "proving"
    BY <1>4, <2>1, Stages
  <2>3. CASE Stage(disk.state) = "rebooting"
    BY <1>1, <2>1, <2>2, <2>3 DEF Promise!Arrive, Alike
  <2>4. CASE Stage(disk.state) = "proving"
    BY <1>1, <2>1, <2>2, <2>4, Unseen
  <2> QED BY <2>2, <2>3, <2>4
<1>5. CASE disk.state \in EarlyStates /\ disk' = [disk EXCEPT !.state = "PRECHECK"]
  <2>1. disk'.state = "PRECHECK" /\ Alike(disk, disk')
    BY <1>3, <1>5
  <2>2. Stage(disk.state) = "planning" /\ Stage(disk'.state) = "planning"
    BY <1>5, <2>1, Stages DEF EarlyStates
  <2> QED BY <1>1, <2>1, <2>2, Unseen
<1> QED BY <1>2, <1>4, <1>5, StartSteps DEF Recovery, DriveFrom

\* A boot is never had again.
LEMMA RebootMaps ==
  ASSUME IInv, IInv', Reboot
  PROVE  Promise!Reboot
<1>1. UNCHANGED <<disk, history>> /\ boot' = boot + 1
  BY DEF Reboot, archiveVars
<1>2. boot' \in {b \in BootId : b > boot}
  BY <1>1, BoundsAssumption DEF IInv, Core, EngineTypes, BootId
<1> QED BY <1>1, <1>2 DEF Promise!Reboot

\* Every other step leaves the cycle on disk, the archive and the boot alone.
LEMMA OthersUnseen ==
  ASSUME \/ RepairInterrupted \/ BeginApply \/ EndApply \/ EnterReboot \/ CommandReboot
         \/ SaveReport \/ FailureHooks \/ ReportFailure
         \/ (\E n \in Notifiers : Deliver(n) \/ DeliverFailure(n))
         \/ HandlerRaises \/ Crash \/ GrowStale \/ EditConfig \/ UNCHANGED vars
  PROVE  UNCHANGED Promise!vars
<1>1. UNCHANGED <<disk, history, boot>>
  BY FrameSeen
  DEF RepairInterrupted, BeginApply, EndApply, EnterReboot, CommandReboot, SaveReport, FailureHooks,
      ReportFailure, Deliver, DeliverFailure, HandlerRaises, Crash, GrowStale, EditConfig, Raise, vars,
      archiveVars, machineVars
<1> QED BY <1>1, Unseen

\* The initial states are the abstract one's.
LEMMA InitMaps == Init => Promise!Init
<1> SUFFICES ASSUME Init PROVE Promise!Init
  OBVIOUS
<1>1. /\ Idle.run_id = 0 /\ Idle.state = "IDLE" /\ Idle.updates_applied = FALSE
      /\ Idle.initial_reboot_completed = FALSE /\ Idle.verify_passed = FALSE /\ Home(Idle) = 0
  BY DEF Idle, FreshCycle, Home
<1> QED BY <1>1, Stages, BoundsAssumption DEF Init, Promise!Init, BootId

\* Every step maps to a step or to none.
LEMMA NextMaps == IInv /\ IInv' /\ Facts /\ [Next]_vars => [Promise!Next]_(Promise!vars)
<1> SUFFICES ASSUME IInv, IInv', Facts, [Next]_vars
             PROVE  Promise!Next \/ UNCHANGED Promise!vars
  OBVIOUS
<1>1. CASE Precheck \/ PrecheckRepaired
  BY <1>1, PrecheckMaps DEF Promise!Next
<1>2. CASE Refresh \/ Discover \/ EnterUpgrade \/ AfterUpgrade
  BY <1>2, PlanningUnseen
<1>3. CASE SaveApplied
  BY <1>3, SaveAppliedMaps DEF Promise!Next
<1>4. CASE CheckReboot \/ DecideReboot
  BY <1>4, DecideMaps DEF Promise!Next
<1>5. CASE PrepareReboot
  BY <1>5, PrepareRebootMaps DEF Promise!Next
<1>6. CASE VerifyRebooted
  BY <1>6, VerifyRebootedMaps DEF Promise!Next
<1>7. CASE AfterReboot
  BY <1>7, AfterRebootMaps DEF Promise!Next
<1>8. CASE VerifyPackages
  BY <1>8, VerifyPackagesMaps DEF Promise!Next
<1>9. CASE \/ PackagesVerified \/ CheckHealth \/ SaveOutcome \/ RecordDelivery \/ Complete
           \/ RecordError \/ FailureNotified
  BY <1>9, ProvedUnseen
<1>10. CASE Notified
  BY <1>10, NotifiedMaps DEF Promise!Next
<1>11. CASE Fail
  BY <1>11, FailMaps DEF Promise!Next
<1>12. CASE Archive
  BY <1>12, ArchiveMaps DEF Promise!Next
<1>13. CASE Reset \/ ResetForNewCycle
  BY <1>13, ResetMaps DEF Promise!Next
<1>14. CASE NewCycle
  BY <1>14, NewCycleMaps DEF Promise!Next
<1>15. CASE Run \/ Resume
  BY <1>15, StartMaps DEF Promise!Next
<1>16. CASE Reboot
  BY <1>16, RebootMaps DEF Promise!Next
<1>17. CASE \/ RepairInterrupted \/ BeginApply \/ EndApply \/ EnterReboot \/ CommandReboot
            \/ SaveReport \/ FailureHooks \/ ReportFailure
            \/ (\E n \in Notifiers : Deliver(n) \/ DeliverFailure(n))
            \/ HandlerRaises \/ Crash \/ GrowStale \/ EditConfig \/ UNCHANGED vars
  BY <1>17, OthersUnseen
<1> QED BY <1>1, <1>2, <1>3, <1>4, <1>5, <1>6, <1>7, <1>8, <1>9, <1>10, <1>11, <1>12,
           <1>13, <1>14, <1>15, <1>16, <1>17
        DEF Next, EngineStep

\* The engine, with its crashes, its reboots and its two ways to recover,
\* keeps what the abstract cycle promises: whatever becomes of the processes,
\* the durable state moves only as MaintenanceCycle does.
THEOREM PromiseIsKept == Spec => KeepsThePromise
BY InitMaps, NextMaps, RecordsAreTrue, PTL DEF Spec, KeepsThePromise, Promise!Spec

-----------------------------------------------------------------------------
(* The hooks of a cycle, across its processes.                              *)

\* The steps of an upgrade that the hooks before it come first of.
Applying == {"apply", "applying", "applied"}

\* A reboot that the cycle ordered is behind it.
Rebooted(c) == c.initial_reboot_completed \/ c.boot_id_after # 0

BeforeUpgrade ==
  disk.updates_applied \/ pc \in Applying => "before_upgrade" \in hooked

\* The hooks after an upgrade are missed only by a process that dies in them,
\* or fails the cycle there.
AfterItsUpgrade ==
  disk.updates_applied /\ disk.state # "FAILED" =>
    \/ "after_upgrade" \in hooked \cup cut
    \/ disk.state = "UPGRADING" /\ pc \in {"after_upgrade", "fail"}

AfterItsReboot ==
  Rebooted(disk) /\ disk.state \notin {"POST_REBOOT", "FAILED"} => "after_reboot" \in hooked

\* A failure is on disk, and its hooks are not over.
HooksAhead == {"fail.record", "fail.hooks"}

OnItsFailure ==
  disk.state = "FAILED" /\ pc \notin HooksAhead => "on_failure" \in hooked \cup cut

Hooks == BeforeUpgrade /\ AfterItsUpgrade /\ AfterItsReboot /\ OnItsFailure

\* What a step on the same cycle may do to what the hooks are about.
HookStep ==
  /\ disk'.run_id = disk.run_id
  /\ disk'.updates_applied =>
       \/ disk.updates_applied
       \/ pc = "applied" /\ pc' = "after_upgrade" /\ disk'.state = "UPGRADING"
  /\ pc' \in Applying => pc \in Applying \/ (pc = "UPGRADING" /\ pc' = "apply")
  /\ disk.state = "FAILED" => disk'.state = "FAILED"
  /\ disk.state = "UPGRADING" /\ pc \in {"after_upgrade", "fail"} =>
       \/ disk'.state = "FAILED"
       \/ pc = "after_upgrade" /\ pc' = "CHECKING_REBOOT"
       \/ pc' = "down"
       \/ disk'.state = "UPGRADING" /\ pc' \in {"after_upgrade", "fail"}
  /\ Rebooted(disk') /\ disk'.state \notin {"POST_REBOOT", "FAILED"} =>
       \/ Rebooted(disk) /\ disk.state \notin {"POST_REBOOT", "FAILED"}
       \/ pc = "after_reboot" /\ pc' \in {"PRECHECK", "VERIFYING"}
  /\ disk'.state = "FAILED" /\ pc' \notin HooksAhead =>
       /\ disk.state = "FAILED"
       /\ pc \in HooksAhead => pc' = "down" \/ (pc = "fail.hooks" /\ pc' = "fail.report")

\* Such a step has its hooks behind it, or died in them.
LEMMA HookStepKeeps ==
  ASSUME Hooks, HookStep, HooksNext
  PROVE  Hooks'
<1>1. /\ hooked' = hooked \cup {p \in HookPoints : HooksRan(p)}
      /\ cut' = cut \cup {p \in HookPoints : HooksCut(p)}
  BY DEF HooksNext, HookStep
<1>2. /\ pc = "UPGRADING" /\ pc' = "apply" => "before_upgrade" \in hooked'
      /\ pc = "after_upgrade" /\ pc' = "CHECKING_REBOOT" => "after_upgrade" \in hooked'
      /\ pc = "after_reboot" /\ pc' \in {"PRECHECK", "VERIFYING"} => "after_reboot" \in hooked'
      /\ pc = "fail.hooks" /\ pc' = "fail.report" => "on_failure" \in hooked'
  BY <1>1 DEF HookPoints, HooksRan
<1>3. /\ pc' = "down" /\ disk.state = "UPGRADING" /\ disk.updates_applied => "after_upgrade" \in cut'
      /\ pc' = "down" /\ pc \in HooksAhead => "on_failure" \in cut'
  BY <1>1 DEF HookPoints, HooksCut, HooksAhead
<1>4. hooked \subseteq hooked' /\ cut \subseteq cut'
  BY <1>1
<1>5. BeforeUpgrade'
  BY <1>2, <1>4 DEF Hooks, BeforeUpgrade, HookStep, Applying
<1>6. AfterItsUpgrade'
  BY <1>2, <1>3, <1>4 DEF Hooks, AfterItsUpgrade, HookStep
<1>7. AfterItsReboot'
  BY <1>2, <1>4 DEF Hooks, AfterItsReboot, HookStep
<1>8. OnItsFailure'
  BY <1>2, <1>3, <1>4 DEF Hooks, OnItsFailure, HookStep, HooksAhead
<1> QED BY <1>5, <1>6, <1>7, <1>8 DEF Hooks

\* A handler that raises leaves the cycle as it is.
LEMMA RaiseHooks ==
  ASSUME IInv, pc \in HandlerSteps \cup {"applying"}, NEW kind, Raise(kind)
  PROVE  HookStep
<1>1. disk' = disk /\ pc' = "fail" /\ disk.state # "FAILED"
  BY DEF Raise, IInv, Core, Position, HandlerSteps, Entries, State, TerminalStates
<1> QED BY <1>1 DEF HookStep, Applying, HooksAhead

\* A handler moves on with what the cycle says of its upgrade and its reboots.
LEMMA MoveHooks ==
  ASSUME IInv, pc \in HandlerSteps \ {"after_upgrade", "after_reboot", "POST_REBOOT"},
         NEW c \in Cycle, NEW dst \in Entries, MoveTo(c, dst),
         c.run_id = disk.run_id, c.updates_applied => disk.updates_applied,
         Rebooted(c) => Rebooted(disk)
  PROVE  HookStep
<1>1. dst \in State
  BY DEF Entries
<1>2. CASE Raise("internal")
  BY <1>2, RaiseHooks
<1>3. CASE Moved(c, dst)
  <2>1. disk.state \notin {"POST_REBOOT", "FAILED"}
    BY DEF IInv, Core, Position, HandlerSteps, Entries, State
  <2>2. /\ pc' = dst /\ disk'.state = dst /\ dst # "FAILED" /\ dst \notin Applying
        /\ disk'.run_id = disk.run_id
        /\ (disk'.updates_applied => disk.updates_applied) /\ (Rebooted(disk') => Rebooted(disk))
    BY <1>3 DEF Moved, Kept, Rebooted, Entries, State, Applying
  <2>3. pc \notin {"after_upgrade", "fail"}
    BY DEF HandlerSteps
  <2> QED BY <2>1, <2>2, <2>3 DEF HookStep
<1> QED BY <1>1, <1>2, <1>3, MovedOrRaised

\* A save within a handler says nothing new of the upgrade or the reboots.
LEMMA SaveHooks ==
  ASSUME disk'.run_id = disk.run_id, disk'.updates_applied => disk.updates_applied,
         Rebooted(disk') => Rebooted(disk),
         disk'.state = disk.state, pc' \notin Applying, pc \notin {"after_upgrade", "fail"},
         pc \in HooksAhead => pc' \in HooksAhead \cup {"down"}
  PROVE  HookStep
BY DEF HookStep, HooksAhead

\* Nor does a step that leaves the cycle on disk alone, and goes on from where
\* it is.
LEMMA StayHooks ==
  ASSUME disk' = disk,
         pc' \in Applying => pc \in Applying \/ (pc = "UPGRADING" /\ pc' = "apply"),
         pc \in {"after_upgrade", "fail"} => pc' \in {"after_upgrade", "fail", "down"},
         \/ pc \notin HooksAhead
         \/ pc' \in HooksAhead \cup {"down"}
         \/ pc = "fail.hooks" /\ pc' = "fail.report"
  PROVE  HookStep
BY DEF HookStep, HooksAhead

\* What a change of one field leaves of the rest.
SameHooks(c, d) ==
  /\ d \in Cycle
  /\ d.run_id = c.run_id
  /\ d.updates_applied = c.updates_applied
  /\ d.initial_reboot_completed = c.initial_reboot_completed
  /\ d.boot_id_after = c.boot_id_after
  /\ d.state = c.state

LEMMA FieldHooks ==
  ASSUME NEW c \in Cycle, NEW x \in BOOLEAN
  PROVE  /\ SameHooks(c, c)
         /\ \A b \in 0 .. MaxBoots : SameHooks(c, [c EXCEPT !.boot_id_before = b])
         /\ SameHooks(c, [c EXCEPT !.pre_existing_reboot = x])
         /\ SameHooks(c, [c EXCEPT !.reboot_before_updates = x])
         /\ SameHooks(c, [c EXCEPT !.reboot_required = x])
         /\ SameHooks(c, [c EXCEPT !.warnings = x])
         /\ SameHooks(c, [c EXCEPT !.packages_pending = x])
         /\ SameHooks(c, [c EXCEPT !.verify_passed = x])
         /\ \A o \in Outcomes : SameHooks(c, [c EXCEPT !.outcome = o])
         /\ \A e \in ErrorKinds : SameHooks(c, [c EXCEPT !.error = e])
         /\ \A h \in {"none", "ok", "warning", "critical"} :
              SameHooks(c, [c EXCEPT !.health_results = h])
         /\ \A s \in [Notifiers -> DeliveryStatus] :
              SameHooks(c, [c EXCEPT !.notification_status = s])
BY DEF Cycle, SameHooks

LEMMA SameHooksChain ==
  ASSUME NEW c, NEW d, NEW e, SameHooks(c, d), SameHooks(d, e)
  PROVE  SameHooks(c, e)
BY DEF SameHooks

\* A handler that changes no more moves on.
LEMMA SameMoveHooks ==
  ASSUME IInv, pc \in HandlerSteps \ {"after_upgrade", "after_reboot", "POST_REBOOT"},
         NEW c, NEW dst \in Entries, SameHooks(disk, c), MoveTo(c, dst)
  PROVE  HookStep
BY MoveHooks DEF SameHooks, Rebooted

-----------------------------------------------------------------------------
(* Every step, by what it does to them.                                     *)

\* The handlers up to the upgrade.
LEMMA PlanHooks ==
  ASSUME IInv, Precheck \/ PrecheckRepaired \/ Refresh \/ Discover \/ EnterUpgrade
  PROVE  HookStep
<1>1. /\ pc \in HandlerSteps \ {"after_upgrade", "after_reboot", "POST_REBOOT"} /\ cycle = disk
      /\ disk \in Cycle /\ boot \in 0 .. MaxBoots /\ pc \notin {"fail"} \cup HooksAhead
  BY BoundsAssumption
  DEF Precheck, PrecheckRepaired, Refresh, Discover, EnterUpgrade, HandlerSteps, IInv, Core, Memory,
      EngineTypes, Entries, State, BootId, HooksAhead
<1>2. CASE \E kind \in {"pm-failed", "preflight-failed"} : Raise(kind)
  BY <1>1, <1>2, RaiseHooks
<1>3. CASE PrecheckPassed
  <2>0. PICK p \in BOOLEAN :
          LET c == [disk EXCEPT !.boot_id_before = boot, !.pre_existing_reboot = p]
          IN  \/ MoveTo(c, "REFRESHING")
              \/ MoveTo([c EXCEPT !.reboot_before_updates = TRUE, !.reboot_required = TRUE],
                        "REBOOT_PENDING")
    BY <1>1, <1>3 DEF PrecheckPassed
  <2> DEFINE b == [disk EXCEPT !.boot_id_before = boot]
             c == [b EXCEPT !.pre_existing_reboot = p]
             t == TRUE
             d1 == [c EXCEPT !.reboot_before_updates = t]
             d == [d1 EXCEPT !.reboot_required = t]
  <2>1. MoveTo(c, "REFRESHING") \/ MoveTo(d, "REBOOT_PENDING")
    BY <2>0
  <2>2. p \in BOOLEAN /\ t \in BOOLEAN
    OBVIOUS
  <2> HIDE DEF t
  <2>3. SameHooks(disk, b)
    BY <1>1, <2>2, FieldHooks
  <2>4. b \in Cycle
    BY <2>3 DEF SameHooks
  <2> HIDE DEF b
  <2>5. SameHooks(disk, c)
    BY <2>2, <2>3, <2>4, FieldHooks, SameHooksChain
  <2>6. c \in Cycle
    BY <2>5 DEF SameHooks
  <2> HIDE DEF c
  <2>7. SameHooks(disk, d1)
    BY <2>2, <2>5, <2>6, FieldHooks, SameHooksChain
  <2>8. d1 \in Cycle
    BY <2>7 DEF SameHooks
  <2> HIDE DEF d1
  <2>9. SameHooks(disk, d)
    BY <2>2, <2>7, <2>8, FieldHooks, SameHooksChain
  <2> HIDE DEF d
  <2> QED BY <1>1, <2>1, <2>5, <2>9, SameMoveHooks DEF Entries, State
<1>4. CASE \/ \E w \in BOOLEAN : MoveTo([disk EXCEPT !.warnings = w], "DISCOVERING_UPDATES")
           \/ \E a \in BOOLEAN, dst \in {"UPGRADING", "CHECKING_REBOOT"} :
                MoveTo([disk EXCEPT !.packages_pending = a], dst)
  BY <1>1, <1>4, FieldHooks, SameMoveHooks DEF Entries, State
<1>5. CASE MoveTo(disk, "CHECKING_REBOOT")
  BY <1>1, <1>5, FieldHooks, SameMoveHooks DEF Entries, State
<1>6. CASE pc = "UPGRADING" /\ pc' = "apply" /\ disk' = disk
  BY <1>6, StayHooks DEF HooksAhead
<1>7. \A x, y \in BOOLEAN : (x \/ y) \in BOOLEAN /\ (pkgs = "pending") \in BOOLEAN
  OBVIOUS
<1>8. disk.warnings \in BOOLEAN
  BY <1>1 DEF Cycle
<1>9. Refresh => \/ Raise("pm-failed")
                 \/ \E w \in BOOLEAN : MoveTo([disk EXCEPT !.warnings = w], "DISCOVERING_UPDATES")
  BY <1>1, <1>7, <1>8 DEF Refresh
<1>10. Discover => \/ Raise("preflight-failed")
                   \/ \E a \in BOOLEAN, dst \in {"UPGRADING", "CHECKING_REBOOT"} :
                        MoveTo([disk EXCEPT !.packages_pending = a], dst)
  BY <1>1, <1>7 DEF Discover
<1>11. EnterUpgrade => \/ Raise("preflight-failed") \/ MoveTo(disk, "CHECKING_REBOOT")
                       \/ pc = "UPGRADING" /\ pc' = "apply" /\ disk' = disk
  BY <1>1 DEF EnterUpgrade
<1>12. Precheck \/ PrecheckRepaired => Raise("preflight-failed") \/ PrecheckPassed
  BY DEF Precheck, PrecheckRepaired
<1> QED BY <1>2, <1>3, <1>4, <1>5, <1>6, <1>9, <1>10, <1>11, <1>12

\* The upgrade is durable before the hooks that follow it.
LEMMA UpgradeHooks ==
  ASSUME IInv, SaveApplied \/ AfterUpgrade
  PROVE  HookStep
<1>1. CASE SaveApplied
  <2>1. /\ pc = "applied" /\ pc' = "after_upgrade" /\ disk' = [disk EXCEPT !.updates_applied = TRUE]
        /\ disk \in Cycle /\ disk.state = "UPGRADING"
    BY <1>1 DEF SaveApplied, IInv, Core, Memory, Position, EngineTypes
  <2>2. /\ disk'.run_id = disk.run_id /\ disk'.state = "UPGRADING"
        /\ disk'.initial_reboot_completed = disk.initial_reboot_completed
        /\ disk'.boot_id_after = disk.boot_id_after
    BY <2>1 DEF Cycle
  <2> QED BY <2>1, <2>2 DEF HookStep, Applying, Rebooted
<1>2. CASE AfterUpgrade
  <2>1. /\ pc = "after_upgrade" /\ disk \in Cycle /\ disk.state = "UPGRADING"
        /\ MoveTo(disk, "CHECKING_REBOOT") /\ pc \in HandlerSteps
    BY <1>2 DEF AfterUpgrade, IInv, Core, Position, EngineTypes, HandlerSteps
  <2>2. CASE Raise("internal")
    BY <2>1, <2>2, RaiseHooks
  <2>3. CASE Moved(disk, "CHECKING_REBOOT")
    BY <2>1, <2>3 DEF Moved, Kept, HookStep, Applying, Rebooted
  <2> QED BY <2>1, <2>2, <2>3, MovedOrRaised DEF State
<1> QED BY <1>1, <1>2

\* The decision on a reboot.
LEMMA DecisionHooks ==
  ASSUME IInv, CheckReboot \/ DecideReboot
  PROVE  HookStep
<1>1. /\ pc \in HandlerSteps \ {"after_upgrade", "after_reboot", "POST_REBOOT"} /\ cycle = disk
      /\ disk \in Cycle
  BY DEF CheckReboot, DecideReboot, HandlerSteps, IInv, Core, Memory, EngineTypes, Entries, State
<1>0. PICK r \in BOOLEAN :
        CheckReboot =>
          LET c == [disk EXCEPT !.reboot_required = r]
          IN  \/ Raise("preflight-failed")
              \/ MoveTo([c EXCEPT !.outcome = "MANUAL_REBOOT_REQUIRED"], "VERIFYING")
              \/ \E dst \in {"REBOOT_PENDING", "VERIFYING"} : MoveTo(c, dst)
  BY <1>1 DEF CheckReboot
<1> DEFINE c == [disk EXCEPT !.reboot_required = r]
           o == "MANUAL_REBOOT_REQUIRED"
           d == [c EXCEPT !.outcome = o]
           e == [disk EXCEPT !.outcome = o]
<1>2. \/ Raise("preflight-failed")
      \/ \E dst \in Entries : MoveTo(c, dst) \/ MoveTo(d, dst) \/ MoveTo(disk, dst) \/ MoveTo(e, dst)
  BY <1>0, <1>1 DEF DecideReboot, Evaluate, Entries, State
<1>3. r \in BOOLEAN /\ o \in Outcomes
  BY DEF Outcomes
<1> HIDE DEF o
<1>4. SameHooks(disk, c) /\ SameHooks(disk, e) /\ SameHooks(disk, disk)
  BY <1>1, <1>3, FieldHooks
<1>5. c \in Cycle
  BY <1>4 DEF SameHooks
<1> HIDE DEF c
<1>6. SameHooks(disk, d)
  BY <1>3, <1>4, <1>5, FieldHooks, SameHooksChain
<1> HIDE DEF d, e
<1> QED BY <1>1, <1>2, <1>4, <1>6, SameMoveHooks, RaiseHooks

\* A reboot is behind the cycle once it is verified, and its hooks once the
\* cycle moves on from it.
LEMMA RebootHooks ==
  ASSUME IInv, PrepareReboot \/ VerifyRebooted \/ AfterReboot
  PROVE  HookStep
<1>1. pc \in {"reboot.prepare", "POST_REBOOT", "after_reboot"} /\ pc \in HandlerSteps /\ disk \in Cycle
  BY DEF PrepareReboot, VerifyRebooted, AfterReboot, HandlerSteps, IInv, Core, EngineTypes
<1>2. CASE \E kind \in {"reboot-failed", "internal"} : Raise(kind)
  BY <1>1, <1>2, RaiseHooks
<1>3. CASE /\ pc = "reboot.prepare" /\ pc' = "reboot.command"
           /\ disk' = [disk EXCEPT !.boot_id_before = boot,
                                   !.boot_id_after = 0,
                                   !.reboot_attempts = @ + 1]
  <2>1. /\ disk'.run_id = disk.run_id /\ disk'.updates_applied = disk.updates_applied
        /\ disk'.state = disk.state
        /\ disk'.initial_reboot_completed = disk.initial_reboot_completed /\ disk'.boot_id_after = 0
    BY <1>1, <1>3 DEF Cycle
  <2> QED BY <1>3, <2>1, SaveHooks DEF Applying, Rebooted, HooksAhead
<1>4. CASE pc = "POST_REBOOT" /\ pc' = "after_reboot" /\ disk' = [cycle EXCEPT !.boot_id_after = boot]
  <2>1. cycle = disk /\ disk.state = "POST_REBOOT"
    BY <1>4, EntryFacts DEF Entries, State
  <2>2. /\ disk'.run_id = disk.run_id /\ disk'.updates_applied = disk.updates_applied
        /\ disk'.state = "POST_REBOOT"
    BY <1>1, <1>4, <2>1 DEF Cycle
  <2> QED BY <1>4, <2>1, <2>2 DEF HookStep, Applying
<1>5. CASE AfterReboot
  <2>1. disk.state = "POST_REBOOT" /\ pc = "after_reboot"
    BY <1>5 DEF AfterReboot, IInv, Core, Position
  <2>2. CASE /\ disk'.run_id = disk.run_id /\ disk'.updates_applied = disk.updates_applied
             /\ disk'.state = pc'
             /\ pc' \in {"PRECHECK", "VERIFYING"}
    BY <2>1, <2>2 DEF HookStep, Applying
  <2>3. CASE MoveTo(disk, "VERIFYING")
    <3>1. CASE Moved(disk, "VERIFYING")
      BY <2>2, <3>1 DEF Moved, Kept
    <3> QED BY <1>1, <1>2, <2>3, <3>1, MovedOrRaised DEF State
  <2>4. CASE MoveTo([disk EXCEPT !.reboot_before_updates = FALSE,
                                 !.initial_reboot_completed = TRUE,
                                 !.boot_id_before = boot,
                                 !.boot_id_after = 0,
                                 !.reboot_attempts = 0], "PRECHECK")
    <3> DEFINE c == [disk EXCEPT !.reboot_before_updates = FALSE,
                                 !.initial_reboot_completed = TRUE,
                                 !.boot_id_before = boot,
                                 !.boot_id_after = 0,
                                 !.reboot_attempts = 0]
               d == [c EXCEPT !.state = "PRECHECK"]
    <3>1. CASE Raise("internal")
      BY <1>2, <3>1
    <3>2. CASE disk' = d /\ pc' = "PRECHECK"
      <4>1. /\ c.run_id = disk.run_id /\ c.updates_applied = disk.updates_applied
            /\ {"run_id", "state", "updates_applied"} \subseteq DOMAIN c
        BY <1>1 DEF Cycle
      <4> HIDE DEF c
      <4>2. d.run_id = c.run_id /\ d.updates_applied = c.updates_applied /\ d.state = "PRECHECK"
        BY <4>1
      <4> QED BY <2>2, <3>2, <4>1, <4>2
    <3> QED BY <2>4, <3>1, <3>2 DEF MoveTo
  <2> QED BY <1>5, <2>3, <2>4 DEF AfterReboot
<1> QED BY <1>2, <1>3, <1>4, <1>5 DEF PrepareReboot, VerifyRebooted

\* From the verification to the end of the cycle.
LEMMA ClosingHooks ==
  ASSUME IInv, \/ VerifyPackages \/ PackagesVerified \/ CheckHealth
               \/ SaveOutcome \/ RecordDelivery \/ Notified \/ Complete
  PROVE  HookStep
<1>1. disk \in Cycle
  BY DEF IInv, Core, EngineTypes
<1>2. CASE /\ pc \in {"VERIFYING", "NOTIFYING", "notify.record", "COMPLETED"} /\ disk.state # "FAILED"
           /\ pc' \in {"verified", "fail", "notify.report", "notify.deliver", "archive"}
           /\ SameHooks(disk, disk')
  BY <1>2, SaveHooks DEF SameHooks, Rebooted, Applying, HooksAhead
<1>3. pc \in Entries \ {"COMPLETED"} => cycle = disk /\ disk.state = pc
  BY EntryFacts
<1>4. CASE VerifyPackages
  <2>1. pc = "VERIFYING" /\ cycle = disk /\ disk.state # "FAILED" /\ pc \in HandlerSteps
    BY <1>3, <1>4 DEF VerifyPackages, Entries, State, HandlerSteps
  <2>2. CASE Raise("preflight-failed")
    BY <2>1, <2>2, RaiseHooks
  <2>3. CASE \E x \in BOOLEAN : /\ disk' = [disk EXCEPT !.verify_passed = x]
                                /\ pc' \in {"verified", "fail"}
    BY <1>1, <1>2, <2>1, <2>3, FieldHooks
  <2>4. (pkgs = "current") \in BOOLEAN
    OBVIOUS
  <2> QED BY <1>4, <2>1, <2>2, <2>3, <2>4 DEF VerifyPackages
<1>5. CASE PackagesVerified \/ Notified
  <2>1. pc \in HandlerSteps \ {"after_upgrade", "after_reboot", "POST_REBOOT"}
        /\ \E dst \in Entries : MoveTo(disk, dst)
    BY <1>5 DEF PackagesVerified, Notified, HandlerSteps, Entries, State
  <2> QED BY <1>1, <2>1, FieldHooks, SameMoveHooks
<1>6. CASE CheckHealth
  <2>1. PICK health \in {"ok", "warning", "critical"} :
          MoveTo([cycle EXCEPT !.health_results = health,
                               !.error = IF health = "critical"
                                         THEN "health-check-failed" ELSE @], "NOTIFYING")
    BY <1>6 DEF CheckHealth
  <2>2. /\ cycle = disk /\ "NOTIFYING" \in Entries
        /\ pc \in HandlerSteps \ {"after_upgrade", "after_reboot", "POST_REBOOT"}
    BY <1>3, <1>6 DEF CheckHealth, Entries, State, HandlerSteps
  <2> DEFINE e == IF health = "critical" THEN "health-check-failed" ELSE disk.error
             c == [disk EXCEPT !.health_results = health]
             d == [c EXCEPT !.error = e]
  <2>3. MoveTo(d, "NOTIFYING")
    <3>1. d = [cycle EXCEPT !.health_results = health,
                            !.error = IF health = "critical"
                                      THEN "health-check-failed" ELSE @]
      BY <1>1, <2>2 DEF Cycle
    <3> QED BY <2>1, <3>1
  <2>4. e \in ErrorKinds
    BY <1>1 DEF Cycle, ErrorKinds
  <2> HIDE DEF e
  <2>5. SameHooks(disk, c)
    BY <1>1, FieldHooks
  <2>6. c \in Cycle
    BY <2>5 DEF SameHooks
  <2> HIDE DEF c
  <2>7. SameHooks(disk, d)
    BY <2>4, <2>5, <2>6, FieldHooks, SameHooksChain
  <2> HIDE DEF d
  <2> QED BY <2>2, <2>3, <2>7, SameMoveHooks
<1>7. CASE SaveOutcome \/ Complete
  <2>1. cycle = disk /\ disk.state # "FAILED"
    BY <1>7 DEF SaveOutcome, Complete, IInv, Core, Memory, Position, Entries, State
  <2>2. FinalOutcome(disk) \in Outcomes
    BY <1>1, FinalOutcomeType
  <2>3. disk' = [disk EXCEPT !.outcome = FinalOutcome(disk)]
    BY <1>7, <2>1 DEF SaveOutcome, Complete
  <2>4. SameHooks(disk, disk')
    BY <1>1, <2>2, <2>3, FieldHooks
  <2> QED BY <1>2, <1>7, <2>1, <2>4 DEF SaveOutcome, Complete
<1>8. CASE RecordDelivery
  <2>1. status \in [Notifiers -> DeliveryStatus] /\ disk.state # "FAILED"
    BY <1>8 DEF RecordDelivery, IInv, Core, OtherTypes, Position
  <2>2. SameHooks(disk, disk')
    BY <1>1, <1>8, <2>1, FieldHooks DEF RecordDelivery
  <2> QED BY <1>2, <1>8, <2>1, <2>2 DEF RecordDelivery
<1> QED BY <1>4, <1>5, <1>6, <1>7, <1>8

\* The failure path: the hooks for a failure come after its first save.
LEMMA FailurePathHooks ==
  ASSUME IInv, Fail \/ RecordError \/ FailureNotified
  PROVE  HookStep
<1>1. disk \in Cycle /\ exc \in ErrorKinds /\ status \in [Notifiers -> DeliveryStatus]
  BY DEF IInv, Core, EngineTypes, OtherTypes
<1>2. CASE Fail
  <2>1. disk' = [disk EXCEPT !.state = "FAILED"] /\ pc = "fail" /\ pc' = "fail.record"
    BY <1>2 DEF Fail, IInv, Core, Memory, Working
  <2>2. disk'.state = "FAILED" /\ Kept(disk, disk')
    BY <1>1, <2>1, SetStateKeeps DEF State
  <2> QED BY <2>1, <2>2 DEF HookStep, Kept, Applying, HooksAhead
<1>3. CASE RecordError \/ FailureNotified
  <2>1. /\ pc \in {"fail.record", "fail.deliver"} /\ cycle = disk
        /\ pc' = IF pc = "fail.record" THEN "fail.hooks" ELSE "archive"
    BY <1>3 DEF RecordError, FailureNotified, IInv, Core, Memory
  <2>2. CASE RecordError
    <3> DEFINE o == IF exc = "preflight-failed" THEN "BLOCKED" ELSE "FAILED"
               c == [disk EXCEPT !.error = exc]
    <3>1. disk' = [c EXCEPT !.outcome = o]
      BY <1>1, <2>1, <2>2 DEF RecordError, Cycle
    <3>2. o \in Outcomes
      BY DEF Outcomes
    <3> HIDE DEF o
    <3>3. SameHooks(disk, c)
      BY <1>1, FieldHooks
    <3>4. c \in Cycle
      BY <3>3 DEF SameHooks
    <3> HIDE DEF c
    <3>5. SameHooks(disk, disk')
      BY <3>1, <3>2, <3>3, <3>4, FieldHooks, SameHooksChain
    <3> QED BY <2>1, <2>2, <3>5, SaveHooks DEF RecordError, SameHooks, Rebooted, Applying, HooksAhead
  <2>3. CASE FailureNotified
    <3>1. SameHooks(disk, disk')
      BY <1>1, <2>1, <2>3, FieldHooks DEF FailureNotified
    <3> QED BY <2>1, <2>3, <3>1, SaveHooks DEF FailureNotified, SameHooks, Rebooted, Applying, HooksAhead
  <2> QED BY <1>3, <2>2, <2>3
<1> QED BY <1>2, <1>3

\* The steps that leave the cycle on disk as it is.
LEMMA OutsideHooks ==
  ASSUME IInv, \/ RepairInterrupted \/ BeginApply \/ EndApply \/ EnterReboot \/ CommandReboot
               \/ SaveReport \/ FailureHooks \/ ReportFailure \/ Archive \/ HandlerRaises
               \/ \E n \in Notifiers : Deliver(n) \/ DeliverFailure(n)
               \/ Crash \/ Reboot \/ GrowStale \/ EditConfig \/ UNCHANGED vars
  PROVE  HookStep
<1>1. CASE /\ disk' = disk /\ pc \notin {"after_upgrade", "fail"} \cup HooksAhead
           /\ pc' \in {"repaired", "fail", "reboot.prepare", "reboot.command", "down", "notify.deliver",
                       "notify.record", "fail.deliver", "reset", "rereset"}
  BY <1>1, StayHooks DEF Applying
<1>2. CASE \/ RepairInterrupted \/ EnterReboot \/ CommandReboot
           \/ SaveReport \/ ReportFailure \/ Archive
           \/ \E n \in Notifiers : Deliver(n) \/ DeliverFailure(n)
  BY <1>1, <1>2 DEF RepairInterrupted, EnterReboot, CommandReboot, SaveReport, ReportFailure,
                    Archive, Deliver, DeliverFailure, Raise, Exit, HooksAhead
<1>7. CASE FailureHooks
  BY <1>7, StayHooks DEF FailureHooks, Applying
<1>3. CASE BeginApply \/ EndApply
  BY <1>3, StayHooks DEF BeginApply, EndApply, Raise, Applying, HooksAhead
<1>4. CASE HandlerRaises
  BY <1>4, RaiseHooks DEF HandlerRaises
<1>5. CASE Crash \/ Reboot
  BY <1>5, StayHooks DEF Crash, Reboot, Exit, Applying
<1>6. CASE GrowStale \/ EditConfig \/ UNCHANGED vars
  <2>1. disk' = disk /\ pc' = pc
    BY <1>6 DEF GrowStale, EditConfig, vars, engineVars
  <2> QED BY <2>1, StayHooks
<1> QED BY <1>2, <1>3, <1>4, <1>5, <1>6, <1>7

\* A process that starts again goes back before the hooks that are still due.
LEMMA StartHooks ==
  ASSUME IInv, Run \/ Resume
  PROVE  HookStep
<1>1. pc = "down" /\ disk \in Cycle
  BY DEF Run, Resume, IInv, Core, EngineTypes
<1>2. disk.state \in State /\ (disk.state \notin TerminalStates => disk.state # "FAILED")
  BY <1>1 DEF Cycle, TerminalStates
<1>3. CASE disk' = disk /\ pc' \in {"fail", "new", "archive", "rearchive", "down", disk.state}
  BY <1>1, <1>2, <1>3, StayHooks DEF Applying, State, HooksAhead
<1>4. ASSUME disk.state # "FAILED", NEW s \in {"PRECHECK", "POST_REBOOT"},
             s = "PRECHECK" => disk.state # "POST_REBOOT",
             disk' = [disk EXCEPT !.state = s], pc' = s
      PROVE  HookStep
  <2>1. s \in State
    BY <1>4 DEF State
  <2>2. disk'.state = s /\ Kept(disk, disk')
    BY <1>1, <1>4, <2>1, SetStateKeeps
  <2>3. /\ pc' \notin Applying /\ disk'.state # "FAILED" /\ pc \notin {"after_upgrade", "fail"}
        /\ disk'.state # "POST_REBOOT" => disk.state # "POST_REBOOT"
    BY <1>1, <1>4, <2>2 DEF Applying
  <2>4. /\ disk'.run_id = disk.run_id /\ disk'.updates_applied = disk.updates_applied
        /\ Rebooted(disk') => Rebooted(disk)
    BY <2>2 DEF Kept, Rebooted
  <2> QED BY <1>4, <2>3, <2>4 DEF HookStep
<1>5. disk.state \in EarlyStates => disk.state # "POST_REBOOT"
  BY DEF EarlyStates
<1>6. CASE disk.state \notin TerminalStates \cup {"IDLE"} /\ Recovery
  BY <1>1, <1>2, <1>3, <1>4, <1>5, <1>6 DEF Recovery, DriveFrom, engineVars
<1> QED BY <1>3, <1>6, StartSteps

\* Nothing is behind a cycle that begins, nor behind none.
LEMMA BlankHooks ==
  ASSUME IInv, Reset \/ ResetForNewCycle \/ NewCycle
  PROVE  HookStep \/ Hooks'
<1>1. CASE /\ ~disk'.updates_applied /\ ~Rebooted(disk') /\ disk'.state \in {"IDLE", "PRECHECK"}
           /\ pc' \notin Applying
  BY <1>1 DEF Hooks, BeforeUpgrade, AfterItsUpgrade, AfterItsReboot, OnItsFailure, Applying, Rebooted
<1>2. CASE Reset \/ ResetForNewCycle
  BY <1>1, <1>2 DEF Reset, ResetForNewCycle, Exit, Idle, FreshCycle, Rebooted, Applying
<1>3. CASE NewCycle /\ Exit /\ UNCHANGED disk
  BY <1>3, StayHooks DEF NewCycle, Exit, Applying, HooksAhead
<1>4. CASE NewCycle /\ MoveTo(FreshCycle(started + 1), "PRECHECK")
  <2> DEFINE c == FreshCycle(started + 1)
  <2>1. c.state = "IDLE" /\ IsLegalTransition("IDLE", "PRECHECK")
    BY DEF FreshCycle, IsLegalTransition, Transitions, State
  <2>2. disk' = [c EXCEPT !.state = "PRECHECK"] /\ pc' = "PRECHECK"
    BY <1>4, <2>1 DEF MoveTo
  <2> QED BY <1>1, <2>2 DEF FreshCycle, Rebooted, Applying
<1> QED BY <1>2, <1>3, <1>4 DEF NewCycle

LEMMA NextKeepsHooks == IInv /\ Hooks /\ [HooksNext]_hooksVars => Hooks'
<1> SUFFICES ASSUME IInv, Hooks, [HooksNext]_hooksVars PROVE Hooks'
  OBVIOUS
<1>1. CASE UNCHANGED hooksVars
  BY <1>1 DEF hooksVars, vars, engineVars, Hooks, BeforeUpgrade, AfterItsUpgrade, AfterItsReboot,
              OnItsFailure, HooksAhead, Applying, Rebooted
<1>2. CASE HooksNext
  <2>1. HookStep \/ Hooks'
    BY <1>2, PlanHooks, UpgradeHooks, DecisionHooks, RebootHooks, ClosingHooks,
       FailurePathHooks, OutsideHooks, StartHooks, BlankHooks
    DEF HooksNext, Next, EngineStep
  <2> QED BY <1>2, <2>1, HookStepKeeps
<1> QED BY <1>1, <1>2

\* However often its processes died and its machine rebooted, a cycle that
\* completes ran the hooks around its upgrade and after each reboot it ordered,
\* and one that fails those for a failure, but for the hooks after an upgrade
\* or a failure that a process died in.
THEOREM HooksAreFollowedThrough == HooksSpec => []HooksFollowThrough
<1>1. HooksInit => IInv /\ Hooks
  <2> SUFFICES ASSUME HooksInit PROVE IInv /\ Hooks
    OBVIOUS
  <2>1. IInv
    BY InitIInv DEF HooksInit
  <2>2. Hooks
    BY DEF HooksInit, Init, Idle, FreshCycle, Hooks, BeforeUpgrade, AfterItsUpgrade, AfterItsReboot,
           OnItsFailure, Rebooted, Applying
  <2> QED BY <2>1, <2>2
<1>2. [HooksNext]_hooksVars => [Next]_vars
  BY DEF HooksNext, hooksVars
<1>3. IInv /\ Hooks /\ [HooksNext]_hooksVars => IInv' /\ Hooks'
  BY <1>2, NextKeeps, NextKeepsHooks
<1>4. IInv /\ Hooks => HooksFollowThrough
  BY DEF Hooks, BeforeUpgrade, AfterItsUpgrade, AfterItsReboot, OnItsFailure, HooksAhead,
                   Rebooted, HooksFollowThrough
<1> QED BY <1>1, <1>3, <1>4, PTL DEF HooksSpec
=============================================================================
