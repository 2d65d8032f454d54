------------------------------ MODULE Installer ------------------------------
(***************************************************************************)
(* Host integration: install and uninstall (patchcycle/installer.py) under *)
(* the execution lock (patchcycle/lock.py), beside the maintenance process *)
(* whose recovery they must not take away.  A systemctl call may fail and  *)
(* a process may be killed at any step; both are repeated later over what  *)
(* they left.                                                              *)
(***************************************************************************)
EXTENDS Naturals

CONSTANTS
  Schedules,    \* the schedules an operator may configure
  MaxCycles     \* BOUND: cycles begun

ASSUME InstallerAssumption ==
  /\ "weekly" \in Schedules /\ Schedules \subseteq {"manual", "weekly", "daily"}
  /\ MaxCycles \in Nat

VARIABLES
  schedule,     \* [maintenance] schedule of config.toml
  configFile,   \* config.toml: "absent", the "default" template, or "admin"
  units,        \* the unit files: "absent", "present", or a timer's schedule
  enabled,      \* the units systemd starts at boot
  active,       \* the timer is running
  dirs,         \* the state directory and its history, as far as they exist
  records,      \* the cycles with a record in history
  reports,      \* the cycles with a report in history
  temp,         \* the temporary file of an atomic write that was killed is left
  cycle,        \* state.json: "none", "active", "rebooting" or "terminal"
  queued,       \* a reboot is queued
  holder,       \* who holds the flock on the lock file
  pc,           \* what each process is about to do
  seen,         \* the schedule an installer was started with
  purge,        \* the last uninstall to start was asked to purge
  cycles        \* cycles begun

Processes == {"install", "uninstall", "maintain"}
Timer == "timer"
Service == "service"
Resume == "resume"
Units == {Timer, Service, Resume}
UnitContent == {"absent", "present"} \cup Schedules

hostVars == <<units, enabled, active>>
files == <<dirs, records, reports, temp>>
cycleVars == <<cycle, queued, cycles>>
inputs == <<schedule, seen, purge>>
vars == <<configFile, hostVars, files, cycleVars, holder, pc, inputs>>

Init ==
  /\ schedule \in Schedules
  /\ configFile \in {"absent", "admin"}
  /\ units = [u \in Units |-> "absent"]
  /\ enabled = {}
  /\ active = FALSE
  /\ dirs = {} /\ records = {} /\ reports = {} /\ temp = FALSE
  /\ cycle = "none"
  /\ queued = FALSE
  /\ holder = "nobody"
  /\ pc = [p \in Processes |-> "off"]
  /\ seen \in {schedule}
  /\ purge = FALSE
  /\ cycles = 0

Exists(unit) == units[unit] # "absent"

Goto(p, place) ==
  /\ pc' = [pc EXCEPT ![p] = place]
  /\ UNCHANGED holder

\* The process ends; closing the lock file releases the lock.
End(p) ==
  /\ pc' = [pc EXCEPT ![p] = "off"]
  /\ holder' = IF holder = p THEN "nobody" ELSE holder

\* A systemctl or systemd-analyze call: a failing one ends the command.
Checked(p, at, next, ok) ==
  /\ pc[p] = at
  /\ IF ok THEN Goto(p, next) ELSE End(p)

\* What disable --now and enable --now leave; a failing one may have done the
\* half of it that systemctl does first.
Disabled(unit, ok) == /\ enabled' \in {enabled \ {unit}} \cup (IF ok THEN {} ELSE {enabled})
                      /\ active' = (active /\ ~(ok /\ unit = Timer))
Enabled(unit, ok) == /\ enabled' \in {enabled \cup {unit}} \cup (IF ok THEN {} ELSE {enabled})
                     /\ active' = (active \/ (ok /\ unit = Timer))

-----------------------------------------------------------------------------
(* Starting, and the lock.                                                  *)

\* A missing config.toml is an error except for install, which starts from
\* the defaults: weekly maintenance.
StartInstall ==
  /\ pc["install"] = "off"
  /\ Goto("install", "lock")
  /\ seen' = IF configFile = "absent" THEN "weekly" ELSE schedule
  /\ UNCHANGED <<configFile, hostVars, files, cycleVars, schedule, purge>>

StartUninstall ==
  /\ pc["uninstall"] = "off"
  /\ configFile # "absent"
  /\ purge' \in BOOLEAN
  /\ Goto("uninstall", "lock")
  /\ UNCHANGED <<configFile, hostVars, files, cycleVars, schedule, seen>>

StartMaintain ==
  /\ pc["maintain"] = "off"
  /\ configFile # "absent"
  /\ Goto("maintain", "lock")
  /\ UNCHANGED <<configFile, hostVars, files, cycleVars, inputs>>

\* WRONG: the lock file's content, not the flock, says who runs.
Acquire_Ignored(p) ==
  /\ pc[p] = "lock"
  /\ pc' = [pc EXCEPT ![p] = "idle"]
  /\ holder' = p
  /\ UNCHANGED <<configFile, hostVars, files, cycleVars, inputs>>

\* flock, exclusive and not blocking: the second one ends.
Acquire(p) ==
  /\ pc[p] = "lock"
  /\ IF holder = "nobody"
     THEN /\ holder' = p
          /\ pc' = [pc EXCEPT ![p] = "idle"]
     ELSE End(p)
  /\ UNCHANGED <<configFile, hostVars, files, cycleVars, inputs>>

\* WRONG: a pending cycle is not looked for.
RequireIdle_Skipped(p, next) ==
  /\ pc[p] = "idle"
  /\ Goto(p, next)
  /\ UNCHANGED <<configFile, hostVars, files, cycleVars, inputs>>

\* _require_idle: a pending cycle keeps its recovery services.
RequireIdle(p, next) ==
  /\ pc[p] = "idle"
  /\ IF cycle \in {"none", "terminal"} THEN Goto(p, next) ELSE End(p)
  /\ UNCHANGED <<configFile, hostVars, files, cycleVars, inputs>>

-----------------------------------------------------------------------------
(* install()                                                                *)

\* daemon-reload, and analyze calendar for a schedule that has one.
CheckSystemd ==
  /\ \E ok \in BOOLEAN : Checked("install", "check", "config", ok)
  /\ UNCHANGED <<configFile, hostVars, files, cycleVars, inputs>>

\* WRONG: the template replaces what is there.
WriteConfig_Always ==
  /\ pc["install"] = "config"
  /\ configFile' = "default"
  /\ schedule' = "weekly"
  /\ Goto("install", "dirs")
  /\ UNCHANGED <<hostVars, files, cycleVars, seen, purge>>

\* An existing configuration is kept; a config.toml.new is written beside it.
WriteConfig ==
  /\ pc["install"] = "config"
  /\ IF configFile = "absent"
     THEN configFile' = "default" /\ schedule' = "weekly"
     ELSE UNCHANGED <<configFile, schedule>>
  /\ Goto("install", "dirs")
  /\ UNCHANGED <<hostVars, files, cycleVars, seen, purge>>

\* WRONG: the state directory is taken to be there.
WriteStateDirs_HistoryOnly ==
  /\ pc["install"] = "dirs"
  /\ dirs' = dirs \cup {"history"}
  /\ Goto("install", "service")
  /\ UNCHANGED <<configFile, hostVars, records, reports, temp, cycleVars, inputs>>

\* The state directory, then its history.
WriteStateDirs ==
  /\ pc["install"] = "dirs"
  /\ IF "state" \in dirs
     THEN /\ dirs' = dirs \cup {"history"}
          /\ Goto("install", "service")
     ELSE /\ dirs' = {"state"}
          /\ Goto("install", "dirs")
  /\ UNCHANGED <<configFile, hostVars, records, reports, temp, cycleVars, inputs>>

\* _write_unit: the new content replaces the old one atomically.
WriteUnit(u, at, next) ==
  /\ pc["install"] = at
  /\ units' = [units EXCEPT ![u] = "present"]
  /\ Goto("install", next)
  /\ UNCHANGED <<configFile, enabled, active, files, cycleVars, inputs>>

\* WRONG: a manual schedule leaves the timer as it is.
WriteTimer_LeavesOld ==
  /\ pc["install"] = "timer"
  /\ units' = [units EXCEPT ![Timer] = IF seen = "manual" THEN @ ELSE seen]
  /\ Goto("install", "verify")
  /\ UNCHANGED <<configFile, enabled, active, files, cycleVars, inputs>>

\* A schedule has its timer written; a manual one has it disabled first.
WriteTimer ==
  /\ pc["install"] = "timer"
  /\ IF seen = "manual" /\ Exists(Timer)
     THEN \E ok \in BOOLEAN :
             /\ Checked("install", "timer", "timer.unlink", ok)
             /\ Disabled(Timer, ok)
             /\ UNCHANGED units
     ELSE /\ Goto("install", "verify")
          /\ units' = [units EXCEPT ![Timer] = IF seen = "manual" THEN @ ELSE seen]
          /\ UNCHANGED <<enabled, active>>
  /\ UNCHANGED <<configFile, files, cycleVars, inputs>>

UnlinkTimer ==
  /\ pc["install"] = "timer.unlink"
  /\ units' = [units EXCEPT ![Timer] = "absent"]
  /\ Goto("install", "verify")
  /\ UNCHANGED <<configFile, enabled, active, files, cycleVars, inputs>>

\* analyze verify and daemon-reload.
VerifyUnits ==
  /\ \E ok \in BOOLEAN : Checked("install", "verify", "enable", ok)
  /\ UNCHANGED <<configFile, hostVars, files, cycleVars, inputs>>

EnableResume ==
  /\ \E ok \in BOOLEAN :
       /\ Checked("install", "enable",
                  IF seen = "manual" THEN "installed" ELSE "enable.timer", ok)
       /\ Enabled(Resume, ok)
  /\ UNCHANGED <<configFile, units, files, cycleVars, inputs>>

EnableTimer ==
  /\ \E ok \in BOOLEAN :
       /\ Checked("install", "enable.timer", "installed", ok)
       /\ Enabled(Timer, ok)
  /\ UNCHANGED <<configFile, units, files, cycleVars, inputs>>

Installed ==
  /\ pc["install"] = "installed"
  /\ End("install")
  /\ UNCHANGED <<configFile, hostVars, files, cycleVars, inputs>>

-----------------------------------------------------------------------------
(* uninstall()                                                              *)

\* _check_purge_target: no temporary file, no report without its cycle.
Purgeable == ~temp /\ reports \subseteq records

CheckPurge ==
  /\ pc["uninstall"] = "check"
  /\ IF purge => Purgeable THEN Goto("uninstall", "disable") ELSE End("uninstall")
  /\ UNCHANGED <<configFile, hostVars, files, cycleVars, inputs>>

\* A unit without a file is not asked for.
Disable(unit, at, next) ==
  /\ IF Exists(unit)
     THEN \E ok \in BOOLEAN : Checked("uninstall", at, next, ok) /\ Disabled(unit, ok)
     ELSE /\ Checked("uninstall", at, next, TRUE)
          /\ UNCHANGED <<enabled, active>>
  /\ UNCHANGED <<configFile, units, files, cycleVars, inputs>>

DisableTimer == Disable(Timer, "disable", "disable.resume")

\* WRONG: the boot-resume service stays enabled.
DisableResume_Forgotten ==
  /\ pc["uninstall"] = "disable.resume"
  /\ Goto("uninstall", "unlink")
  /\ UNCHANGED <<configFile, hostVars, files, cycleVars, inputs>>

DisableResume == Disable(Resume, "disable.resume", "unlink")

\* WRONG: a timer that is not enabled is taken for one that is not there.
UnlinkUnits_EnabledOnly ==
  /\ pc["uninstall"] = "unlink"
  /\ units' = [units EXCEPT ![Service] = "absent", ![Resume] = "absent"]
  /\ Goto("uninstall", "reload")
  /\ UNCHANGED <<configFile, enabled, active, files, cycleVars, inputs>>

\* Timer, service, resume, in this order.
UnlinkUnits ==
  /\ pc["uninstall"] = "unlink"
  /\ LET next == IF Exists(Timer) THEN Timer ELSE IF Exists(Service) THEN Service ELSE Resume
     IN  IF \E u \in Units : Exists(u)
         THEN units' = [units EXCEPT ![next] = "absent"] /\ Goto("uninstall", "unlink")
         ELSE Goto("uninstall", "reload") /\ UNCHANGED units
  /\ UNCHANGED <<configFile, enabled, active, files, cycleVars, inputs>>

ReloadUninstalled ==
  /\ \E ok \in BOOLEAN :
       Checked("uninstall", "reload", IF purge THEN "purge.config" ELSE "uninstalled", ok)
  /\ UNCHANGED <<configFile, hostVars, files, cycleVars, inputs>>

PurgeConfig ==
  /\ pc["uninstall"] = "purge.config"
  /\ configFile' = "absent"
  /\ Goto("uninstall", "purge.state")
  /\ UNCHANGED <<hostVars, files, cycleVars, inputs>>

\* rmtree removes one entry after the other, a directory when it is empty.
RemoveEntry ==
  \/ \E n \in records : records' = records \ {n} /\ UNCHANGED <<dirs, reports, temp, cycle>>
  \/ \E n \in reports : reports' = reports \ {n} /\ UNCHANGED <<dirs, records, temp, cycle>>
  \/ temp /\ temp' = FALSE /\ UNCHANGED <<dirs, records, reports, cycle>>
  \/ cycle # "none" /\ cycle' = "none" /\ UNCHANGED files
  \/ /\ "history" \in dirs /\ records = {} /\ reports = {}
     /\ dirs' = {"state"}
     /\ UNCHANGED <<records, reports, temp, cycle>>
  \/ /\ dirs = {"state"} /\ ~temp /\ cycle = "none"
     /\ dirs' = {}
     /\ UNCHANGED <<records, reports, temp, cycle>>

PurgeState ==
  /\ pc["uninstall"] = "purge.state"
  /\ IF dirs = {}
     THEN Goto("uninstall", "uninstalled") /\ UNCHANGED <<files, cycle>>
     ELSE RemoveEntry /\ UNCHANGED <<pc, holder>>
  /\ UNCHANGED <<configFile, hostVars, queued, cycles, inputs>>

Uninstalled ==
  /\ pc["uninstall"] = "uninstalled"
  /\ End("uninstall")
  /\ UNCHANGED <<configFile, hostVars, files, cycleVars, inputs>>

-----------------------------------------------------------------------------
(* A run or resume, as far as the host can tell.                            *)

\* A pending cycle is resumed.  A terminal one is archived first, and a new
\* one makes its directory.
BeginCycle ==
  /\ pc["maintain"] = "idle"
  /\ IF cycle \in {"active", "rebooting"}
     THEN UNCHANGED <<files, cycle, cycles>>
     ELSE /\ cycles < MaxCycles
          /\ cycles' = cycles + 1
          /\ cycle' = "active"
          /\ IF cycle = "terminal"
             THEN dirs' = {"state", "history"} /\ records' = records \cup {cycles}
             ELSE dirs' = dirs \cup {"state"} /\ UNCHANGED records
          /\ UNCHANGED <<reports, temp>>
  /\ Goto("maintain", "work")
  /\ UNCHANGED <<configFile, hostVars, queued, inputs>>

\* prepare_and_reboot, which asks systemd for the enabled resume unit first.
CheckResumePath ==
  /\ pc["maintain"] = "work" /\ cycle \in {"active", "rebooting"}
  /\ Resume \in enabled /\ Exists(Resume)
  /\ cycle' = "rebooting"
  /\ Goto("maintain", "reboot")
  /\ UNCHANGED <<configFile, hostVars, files, queued, cycles, inputs>>

OrderReboot ==
  /\ pc["maintain"] = "reboot"
  /\ queued' = TRUE
  /\ End("maintain")
  /\ UNCHANGED <<configFile, hostVars, files, cycle, cycles, inputs>>

\* The report of the cycle, before or after its last state is saved.
SaveReport ==
  /\ pc["maintain"] = "work"
  /\ dirs' = {"state", "history"}
  /\ reports' = reports \cup {cycles}
  /\ UNCHANGED <<configFile, hostVars, records, temp, cycleVars, holder, pc, inputs>>

\* COMPLETED or FAILED is saved.
EndCycle ==
  /\ pc["maintain"] = "work" /\ cycle # "terminal"
  /\ cycle' = "terminal"
  /\ UNCHANGED <<configFile, hostVars, files, queued, cycles, holder, pc, inputs>>

ArchiveCycle ==
  /\ pc["maintain"] = "work" /\ cycle = "terminal"
  /\ dirs' = {"state", "history"}
  /\ records' = records \cup {cycles}
  /\ cycle' = "none"
  /\ End("maintain")
  /\ UNCHANGED <<configFile, hostVars, reports, temp, queued, cycles, inputs>>

-----------------------------------------------------------------------------
(* The environment.                                                         *)

\* A death in an atomic write leaves its temporary file.
Kill(p) ==
  /\ pc[p] # "off"
  /\ End(p)
  /\ temp' \in {temp, temp \/ (pc[p] = "work")}
  /\ UNCHANGED <<configFile, hostVars, dirs, records, reports, cycleVars, inputs>>

\* The next boot starts what is enabled.
Reboot ==
  /\ pc' = [p \in Processes |-> "off"]
  /\ holder' = "nobody"
  /\ queued' = FALSE
  /\ active' = (Timer \in enabled /\ Exists(Timer))
  /\ UNCHANGED <<configFile, units, enabled, files, cycle, cycles, inputs>>

\* An operator writes the configuration.
EditConfig ==
  /\ configFile' = "admin"
  /\ schedule' \in Schedules
  /\ UNCHANGED <<hostVars, files, cycleVars, holder, pc, seen, purge>>

Install ==
  \/ StartInstall \/ Acquire("install") \/ RequireIdle("install", "check")
  \/ CheckSystemd \/ WriteConfig \/ WriteStateDirs
  \/ WriteUnit(Service, "service", "resume") \/ WriteUnit(Resume, "resume", "timer")
  \/ WriteTimer \/ UnlinkTimer \/ VerifyUnits \/ EnableResume \/ EnableTimer \/ Installed

Uninstall ==
  \/ StartUninstall \/ Acquire("uninstall") \/ RequireIdle("uninstall", "check")
  \/ CheckPurge \/ DisableTimer \/ DisableResume \/ UnlinkUnits \/ ReloadUninstalled
  \/ PurgeConfig \/ PurgeState \/ Uninstalled

Maintain ==
  \/ StartMaintain \/ Acquire("maintain") \/ BeginCycle
  \/ CheckResumePath \/ OrderReboot \/ SaveReport \/ EndCycle \/ ArchiveCycle

Next ==
  \/ Install \/ Uninstall \/ Maintain
  \/ \E p \in Processes : Kill(p)
  \/ Reboot \/ EditConfig

Spec == Init /\ [][Next]_vars

-----------------------------------------------------------------------------
(* Properties.                                                              *)

Places ==
  {"off", "lock", "idle", "check", "config", "dirs", "service", "resume", "timer",
   "timer.unlink", "verify", "enable", "enable.timer", "installed", "disable",
   "disable.resume", "unlink", "reload", "purge.config", "purge.state", "uninstalled",
   "work", "reboot"}

TypeOK ==
  /\ schedule \in Schedules
  /\ configFile \in {"absent", "default", "admin"}
  /\ units \in [Units -> UnitContent]
  /\ enabled \subseteq Units
  /\ active \in BOOLEAN
  /\ dirs \in {{}, {"state"}, {"state", "history"}}
  /\ records \subseteq 1 .. MaxCycles
  /\ reports \subseteq 1 .. MaxCycles
  /\ temp \in BOOLEAN
  /\ cycle \in {"none", "active", "rebooting", "terminal"}
  /\ queued \in BOOLEAN
  /\ holder \in Processes \cup {"nobody"}
  /\ pc \in [Processes -> Places]
  /\ seen \in Schedules
  /\ purge \in BOOLEAN
  /\ cycles \in 0 .. MaxCycles

\* A cycle that may have ordered a reboot has its resume service enabled and
\* its state kept, whatever installers run, fail or die meanwhile.
PendingKeepsRecovery ==
  cycle = "rebooting" => Resume \in enabled /\ Exists(Resume) /\ "state" \in dirs

\* No unit is enabled, or a timer running, without its file, and no unit is
\* there without a configuration: not at any step of an installation, a removal
\* or a purge that may stop there.
NothingDangles ==
  /\ \A u \in enabled : Exists(u)
  /\ active => Exists(Timer)
  /\ configFile = "absent" => \A u \in Units : ~Exists(u)

\* An install that reports success has the host as its configuration says,
\* whatever an earlier one, another schedule or a half removal left.
InstallIsComplete ==
  pc["install"] = "installed" =>
    /\ Exists(Service) /\ Exists(Resume) /\ Resume \in enabled
    /\ dirs = {"state", "history"} /\ configFile # "absent"
    /\ IF seen = "manual" THEN ~Exists(Timer) /\ Timer \notin enabled
                          ELSE units[Timer] = seen /\ Timer \in enabled /\ active

\* An uninstall that reports success leaves no unit behind, enabled or running,
\* whatever was missing or half done when it began; a purge leaves no state.
UninstallIsComplete ==
  /\ pc["uninstall"] = "uninstalled" =>
       /\ \A u \in Units : ~Exists(u)
       /\ enabled = {} /\ ~active
       /\ (purge => dirs = {} /\ cycle = "none")

\* A purge is at work.
Purging == holder = "uninstall" /\ purge

\* Only a purge at work takes away the operator's configuration, a directory,
\* a record or a report; otherwise state.json gives up a cycle only to its
\* record in the history.
OperatorDataIsKept ==
  [][Purging \/
       /\ configFile = "admin" => configFile' = "admin"
       /\ dirs \subseteq dirs' /\ records \subseteq records' /\ reports \subseteq reports'
       /\ cycle # "none" /\ (cycle' = "none" \/ cycles' # cycles) => cycles \in records']_vars
=============================================================================
