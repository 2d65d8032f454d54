-------------------------- MODULE Installer_proofs --------------------------
(***************************************************************************)
(* Proofs about the host integration of Installer, for any schedules and   *)
(* any number of cycles: the lock keeps installer and maintenance apart,   *)
(* and every place of an installation or removal says what is done by      *)
(* then, so that it may stop there.                                        *)
(***************************************************************************)
EXTENDS Installer, TLAPS

-----------------------------------------------------------------------------
(* The inductive invariant.                                                 *)

InstallPlaces ==
  {"off", "lock", "idle", "check", "config", "dirs", "service", "resume", "timer",
   "timer.unlink", "verify", "enable", "enable.timer", "installed"}
UninstallPlaces ==
  {"off", "lock", "idle", "check", "disable", "disable.resume", "unlink", "reload",
   "purge.config", "purge.state", "uninstalled"}
MaintainPlaces == {"off", "lock", "idle", "work", "reboot"}

\* Each process does its own work, and beyond the lock it is alone.
Exclusive ==
  /\ pc["install"] \in InstallPlaces
  /\ pc["uninstall"] \in UninstallPlaces
  /\ pc["maintain"] \in MaintainPlaces
  /\ \A p \in Processes : pc[p] \notin {"off", "lock"} => holder = p

\* A cycle has a directory for its state, and one that may reboot keeps its
\* resume service; no installer goes on beside a pending one.
Pending ==
  /\ cycle # "none" => "state" \in dirs /\ cycles > 0
  /\ pc["maintain"] \in {"work", "reboot"} => cycle # "none"
  /\ PendingKeepsRecovery
  /\ pc["install"] \notin {"off", "lock", "idle"} => cycle \in {"none", "terminal"}
  /\ pc["uninstall"] \notin {"off", "lock", "idle"} => cycle \in {"none", "terminal"}

\* Nothing dangles, and the service is started by its timer only.
Enabling == NothingDangles /\ Service \notin enabled

\* The places of install() in order, and what is done from each on.
AtVerify == {"verify", "enable", "enable.timer", "installed"}
AtTimer == {"timer", "timer.unlink"} \cup AtVerify
AtService == {"service", "resume"} \cup AtTimer

Installing ==
  /\ pc["install"] \in {"dirs"} \cup AtService => configFile # "absent"
  /\ pc["install"] \in AtService => dirs = {"state", "history"}
  /\ pc["install"] \in {"resume"} \cup AtTimer => Exists(Service)
  /\ pc["install"] \in AtTimer => Exists(Resume)
  /\ pc["install"] = "timer.unlink" => seen = "manual" /\ Timer \notin enabled /\ ~active
  /\ pc["install"] \in AtVerify =>
       IF seen = "manual" THEN ~Exists(Timer) /\ Timer \notin enabled ELSE units[Timer] = seen
  /\ pc["install"] = "enable.timer" => seen # "manual"
  /\ pc["install"] \in {"enable.timer", "installed"} => Resume \in enabled
  /\ pc["install"] = "installed" /\ seen # "manual" => Timer \in enabled /\ active

\* The places of uninstall() in order, and what is gone from each on.
AtReload == {"reload", "purge.config", "purge.state", "uninstalled"}
AtUnlink == {"unlink"} \cup AtReload

Uninstalling ==
  /\ pc["uninstall"] \in {"disable.resume"} \cup AtUnlink => Timer \notin enabled /\ ~active
  /\ pc["uninstall"] \in AtUnlink => enabled = {}
  /\ pc["uninstall"] \in AtReload => \A u \in Units : ~Exists(u)
  /\ pc["uninstall"] \in {"purge.config", "purge.state"} => purge
  /\ pc["uninstall"] = "uninstalled" /\ purge => dirs = {}

IInv == TypeOK /\ Exclusive /\ Pending /\ Enabling /\ Installing /\ Uninstalling

-----------------------------------------------------------------------------
(* Moving on, and ending.                                                   *)

LEMMA GotoEffect ==
  ASSUME TypeOK, NEW p \in Processes, NEW place \in Places, Goto(p, place)
  PROVE  /\ pc' \in [Processes -> Places] /\ holder' = holder
         /\ pc'[p] = place /\ \A q \in Processes \ {p} : pc'[q] = pc[q]
BY DEF Goto, TypeOK

LEMMA EndEffect ==
  ASSUME TypeOK, NEW p \in Processes, End(p)
  PROVE  /\ pc' \in [Processes -> Places] /\ holder' \in Processes \cup {"nobody"}
         /\ pc'[p] = "off" /\ \A q \in Processes \ {p} : pc'[q] = pc[q]
         /\ holder' = IF holder = p THEN "nobody" ELSE holder
BY DEF End, TypeOK, Places

\* A process beyond the lock is alone there.
LEMMA Alone ==
  ASSUME Exclusive, NEW p \in Processes, pc[p] \notin {"off", "lock"}
  PROVE  holder = p /\ \A q \in Processes \ {p} : pc[q] \in {"off", "lock"}
BY DEF Exclusive, Processes

\* Ending leaves nothing half said: a failed call, a refused lock, a kill.
LEMMA EndingKeeps ==
  ASSUME IInv, NEW p \in Processes, End(p),
         UNCHANGED <<configFile, hostVars, dirs, records, reports, cycle, cycles, inputs>>,
         temp' \in BOOLEAN, queued' \in BOOLEAN
  PROVE  IInv'
<1>1. TypeOK /\ Exclusive /\ Pending /\ Enabling /\ Installing /\ Uninstalling
  BY DEF IInv
<1>2. /\ pc' \in [Processes -> Places] /\ holder' \in Processes \cup {"nobody"}
      /\ pc'[p] = "off" /\ \A q \in Processes \ {p} : pc'[q] = pc[q]
      /\ holder' = IF holder = p THEN "nobody" ELSE holder
  BY <1>1, EndEffect
<1>3. TypeOK'
  BY <1>1, <1>2 DEF TypeOK, hostVars, inputs
<1>4. Exclusive'
  BY <1>1, <1>2 DEF Exclusive, Processes, InstallPlaces, UninstallPlaces, MaintainPlaces
<1>5. \A q \in Processes : pc'[q] \in {pc[q], "off"}
  BY <1>2
<1>6. Pending' /\ Enabling'
  BY <1>1, <1>5 DEF Pending, PendingKeepsRecovery, Enabling, NothingDangles, Exists, hostVars, Processes
<1>7. Installing'
  BY <1>1, <1>5 DEF Installing, Exists, hostVars, inputs, Processes, AtVerify, AtTimer, AtService
<1>8. Uninstalling'
  BY <1>1, <1>5 DEF Uninstalling, Exists, hostVars, inputs, Processes, AtReload, AtUnlink
<1> QED BY <1>3, <1>4, <1>6, <1>7, <1>8 DEF IInv

-----------------------------------------------------------------------------
(* Starting, and the lock.                                                  *)

LEMMA StartKeeps ==
  ASSUME IInv, NEW p \in Processes, pc[p] = "off", Goto(p, "lock"),
         UNCHANGED <<configFile, hostVars, files, cycleVars, schedule>>,
         p = "install" \/ seen' = seen, seen' \in Schedules,
         p = "uninstall" \/ purge' = purge, purge' \in BOOLEAN
  PROVE  IInv'
<1>1. TypeOK /\ Exclusive /\ Pending /\ Enabling /\ Installing /\ Uninstalling
  BY DEF IInv
<1>2. /\ pc' \in [Processes -> Places] /\ holder' = holder
      /\ pc'[p] = "lock" /\ \A q \in Processes \ {p} : pc'[q] = pc[q]
  BY <1>1, GotoEffect DEF Places
<1>3. TypeOK'
  BY <1>1, <1>2 DEF TypeOK, hostVars, files, cycleVars
<1>4. Exclusive'
  BY <1>1, <1>2 DEF Exclusive, Processes, InstallPlaces, UninstallPlaces, MaintainPlaces
<1>5. Pending' /\ Enabling'
  BY <1>1, <1>2 DEF Pending, PendingKeepsRecovery, Enabling, NothingDangles, Exists, hostVars,
     files, cycleVars, Processes
<1>6. Installing'
  BY <1>1, <1>2 DEF Installing, Exists, hostVars, files, Processes, AtVerify, AtTimer, AtService
<1>7. Uninstalling'
  BY <1>1, <1>2 DEF Uninstalling, Exists, hostVars, files, Processes, AtReload, AtUnlink
<1> QED BY <1>3, <1>4, <1>5, <1>6, <1>7 DEF IInv

LEMMA StartsKeep ==
  ASSUME IInv, StartInstall \/ StartUninstall \/ StartMaintain
  PROVE  IInv'
<1>1. TypeOK /\ {"install", "uninstall", "maintain"} = Processes
  BY DEF IInv, Processes
<1>2. CASE StartInstall
  BY <1>1, <1>2, StartKeeps, InstallerAssumption DEF StartInstall, TypeOK
<1>3. CASE StartUninstall
  BY <1>1, <1>3, StartKeeps DEF StartUninstall, TypeOK
<1>4. CASE StartMaintain
  BY <1>1, <1>4, StartKeeps DEF StartMaintain, TypeOK, inputs
<1> QED BY <1>2, <1>3, <1>4

\* A step of the one process that is beyond the lock, which stays there: what
\* it leaves alone holds for the others, who wait.
LEMMA AloneKeeps ==
  ASSUME IInv, NEW p \in Processes, NEW place \in Places, Goto(p, place),
         pc[p] \notin {"off", "lock"},
         place \in (CASE p = "install" -> InstallPlaces
                      [] p = "uninstall" -> UninstallPlaces
                      [] p = "maintain" -> MaintainPlaces)
  PROVE  /\ Exclusive'
         /\ pc' \in [Processes -> Places] /\ holder' \in Processes \cup {"nobody"}
         /\ pc'[p] = place
         /\ \A q \in Processes \ {p} : pc'[q] \in {"off", "lock"}
<1>1. TypeOK /\ Exclusive
  BY DEF IInv
<1>2. /\ pc' \in [Processes -> Places] /\ holder' = holder
      /\ pc'[p] = place /\ \A q \in Processes \ {p} : pc'[q] = pc[q]
  BY <1>1, GotoEffect
<1>3. holder = p /\ \A q \in Processes \ {p} : pc[q] \in {"off", "lock"}
  BY <1>1, Alone
<1>4. Exclusive'
  BY <1>1, <1>2, <1>3 DEF Exclusive, Processes, InstallPlaces, UninstallPlaces, MaintainPlaces
<1>5. holder' \in Processes \cup {"nobody"}
  BY <1>1, <1>2 DEF TypeOK
<1> QED BY <1>2, <1>3, <1>4, <1>5

LEMMA AcquireKeeps ==
  ASSUME IInv, NEW p \in Processes, Acquire(p)
  PROVE  IInv'
<1>1. TypeOK /\ Exclusive /\ Pending /\ Enabling /\ Installing /\ Uninstalling
  BY DEF IInv
<1>2. CASE holder = "nobody"
  <2>1. /\ holder' = p /\ pc' = [pc EXCEPT ![p] = "idle"]
        /\ UNCHANGED <<configFile, hostVars, files, cycleVars, inputs>>
    BY <1>2 DEF Acquire
  <2>2. /\ pc' \in [Processes -> Places]
        /\ pc'[p] = "idle" /\ \A q \in Processes \ {p} : pc'[q] = pc[q]
    BY <1>1, <2>1 DEF TypeOK, Places
  <2>3. \A q \in Processes : pc[q] \in {"off", "lock"}
    BY <1>1, <1>2 DEF Exclusive, Processes
  <2>4. TypeOK'
    BY <1>1, <2>1, <2>2 DEF TypeOK, hostVars, files, cycleVars, inputs
  <2>5. Exclusive'
    BY <2>1, <2>2, <2>3 DEF Exclusive, Processes, InstallPlaces, UninstallPlaces, MaintainPlaces
  <2>6. \A q \in Processes : pc'[q] \in {"off", "lock", "idle"}
    BY <2>2, <2>3
  <2>7. Pending' /\ Enabling'
    BY <1>1, <2>1, <2>6 DEF Pending, PendingKeepsRecovery, Enabling, NothingDangles, Exists,
       hostVars, files, cycleVars, Processes
  <2>8. Installing' /\ Uninstalling'
    BY <2>6 DEF Installing, Uninstalling, Processes, AtVerify, AtTimer, AtService, AtReload, AtUnlink
  <2> QED BY <2>4, <2>5, <2>7, <2>8 DEF IInv
<1>3. CASE End(p) /\ UNCHANGED <<configFile, hostVars, files, cycleVars, inputs>>
  <2>1. temp' \in BOOLEAN /\ queued' \in BOOLEAN
    BY <1>1, <1>3 DEF TypeOK, files, cycleVars
  <2> QED BY <1>3, <2>1, EndingKeeps DEF files, cycleVars
<1> QED BY <1>2, <1>3 DEF Acquire

LEMMA RequireIdleKeeps ==
  ASSUME IInv, NEW p \in {"install", "uninstall"}, RequireIdle(p, "check")
  PROVE  IInv'
<1>1. TypeOK /\ Exclusive /\ Pending /\ Enabling /\ Installing /\ Uninstalling
  BY DEF IInv
<1>2. CASE cycle \in {"none", "terminal"}
  <2>1. /\ Goto(p, "check") /\ pc[p] = "idle" /\ p \in Processes
        /\ UNCHANGED <<configFile, hostVars, files, cycleVars, inputs>>
    BY <1>2 DEF RequireIdle, Processes
  <2>2. /\ Exclusive'
        /\ pc' \in [Processes -> Places] /\ holder' \in Processes \cup {"nobody"}
        /\ pc'[p] = "check"
        /\ \A q \in Processes \ {p} : pc'[q] \in {"off", "lock"}
    BY <2>1, AloneKeeps DEF Places, InstallPlaces, UninstallPlaces
  <2>3. TypeOK'
    BY <1>1, <2>1, <2>2 DEF TypeOK, hostVars, files, cycleVars, inputs
  <2>4. \A q \in Processes : pc'[q] \in {"off", "lock", "check"}
    BY <2>2
  <2>5. pc'["maintain"] \in {"off", "lock"}
    BY <2>2 DEF Processes
  <2>6. Pending' /\ Enabling'
    BY <1>1, <1>2, <2>1, <2>5 DEF Pending, PendingKeepsRecovery, Enabling, NothingDangles, Exists,
       hostVars, files, cycleVars
  <2>7. Installing' /\ Uninstalling'
    BY <2>4 DEF Installing, Uninstalling, Processes, AtVerify, AtTimer, AtService, AtReload, AtUnlink
  <2> QED BY <2>2, <2>3, <2>6, <2>7 DEF IInv
<1>3. CASE End(p) /\ UNCHANGED <<configFile, hostVars, files, cycleVars, inputs>>
  <2>1. temp' \in BOOLEAN /\ queued' \in BOOLEAN
    BY <1>1, <1>3 DEF TypeOK, files, cycleVars
  <2> QED BY <1>3, <2>1, EndingKeeps DEF files, cycleVars, Processes
<1> QED BY <1>2, <1>3 DEF RequireIdle

\* A systemctl call that fails ends its command, whatever half it has done.
LEMMA StoppingKeeps ==
  ASSUME IInv, NEW p \in {"install", "uninstall"}, End(p), pc[p] \notin {"off", "lock", "idle"},
         UNCHANGED <<configFile, units, files, cycleVars, inputs>>,
         enabled' \subseteq Units, active' \in BOOLEAN, Enabling'
  PROVE  IInv'
<1>1. TypeOK /\ Exclusive /\ Pending /\ p \in Processes
  BY DEF IInv, Processes
<1>2. /\ pc' \in [Processes -> Places] /\ holder' \in Processes \cup {"nobody"}
      /\ pc'[p] = "off" /\ \A q \in Processes \ {p} : pc'[q] = pc[q]
  BY <1>1, EndEffect
<1>3. \A q \in Processes : pc'[q] \in {"off", "lock"}
  BY <1>1, <1>2, Alone
<1>4. TypeOK'
  BY <1>1, <1>2 DEF TypeOK, files, cycleVars, inputs
<1>5. Exclusive'
  BY <1>3 DEF Exclusive, Processes, InstallPlaces, UninstallPlaces, MaintainPlaces
<1>6. cycle \in {"none", "terminal"}
  BY <1>1 DEF Pending
<1>7. Pending'
  BY <1>1, <1>3, <1>6 DEF Pending, PendingKeepsRecovery, files, cycleVars, Processes
<1>8. Installing' /\ Uninstalling'
  BY <1>3 DEF Installing, Uninstalling, Processes, AtVerify, AtTimer, AtService, AtReload, AtUnlink
<1> QED BY <1>4, <1>5, <1>7, <1>8 DEF IInv

-----------------------------------------------------------------------------
(* install()                                                                *)

\* A step of install() concerns what its next place says, and what is enabled.
LEMMA InstallStepKeeps ==
  ASSUME IInv, pc["install"] \notin {"off", "lock", "idle"},
         NEW place \in InstallPlaces, Goto("install", place),
         UNCHANGED <<records, reports, temp, cycleVars, seen, purge>>,
         schedule' \in Schedules, configFile' \in {"absent", "default", "admin"},
         units' \in [Units -> UnitContent], enabled' \subseteq Units, active' \in BOOLEAN,
         dirs' \in {{"state"}, {"state", "history"}} \/ dirs' = dirs,
         Enabling', Installing'
  PROVE  IInv'
<1>1. TypeOK /\ Exclusive /\ Pending /\ "install" \in Processes
  BY DEF IInv, Processes
<1>2. /\ Exclusive'
      /\ pc' \in [Processes -> Places] /\ holder' \in Processes \cup {"nobody"}
      /\ pc'["install"] = place
      /\ \A q \in Processes \ {"install"} : pc'[q] \in {"off", "lock"}
  BY <1>1, AloneKeeps DEF Places, InstallPlaces
<1>3. TypeOK'
  BY <1>1, <1>2 DEF TypeOK, cycleVars
<1>4. pc'["maintain"] \in {"off", "lock"} /\ pc'["uninstall"] \in {"off", "lock"}
  BY <1>2 DEF Processes
<1>5. Pending'
  BY <1>1, <1>4 DEF Pending, PendingKeepsRecovery, cycleVars
<1>6. Uninstalling'
  BY <1>4 DEF Uninstalling, AtReload, AtUnlink
<1> QED BY <1>2, <1>3, <1>5, <1>6 DEF IInv

\* The places of install() are apart.
LEMMA InstallMove ==
  ASSUME IInv, NEW place \in InstallPlaces, Goto("install", place)
  PROVE  pc'["install"] = place
BY GotoEffect DEF Places, InstallPlaces, IInv, Processes

\* A checked call either goes on or stops, and changes nothing.
LEMMA CheckedKeeps ==
  ASSUME IInv, CheckSystemd \/ VerifyUnits \/ Installed
  PROVE  IInv'
<1>1. TypeOK /\ Exclusive /\ Enabling /\ Installing /\ "install" \in Processes
  BY DEF IInv, Processes
<1>2. UNCHANGED <<configFile, hostVars, files, cycleVars, inputs>>
  BY DEF CheckSystemd, VerifyUnits, Installed
<1>3. temp' \in BOOLEAN /\ queued' \in BOOLEAN
  BY <1>1, <1>2 DEF TypeOK, files, cycleVars
<1>4. CASE End("install")
  BY <1>1, <1>2, <1>3, <1>4, EndingKeeps DEF files, cycleVars
<1>5. CASE \/ pc["install"] = "check" /\ Goto("install", "config")
           \/ pc["install"] = "verify" /\ Goto("install", "enable")
  <2>1. PICK place \in {"config", "enable"} :
          /\ Goto("install", place)
          /\ place = "config" => pc["install"] = "check"
          /\ place = "enable" => pc["install"] = "verify"
    BY <1>5
  <2>2. place \in InstallPlaces /\ pc'["install"] = place
    BY <2>1, InstallMove DEF InstallPlaces
  <2>3. Enabling'
    BY <1>1, <1>2 DEF Enabling, NothingDangles, Exists, hostVars
  <2>4. Installing'
    BY <1>1, <1>2, <2>1, <2>2 DEF Installing, Exists, hostVars, files, inputs, AtVerify, AtTimer,
       AtService
  <2>5. pc["install"] \in {"check", "verify"}
    BY <2>1
  <2> QED BY <1>1, <1>2, <2>1, <2>2, <2>3, <2>4, <2>5, InstallStepKeeps
          DEF TypeOK, hostVars, files, inputs
<1> QED BY <1>4, <1>5 DEF CheckSystemd, VerifyUnits, Installed, Checked

LEMMA WriteConfigKeeps ==
  ASSUME IInv, WriteConfig
  PROVE  IInv'
<1>1. TypeOK /\ Enabling
  BY DEF IInv
<1>2. /\ pc["install"] = "config" /\ Goto("install", "dirs")
      /\ UNCHANGED <<hostVars, files, cycleVars, seen, purge>>
      /\ configFile' \in {"default", "admin"} /\ schedule' \in Schedules
  BY <1>1, InstallerAssumption DEF WriteConfig, TypeOK
<1>3. pc'["install"] = "dirs" /\ "dirs" \in InstallPlaces
  BY <1>2, InstallMove DEF InstallPlaces
<1>4. Enabling'
  BY <1>1, <1>2 DEF Enabling, NothingDangles, Exists, hostVars
<1>5. Installing'
  BY <1>2, <1>3 DEF Installing, AtVerify, AtTimer, AtService
<1> QED BY <1>1, <1>2, <1>3, <1>4, <1>5, InstallStepKeeps DEF TypeOK, hostVars, files

LEMMA WriteStateDirsKeeps ==
  ASSUME IInv, WriteStateDirs
  PROVE  IInv'
<1>1. TypeOK /\ Enabling /\ Installing
  BY DEF IInv
<1>2. /\ pc["install"] = "dirs"
      /\ UNCHANGED <<configFile, hostVars, records, reports, temp, cycleVars, inputs>>
      /\ \/ dirs' = {"state", "history"} /\ Goto("install", "service")
         \/ dirs' = {"state"} /\ Goto("install", "dirs")
  BY <1>1 DEF WriteStateDirs, TypeOK
<1>3. PICK place \in {"service", "dirs"} :
        Goto("install", place) /\ (place = "service" => dirs' = {"state", "history"})
  BY <1>2
<1>4. pc'["install"] = place /\ place \in InstallPlaces
  BY <1>3, InstallMove DEF InstallPlaces
<1>5. Enabling'
  BY <1>1, <1>2 DEF Enabling, NothingDangles, Exists, hostVars
<1>6. Installing'
  BY <1>1, <1>2, <1>3, <1>4 DEF Installing, AtVerify, AtTimer, AtService
<1> QED BY <1>1, <1>2, <1>3, <1>4, <1>5, <1>6, InstallStepKeeps DEF TypeOK, hostVars, inputs

LEMMA WriteUnitKeeps ==
  ASSUME IInv, WriteUnit(Service, "service", "resume") \/ WriteUnit(Resume, "resume", "timer")
  PROVE  IInv'
<1>1. TypeOK /\ Enabling /\ Installing
  BY DEF IInv
<1>2. PICK u \in {Service, Resume} :
        /\ u = Service => pc["install"] = "service" /\ Goto("install", "resume")
        /\ u = Resume => pc["install"] = "resume" /\ Goto("install", "timer")
        /\ units' = [units EXCEPT ![u] = "present"]
        /\ UNCHANGED <<configFile, enabled, active, files, cycleVars, inputs>>
  BY DEF WriteUnit, Service, Resume
<1>3. Service \in Units /\ Resume \in Units /\ Service # Resume /\ Timer \notin {Service, Resume}
  BY DEF Units, Service, Resume, Timer
<1>4. /\ units' \in [Units -> UnitContent] /\ units'[u] = "present"
      /\ \A v \in Units \ {u} : units'[v] = units[v]
  BY <1>1, <1>2, <1>3 DEF TypeOK, UnitContent
<1>5. PICK place \in {"resume", "timer"} :
        Goto("install", place) /\ (place = "resume" => u = Service) /\ (place = "timer" => u = Resume)
  BY <1>2
<1>6. pc'["install"] = place /\ place \in InstallPlaces
  BY <1>5, InstallMove DEF InstallPlaces
<1>7. \A v \in Units : Exists(v) => Exists(v)'
  BY <1>4 DEF Exists
<1>8. Enabling'
  <2>1. configFile # "absent"
    BY <1>1, <1>2 DEF Installing, AtService
  <2> QED BY <1>1, <1>2, <1>3, <1>7, <2>1 DEF Enabling, NothingDangles, TypeOK, Units, Timer
<1>9. Installing'
  <2>1. Exists(u)'
    BY <1>4 DEF Exists
  <2>2. place = "timer" => Exists(Service)
    BY <1>1, <1>2, <1>3, <1>5 DEF Installing
  <2>3. pc["install"] \in {"service", "resume"}
    BY <1>2
  <2> QED BY <1>1, <1>2, <1>3, <1>5, <1>6, <1>7, <2>1, <2>2, <2>3
          DEF Installing, AtVerify, AtTimer, AtService, files
<1>10. pc["install"] \in {"service", "resume"}
  BY <1>2
<1> QED BY <1>1, <1>2, <1>4, <1>5, <1>6, <1>8, <1>9, <1>10, InstallStepKeeps DEF TypeOK, files, inputs

\* A unit that is disabled is neither enabled nor started, one that could not be
\* may be half so.
LEMMA DisabledEffect ==
  ASSUME TypeOK, Enabling, NEW unit \in Units, NEW ok \in BOOLEAN, Disabled(unit, ok),
         UNCHANGED <<configFile, units>>
  PROVE  /\ enabled' \subseteq enabled /\ enabled' \subseteq Units /\ active' \in BOOLEAN
         /\ active' => active
         /\ ok => enabled' = enabled \ {unit}
         /\ ok /\ unit = Timer => ~active'
         /\ Enabling'
<1>1. enabled' \subseteq enabled /\ (ok => enabled' = enabled \ {unit})
  BY DEF Disabled
<1>2. active' \in BOOLEAN /\ (active' => active) /\ (ok /\ unit = Timer => ~active')
  BY DEF Disabled
<1>3. Enabling'
  BY <1>1, <1>2 DEF Enabling, NothingDangles, Exists
<1> QED BY <1>1, <1>2, <1>3 DEF TypeOK

LEMMA EnabledEffect ==
  ASSUME TypeOK, Enabling, NEW unit \in {Timer, Resume}, NEW ok \in BOOLEAN, Enabled(unit, ok),
         Exists(unit), UNCHANGED <<configFile, units>>
  PROVE  /\ enabled \subseteq enabled' /\ enabled' \subseteq Units /\ active' \in BOOLEAN
         /\ active => active'
         /\ ok => unit \in enabled'
         /\ ok /\ unit = Timer => active'
         /\ Enabling'
<1>1. unit \in Units /\ unit # Service
  BY DEF Units, Timer, Resume, Service
<1>2. /\ enabled \subseteq enabled' /\ enabled' \subseteq enabled \cup {unit}
      /\ ok => unit \in enabled'
  BY DEF Enabled
<1>3. /\ active' \in BOOLEAN /\ (active => active') /\ (ok /\ unit = Timer => active')
      /\ active' => active \/ unit = Timer
  BY DEF Enabled
<1>4. Enabling'
  BY <1>1, <1>2, <1>3 DEF Enabling, NothingDangles, Exists
<1> QED BY <1>1, <1>2, <1>3, <1>4 DEF TypeOK

\* The timer is written for a schedule, and goes with a manual one once it is
\* disabled.
LEMMA WriteTimerKeeps ==
  ASSUME IInv, WriteTimer
  PROVE  IInv'
<1>1. TypeOK /\ Enabling /\ Installing /\ Timer \in Units /\ Service \in Units /\ Resume \in Units
  BY DEF IInv, Units
<1>2. UNCHANGED <<configFile, files, cycleVars, inputs>>
  BY DEF WriteTimer
<1>3. ASSUME NEW ok \in BOOLEAN, seen = "manual", Checked("install", "timer", "timer.unlink", ok),
             Disabled(Timer, ok), UNCHANGED <<configFile, units>>
      PROVE  IInv'
  <2>1. /\ enabled' \subseteq Units /\ active' \in BOOLEAN /\ Enabling'
        /\ ok => Timer \notin enabled' /\ ~active'
    BY <1>1, <1>3, DisabledEffect
  <2>2. pc["install"] = "timer"
    BY <1>3 DEF Checked
  <2>3. CASE ok
    <3>1. Goto("install", "timer.unlink") /\ "timer.unlink" \in InstallPlaces
      BY <1>3, <2>3 DEF Checked, InstallPlaces
    <3>2. pc'["install"] = "timer.unlink"
      BY <3>1, InstallMove
    <3>3. Installing'
      BY <1>1, <1>2, <1>3, <2>1, <2>2, <2>3, <3>2
         DEF Installing, Exists, files, inputs, AtVerify, AtTimer, AtService
    <3> QED BY <1>1, <1>2, <1>3, <2>1, <2>2, <3>1, <3>3, InstallStepKeeps DEF TypeOK, files, inputs
  <2>4. CASE ~ok
    <3>1. End("install")
      BY <1>3, <2>4 DEF Checked
    <3> QED BY <1>2, <1>3, <2>1, <2>2, <3>1, StoppingKeeps
  <2> QED BY <2>3, <2>4
<1>4. CASE /\ ~(seen = "manual" /\ Exists(Timer)) /\ pc["install"] = "timer"
           /\ Goto("install", "verify")
           /\ units' = [units EXCEPT ![Timer] = IF seen = "manual" THEN @ ELSE seen]
           /\ UNCHANGED <<enabled, active>>
  <2>1. pc'["install"] = "verify" /\ "verify" \in InstallPlaces
    BY <1>4, InstallMove DEF InstallPlaces
  <2>2. seen \in UnitContent /\ seen # "absent"
    BY <1>1, InstallerAssumption DEF TypeOK, UnitContent
  <2>3. /\ units' \in [Units -> UnitContent]
        /\ units'[Timer] = IF seen = "manual" THEN units[Timer] ELSE seen
        /\ \A u \in Units \ {Timer} : units'[u] = units[u]
    BY <1>1, <1>4, <2>2 DEF TypeOK
  <2>4. \A u \in Units : Exists(u) => Exists(u)'
    BY <2>2, <2>3 DEF Exists
  <2>5. Enabling'
    <3>1. configFile' # "absent"
      BY <1>1, <1>2, <1>4 DEF Installing, AtService, AtTimer
    <3> QED BY <1>1, <1>4, <2>4, <3>1 DEF Enabling, NothingDangles, TypeOK
  <2>6. seen = "manual" => ~Exists(Timer)' /\ Timer \notin enabled
    BY <1>1, <1>4, <2>3 DEF Enabling, NothingDangles, Exists
  <2>7. Installing'
    BY <1>1, <1>2, <1>4, <2>1, <2>3, <2>4, <2>6
       DEF Installing, files, inputs, AtVerify, AtTimer, AtService
  <2> QED BY <1>1, <1>2, <1>4, <2>1, <2>3, <2>5, <2>7, InstallStepKeeps DEF TypeOK, files, inputs
<1>5. CASE seen = "manual" /\ Exists(Timer)
  BY <1>2, <1>3, <1>5 DEF WriteTimer
<1>6. CASE ~(seen = "manual" /\ Exists(Timer))
  BY <1>4, <1>6 DEF WriteTimer
<1> QED BY <1>5, <1>6

LEMMA UnlinkTimerKeeps ==
  ASSUME IInv, UnlinkTimer
  PROVE  IInv'
<1>1. TypeOK /\ Enabling /\ Installing /\ Timer \in Units /\ Service # Timer /\ Resume # Timer
  BY DEF IInv, Units, Service, Timer, Resume
<1>2. /\ pc["install"] = "timer.unlink" /\ Goto("install", "verify")
      /\ units' = [units EXCEPT ![Timer] = "absent"]
      /\ UNCHANGED <<configFile, enabled, active, files, cycleVars, inputs>>
  BY DEF UnlinkTimer
<1>3. pc'["install"] = "verify" /\ "verify" \in InstallPlaces
  BY <1>2, InstallMove DEF InstallPlaces
<1>4. /\ units' \in [Units -> UnitContent] /\ units'[Timer] = "absent"
      /\ \A u \in Units \ {Timer} : units'[u] = units[u]
  BY <1>1, <1>2 DEF TypeOK, UnitContent
<1>5. Timer \notin enabled /\ ~active /\ seen = "manual"
  BY <1>1, <1>2 DEF Installing
<1>6. Enabling'
  BY <1>1, <1>2, <1>4, <1>5 DEF Enabling, NothingDangles, Exists, TypeOK
<1>7. Installing'
  BY <1>1, <1>2, <1>3, <1>4, <1>5
     DEF Installing, Exists, Units, files, inputs, AtVerify, AtTimer, AtService
<1> QED BY <1>1, <1>2, <1>3, <1>4, <1>6, <1>7, InstallStepKeeps DEF TypeOK, files, inputs

\* The boot-resume service, then the timer of a schedule that has one.
LEMMA EnableKeeps ==
  ASSUME IInv, EnableResume \/ EnableTimer
  PROVE  IInv'
<1>1. TypeOK /\ Enabling /\ Installing
  BY DEF IInv
<1>2. PICK ok \in BOOLEAN, unit \in {Timer, Resume},
           next \in {"enable.timer", "installed"}, at \in {"enable", "enable.timer"} :
        /\ Checked("install", at, next, ok) /\ Enabled(unit, ok)
        /\ unit = Resume => /\ at = "enable"
                            /\ next = IF seen = "manual" THEN "installed" ELSE "enable.timer"
        /\ unit = Timer => at = "enable.timer" /\ next = "installed"
        /\ UNCHANGED <<configFile, units, files, cycleVars, inputs>>
  BY DEF EnableResume, EnableTimer, Timer, Resume
<1>3. pc["install"] = at /\ Timer # Resume
  BY <1>2 DEF Checked, Timer, Resume
<1>4. Exists(unit)
  <2>1. CASE unit = Resume
    BY <1>1, <1>2, <1>3, <2>1 DEF Installing, AtTimer, AtVerify
  <2>2. CASE unit = Timer
    <3>1. units[Timer] = seen /\ seen # "absent"
      BY <1>1, <1>2, <1>3, <2>2, InstallerAssumption DEF Installing, AtVerify, TypeOK
    <3> QED BY <2>2, <3>1 DEF Exists
  <2> QED BY <2>1, <2>2
<1>5. /\ enabled \subseteq enabled' /\ enabled' \subseteq Units /\ active' \in BOOLEAN
      /\ active => active'
      /\ ok => unit \in enabled'
      /\ ok /\ unit = Timer => active'
      /\ Enabling'
  BY <1>1, <1>2, <1>4, EnabledEffect
<1>6. CASE ok
  <2>1. Goto("install", next) /\ next \in InstallPlaces
    BY <1>2, <1>6 DEF Checked, InstallPlaces
  <2>2. pc'["install"] = next
    BY <2>1, InstallMove
  <2>3. /\ Exists(Service) /\ Exists(Resume) /\ configFile # "absent" /\ dirs = {"state", "history"}
        /\ seen # "manual" => units[Timer] = seen
    BY <1>1, <1>3 DEF Installing, AtVerify, AtTimer, AtService
  <2>4. seen = "manual" => ~Exists(Timer) /\ Timer \notin enabled /\ unit = Resume /\ next = "installed"
    BY <1>1, <1>2, <1>3 DEF Installing, AtVerify
  <2>5. seen = "manual" => Timer \notin enabled'
    BY <1>2, <1>3, <2>4 DEF Enabled
  <2>6. Resume \in enabled'
    BY <1>1, <1>2, <1>3, <1>5, <1>6 DEF Installing
  <2>7. next = "installed" /\ seen # "manual" => unit = Timer
    BY <1>2
  <2>8. Installing'
    BY <1>2, <1>5, <1>6, <2>2, <2>3, <2>4, <2>5, <2>6, <2>7
       DEF Installing, Exists, files, inputs, AtVerify, AtTimer, AtService
  <2> QED BY <1>1, <1>2, <1>3, <1>5, <2>1, <2>8, InstallStepKeeps DEF TypeOK, files, inputs
<1>7. CASE ~ok
  <2>1. End("install")
    BY <1>2, <1>7 DEF Checked
  <2> QED BY <1>2, <1>3, <1>5, <2>1, StoppingKeeps
<1> QED BY <1>6, <1>7

LEMMA InstallKeeps ==
  ASSUME IInv, Install
  PROVE  IInv'
BY StartsKeep, AcquireKeeps, RequireIdleKeeps, CheckedKeeps, WriteConfigKeeps, WriteStateDirsKeeps,
   WriteUnitKeeps, WriteTimerKeeps, UnlinkTimerKeeps, EnableKeeps DEF Install, Processes

-----------------------------------------------------------------------------
(* uninstall()                                                              *)

\* A step of uninstall() concerns what its next place says, what is enabled,
\* and what is left of the state.
LEMMA UninstallStepKeeps ==
  ASSUME IInv, pc["uninstall"] \notin {"off", "lock", "idle"},
         NEW place \in UninstallPlaces, Goto("uninstall", place),
         UNCHANGED <<queued, cycles, inputs>>,
         configFile' \in {configFile, "absent"},
         units' \in [Units -> UnitContent], enabled' \subseteq Units, active' \in BOOLEAN,
         dirs' \in {{}, {"state"}, dirs}, records' \subseteq records, reports' \subseteq reports,
         temp' \in BOOLEAN, cycle' \in {cycle, "none"},
         cycle' # "none" => "state" \in dirs',
         Enabling', Uninstalling'
  PROVE  IInv'
<1>1. TypeOK /\ Exclusive /\ Pending /\ "uninstall" \in Processes
  BY DEF IInv, Processes
<1>2. /\ Exclusive'
      /\ pc' \in [Processes -> Places] /\ holder' \in Processes \cup {"nobody"}
      /\ pc'["uninstall"] = place
      /\ \A q \in Processes \ {"uninstall"} : pc'[q] \in {"off", "lock"}
  BY <1>1, AloneKeeps DEF Places, UninstallPlaces
<1>3. TypeOK'
  BY <1>1, <1>2 DEF TypeOK, inputs
<1>4. pc'["maintain"] \in {"off", "lock"} /\ pc'["install"] \in {"off", "lock"}
  BY <1>2 DEF Processes
<1>5. Pending'
  BY <1>1, <1>4 DEF Pending, PendingKeepsRecovery
<1>6. Installing'
  BY <1>4 DEF Installing, AtVerify, AtTimer, AtService
<1> QED BY <1>2, <1>3, <1>5, <1>6 DEF IInv

LEMMA UninstallMove ==
  ASSUME IInv, NEW place \in UninstallPlaces, Goto("uninstall", place)
  PROVE  pc'["uninstall"] = place
BY GotoEffect DEF Places, UninstallPlaces, IInv, Processes

\* A check or a reload that goes on or stops.
LEMMA UninstallChecksKeep ==
  ASSUME IInv, CheckPurge \/ ReloadUninstalled \/ Uninstalled
  PROVE  IInv'
<1>1. TypeOK /\ Exclusive /\ Pending /\ Enabling /\ Uninstalling /\ "uninstall" \in Processes
  BY DEF IInv, Processes
<1>2. UNCHANGED <<configFile, hostVars, files, cycleVars, inputs>>
  BY DEF CheckPurge, ReloadUninstalled, Uninstalled
<1>3. temp' \in BOOLEAN /\ queued' \in BOOLEAN
  BY <1>1, <1>2 DEF TypeOK, files, cycleVars
<1>4. CASE End("uninstall")
  BY <1>1, <1>2, <1>3, <1>4, EndingKeeps DEF files, cycleVars
<1>5. CASE \/ pc["uninstall"] = "check" /\ Goto("uninstall", "disable")
           \/ /\ pc["uninstall"] = "reload"
              /\ Goto("uninstall", IF purge THEN "purge.config" ELSE "uninstalled")
  <2>1. PICK place \in {"disable", "purge.config", "uninstalled"} :
          /\ Goto("uninstall", place)
          /\ place = "disable" => pc["uninstall"] = "check"
          /\ place = "purge.config" => pc["uninstall"] = "reload" /\ purge
          /\ place = "uninstalled" => pc["uninstall"] = "reload" /\ ~purge
    BY <1>5
  <2>2. place \in UninstallPlaces /\ pc'["uninstall"] = place
    BY <2>1, UninstallMove DEF UninstallPlaces
  <2>3. Enabling'
    BY <1>1, <1>2 DEF Enabling, NothingDangles, Exists, hostVars
  <2>4. Uninstalling'
    BY <1>1, <1>2, <2>1, <2>2 DEF Uninstalling, Exists, hostVars, files, inputs, AtReload, AtUnlink
  <2>5. pc["uninstall"] \in {"check", "reload"}
    BY <2>1
  <2> QED BY <1>1, <1>2, <2>1, <2>2, <2>3, <2>4, <2>5, UninstallStepKeeps
          DEF TypeOK, Pending, hostVars, files, cycleVars, inputs
<1> QED BY <1>4, <1>5 DEF CheckPurge, ReloadUninstalled, Uninstalled, Checked

\* A unit without a file is not enabled, so it need not be disabled.
LEMMA DisableKeeps ==
  ASSUME IInv, DisableTimer \/ DisableResume
  PROVE  IInv'
<1>1. TypeOK /\ Pending /\ Enabling /\ Uninstalling /\ Units = {Timer, Service, Resume}
      /\ Timer # Resume /\ Timer # Service /\ Resume # Service
  BY DEF IInv, Units, Timer, Service, Resume
<1>2. PICK unit \in {Timer, Resume}, at \in {"disable", "disable.resume"},
           next \in {"disable.resume", "unlink"} :
        /\ Disable(unit, at, next)
        /\ unit = Timer => at = "disable" /\ next = "disable.resume"
        /\ unit = Resume => at = "disable.resume" /\ next = "unlink"
  BY <1>1 DEF DisableTimer, DisableResume
<1>3. UNCHANGED <<configFile, units, files, cycleVars, inputs>>
  BY <1>2 DEF Disable
<1>4. PICK ok \in BOOLEAN :
        /\ Checked("uninstall", at, next, ok)
        /\ IF Exists(unit) THEN Disabled(unit, ok) ELSE ok /\ UNCHANGED <<enabled, active>>
  BY <1>2 DEF Disable
<1>5. /\ enabled' \subseteq enabled /\ active' \in BOOLEAN /\ (active' => active)
      /\ Enabling' /\ (ok => unit \notin enabled') /\ (ok /\ unit = Timer => ~active')
  <2>1. CASE Exists(unit)
    BY <1>1, <1>3, <1>4, <2>1, DisabledEffect
  <2>2. CASE ~Exists(unit)
    <3>1. unit \notin enabled /\ (unit = Timer => ~active)
      BY <1>1, <2>2 DEF Enabling, NothingDangles
    <3>2. ok /\ enabled' = enabled /\ active' = active
      BY <1>4, <2>2
    <3>3. Enabling'
      BY <1>1, <1>3, <3>2 DEF Enabling, NothingDangles, Exists
    <3>4. active' \in BOOLEAN
      BY <1>1, <3>2 DEF TypeOK
    <3> QED BY <3>1, <3>2, <3>3, <3>4
  <2> QED BY <2>1, <2>2
<1>6. pc["uninstall"] = at
  BY <1>4 DEF Checked
<1>7. CASE ok
  <2>1. Goto("uninstall", next) /\ next \in UninstallPlaces
    BY <1>4, <1>7 DEF Checked, UninstallPlaces
  <2>2. pc'["uninstall"] = next
    BY <2>1, UninstallMove
  <2>3. Timer \notin enabled' /\ ~active'
    BY <1>1, <1>2, <1>5, <1>6, <1>7 DEF Uninstalling
  <2>4. next = "unlink" => enabled' = {}
    BY <1>1, <1>2, <1>5, <1>7, <2>3 DEF Enabling, TypeOK
  <2>5. Uninstalling'
    BY <2>2, <2>3, <2>4 DEF Uninstalling, AtReload, AtUnlink
  <2>6. enabled' \subseteq Units
    BY <1>1, <1>5 DEF TypeOK
  <2> QED BY <1>1, <1>3, <1>5, <1>6, <2>1, <2>5, <2>6, UninstallStepKeeps
          DEF TypeOK, Pending, files, cycleVars
<1>8. CASE ~ok
  <2>1. End("uninstall")
    BY <1>4, <1>8 DEF Checked
  <2>2. enabled' \subseteq Units
    BY <1>1, <1>5 DEF TypeOK
  <2> QED BY <1>3, <1>5, <1>6, <2>1, <2>2, StoppingKeeps
<1> QED BY <1>7, <1>8

\* Units go one after the other, all of them disabled by then.
LEMMA UnlinkUnitsKeeps ==
  ASSUME IInv, UnlinkUnits
  PROVE  IInv'
<1>1. TypeOK /\ Pending /\ Enabling /\ Uninstalling /\ Units = {Timer, Service, Resume}
  BY DEF IInv, Units
<1>2. /\ pc["uninstall"] = "unlink"
      /\ UNCHANGED <<configFile, enabled, active, files, cycleVars, inputs>>
  BY DEF UnlinkUnits
<1>3. enabled = {} /\ ~active
  BY <1>1, <1>2 DEF Uninstalling, AtUnlink
<1>4. PICK place \in {"unlink", "reload"} :
        /\ Goto("uninstall", place)
        /\ units' \in [Units -> UnitContent]
        /\ place = "reload" => \A u \in Units : ~Exists(u)'
        /\ \A u \in Units : Exists(u)' => Exists(u)
  <2>1. CASE \E u \in Units : Exists(u)
    <3>1. PICK u \in Units : units' = [units EXCEPT ![u] = "absent"] /\ Goto("uninstall", "unlink")
      BY <1>1, <2>1 DEF UnlinkUnits
    <3>2. units' \in [Units -> UnitContent]
      BY <1>1, <3>1 DEF TypeOK, UnitContent
    <3>3. \A v \in Units : Exists(v)' => Exists(v)
      BY <1>1, <3>1 DEF TypeOK, Exists
    <3> QED BY <3>1, <3>2, <3>3
  <2>2. CASE ~\E u \in Units : Exists(u)
    BY <1>1, <2>2 DEF UnlinkUnits, TypeOK, Exists
  <2> QED BY <2>1, <2>2
<1>5. pc'["uninstall"] = place /\ place \in UninstallPlaces
  BY <1>4, UninstallMove DEF UninstallPlaces
<1>6. Enabling'
  BY <1>1, <1>2, <1>3, <1>4 DEF Enabling, NothingDangles
<1>7. Uninstalling'
  BY <1>2, <1>3, <1>4, <1>5 DEF Uninstalling, AtReload, AtUnlink
<1> QED BY <1>1, <1>2, <1>4, <1>5, <1>6, <1>7, UninstallStepKeeps DEF TypeOK, Pending, files, cycleVars

LEMMA PurgeConfigKeeps ==
  ASSUME IInv, PurgeConfig
  PROVE  IInv'
<1>1. TypeOK /\ Pending /\ Enabling /\ Uninstalling
  BY DEF IInv
<1>2. /\ pc["uninstall"] = "purge.config" /\ Goto("uninstall", "purge.state")
      /\ configFile' = "absent" /\ UNCHANGED <<hostVars, files, cycleVars, inputs>>
  BY DEF PurgeConfig
<1>3. pc'["uninstall"] = "purge.state" /\ "purge.state" \in UninstallPlaces
  BY <1>2, UninstallMove DEF UninstallPlaces
<1>4. Enabling'
  <2>1. \A u \in Units : ~Exists(u)
    BY <1>1, <1>2 DEF Uninstalling, AtReload
  <2> QED BY <1>1, <1>2, <2>1 DEF Enabling, NothingDangles, Exists, hostVars
<1>5. Uninstalling'
  BY <1>1, <1>2, <1>3 DEF Uninstalling, Exists, hostVars, inputs, AtReload, AtUnlink
<1> QED BY <1>1, <1>2, <1>3, <1>4, <1>5, UninstallStepKeeps
        DEF TypeOK, Pending, hostVars, files, cycleVars

\* The state directory goes last, when nothing is left in it.
LEMMA PurgeStateKeeps ==
  ASSUME IInv, PurgeState
  PROVE  IInv'
<1>1. TypeOK /\ Pending /\ Enabling /\ Uninstalling
  BY DEF IInv
<1>2. /\ pc["uninstall"] = "purge.state"
      /\ UNCHANGED <<configFile, hostVars, queued, cycles, inputs>>
  BY DEF PurgeState
<1>3. enabled = {} /\ ~active /\ purge /\ \A u \in Units : ~Exists(u)
  BY <1>1, <1>2 DEF Uninstalling, AtReload, AtUnlink
<1>4. PICK place \in {"purge.state", "uninstalled"} :
        /\ Goto("uninstall", place)
        /\ place = "uninstalled" => dirs = {} /\ UNCHANGED <<files, cycle>>
        /\ place = "purge.state" => RemoveEntry
  <2>1. CASE dirs = {}
    BY <2>1 DEF PurgeState
  <2>2. CASE dirs # {}
    <3>1. RemoveEntry /\ UNCHANGED <<pc, holder>>
      BY <2>2 DEF PurgeState
    <3>2. pc' = [pc EXCEPT !["uninstall"] = "purge.state"]
      BY <1>1, <1>2, <3>1 DEF TypeOK
    <3> QED BY <3>1, <3>2 DEF Goto
  <2> QED BY <2>1, <2>2
<1>5. pc'["uninstall"] = place /\ place \in UninstallPlaces
  BY <1>4, UninstallMove DEF UninstallPlaces
<1>6. /\ dirs' \in {{}, {"state"}, dirs} /\ records' \subseteq records /\ reports' \subseteq reports
      /\ temp' \in BOOLEAN /\ cycle' \in {cycle, "none"}
      /\ cycle' # "none" => "state" \in dirs'
  <2>1. CASE place = "uninstalled"
    BY <1>1, <1>4, <2>1 DEF TypeOK, Pending, files
  <2>2. CASE place = "purge.state"
    <3>1. RemoveEntry
      BY <1>4, <2>2
    <3> QED BY <1>1, <3>1 DEF RemoveEntry, TypeOK, Pending, files
  <2> QED BY <2>1, <2>2
<1>7. Enabling'
  BY <1>1, <1>2 DEF Enabling, NothingDangles, Exists, hostVars
<1>8. Uninstalling'
  BY <1>2, <1>3, <1>4, <1>5 DEF Uninstalling, Exists, hostVars, inputs, files, AtReload, AtUnlink
<1> QED BY <1>1, <1>2, <1>4, <1>5, <1>6, <1>7, <1>8, UninstallStepKeeps DEF TypeOK, hostVars

LEMMA UninstallKeeps ==
  ASSUME IInv, Uninstall
  PROVE  IInv'
BY StartsKeep, AcquireKeeps, RequireIdleKeeps, UninstallChecksKeep, DisableKeeps,
   UnlinkUnitsKeeps, PurgeConfigKeeps, PurgeStateKeeps DEF Uninstall, Processes

-----------------------------------------------------------------------------
(* A run or resume, and the environment.                                    *)

\* A step of the maintenance process: it has the lock, so no installer is
\* beyond it.
LEMMA MaintainStepKeeps ==
  ASSUME IInv, pc["maintain"] \notin {"off", "lock"},
         NEW place \in MaintainPlaces, Goto("maintain", place),
         UNCHANGED <<configFile, hostVars, temp, queued, inputs>>,
         dirs' \in {{"state"}, {"state", "history"}, dirs},
         records' \subseteq 1 .. MaxCycles, reports' \subseteq 1 .. MaxCycles,
         cycle' \in {"none", "active", "rebooting", "terminal"}, cycles' \in 0 .. MaxCycles,
         place \in {"work", "reboot"} => cycle' # "none",
         cycle' # "none" => "state" \in dirs' /\ cycles' > 0,
         cycle' = "rebooting" => Resume \in enabled /\ Exists(Resume)
  PROVE  IInv'
<1>1. TypeOK /\ Exclusive /\ Pending /\ Enabling /\ "maintain" \in Processes
  BY DEF IInv, Processes
<1>2. /\ Exclusive'
      /\ pc' \in [Processes -> Places] /\ holder' \in Processes \cup {"nobody"}
      /\ pc'["maintain"] = place
      /\ \A q \in Processes \ {"maintain"} : pc'[q] \in {"off", "lock"}
  BY <1>1, AloneKeeps DEF Places, MaintainPlaces
<1>3. TypeOK'
  BY <1>1, <1>2 DEF TypeOK, hostVars, inputs
<1>4. pc'["install"] \in {"off", "lock"} /\ pc'["uninstall"] \in {"off", "lock"}
  BY <1>2 DEF Processes
<1>5. Pending' /\ Enabling'
  BY <1>1, <1>2, <1>4 DEF Pending, PendingKeepsRecovery, Enabling, NothingDangles, Exists, hostVars
<1>6. Installing' /\ Uninstalling'
  BY <1>4 DEF Installing, Uninstalling, AtVerify, AtTimer, AtService, AtReload, AtUnlink
<1> QED BY <1>2, <1>3, <1>5, <1>6 DEF IInv

LEMMA StayingIsGoing ==
  ASSUME TypeOK, NEW p \in Processes, NEW place, pc[p] = place, UNCHANGED <<pc, holder>>
  PROVE  Goto(p, place)
BY DEF Goto, TypeOK

LEMMA BeginCycleKeeps ==
  ASSUME IInv, BeginCycle
  PROVE  IInv'
<1>1. TypeOK /\ Pending
  BY DEF IInv
<1>2. /\ pc["maintain"] = "idle" /\ Goto("maintain", "work") /\ "work" \in MaintainPlaces
      /\ UNCHANGED <<configFile, hostVars, queued, inputs>>
  BY DEF BeginCycle, MaintainPlaces
<1>3. CASE cycle \in {"active", "rebooting"}
  <2>1. UNCHANGED <<files, cycle, cycles>>
    BY <1>3 DEF BeginCycle
  <2>2. cycle = "rebooting" => Resume \in enabled /\ Exists(Resume)
    BY <1>1 DEF Pending, PendingKeepsRecovery
  <2> QED BY <1>1, <1>2, <1>3, <2>1, <2>2, MaintainStepKeeps DEF TypeOK, Pending, files
<1>4. CASE cycle \notin {"active", "rebooting"}
  <2>1. /\ cycles < MaxCycles /\ cycles' = cycles + 1 /\ cycle' = "active"
        /\ UNCHANGED <<reports, temp>>
        /\ IF cycle = "terminal"
           THEN dirs' = {"state", "history"} /\ records' = records \cup {cycles}
           ELSE dirs' = dirs \cup {"state"} /\ UNCHANGED records
    BY <1>4 DEF BeginCycle
  <2>2. cycles' \in 0 .. MaxCycles /\ cycles' > 0 /\ (cycle = "terminal" => cycles \in 1 .. MaxCycles)
    BY <1>1, <2>1, InstallerAssumption DEF TypeOK, Pending
  <2>3. records' \subseteq 1 .. MaxCycles /\ reports' \subseteq 1 .. MaxCycles
    BY <1>1, <2>1, <2>2 DEF TypeOK
  <2>4. dirs' \in {{"state"}, {"state", "history"}, dirs} /\ "state" \in dirs'
    BY <1>1, <2>1 DEF TypeOK
  <2>5. cycle' # "none" /\ cycle' # "rebooting"
        /\ cycle' \in {"none", "active", "rebooting", "terminal"}
    BY <2>1
  <2> QED BY <1>2, <2>1, <2>2, <2>3, <2>4, <2>5, MaintainStepKeeps
<1> QED BY <1>3, <1>4

LEMMA WorkKeeps ==
  ASSUME IInv, CheckResumePath \/ SaveReport \/ EndCycle
  PROVE  IInv'
<1>1. TypeOK /\ Pending /\ "maintain" \in Processes
  BY DEF IInv, Processes
<1>2. /\ pc["maintain"] = "work" /\ UNCHANGED <<configFile, hostVars, records, temp, queued, cycles, inputs>>
      /\ cycles \in 1 .. MaxCycles /\ cycle # "none" /\ "state" \in dirs
  BY <1>1 DEF CheckResumePath, SaveReport, EndCycle, Pending, TypeOK, files, cycleVars
<1>3. CASE CheckResumePath
  <2>1. /\ Goto("maintain", "reboot") /\ "reboot" \in MaintainPlaces
        /\ cycle # "none" /\ cycle' = "rebooting" /\ UNCHANGED <<dirs, reports>>
        /\ Resume \in enabled /\ Exists(Resume)
    BY <1>3 DEF CheckResumePath, MaintainPlaces, files
  <2> QED BY <1>1, <1>2, <2>1, MaintainStepKeeps DEF TypeOK, Pending
<1>4. CASE SaveReport
  <2>1. Goto("maintain", "work") /\ "work" \in MaintainPlaces
    BY <1>1, <1>2, <1>4, StayingIsGoing DEF SaveReport, MaintainPlaces
  <2>2. /\ dirs' = {"state", "history"} /\ reports' \subseteq 1 .. MaxCycles
        /\ cycle' = cycle
    BY <1>1, <1>2, <1>4 DEF SaveReport, TypeOK, cycleVars
  <2> QED BY <1>1, <1>2, <2>1, <2>2, MaintainStepKeeps DEF TypeOK, Pending, PendingKeepsRecovery
<1>5. CASE EndCycle
  <2>1. Goto("maintain", "work") /\ "work" \in MaintainPlaces
    BY <1>1, <1>2, <1>5, StayingIsGoing DEF EndCycle, MaintainPlaces
  <2> QED BY <1>1, <1>2, <1>5, <2>1, MaintainStepKeeps DEF EndCycle, TypeOK, Pending, files
<1> QED BY <1>3, <1>4, <1>5

\* The maintenance process ends: a reboot ordered, or its cycle archived.
LEMMA FinishKeeps ==
  ASSUME IInv, OrderReboot \/ ArchiveCycle
  PROVE  IInv'
<1>1. TypeOK /\ Exclusive /\ Pending /\ Enabling /\ "maintain" \in Processes
  BY DEF IInv, Processes
<1>2. CASE OrderReboot
  <2>1. /\ End("maintain") /\ queued' \in BOOLEAN /\ temp' \in BOOLEAN
        /\ UNCHANGED <<configFile, hostVars, dirs, records, reports, cycle, cycles, inputs>>
    BY <1>1, <1>2 DEF OrderReboot, TypeOK, files
  <2> QED BY <1>1, <2>1, EndingKeeps
<1>3. CASE ArchiveCycle
  <2>1. /\ pc["maintain"] = "work" /\ End("maintain") /\ cycle' = "none"
        /\ dirs' = {"state", "history"} /\ records' = records \cup {cycles}
        /\ UNCHANGED <<configFile, hostVars, reports, temp, queued, cycles, inputs>>
    BY <1>3 DEF ArchiveCycle
  <2>2. /\ pc' \in [Processes -> Places] /\ holder' \in Processes \cup {"nobody"}
        /\ pc'["maintain"] = "off" /\ \A q \in Processes \ {"maintain"} : pc'[q] = pc[q]
    BY <1>1, <2>1, EndEffect
  <2>3. \A q \in Processes : pc'[q] \in {"off", "lock"}
    BY <1>1, <2>1, <2>2, Alone
  <2>4. cycles \in 1 .. MaxCycles
    BY <1>1, <2>1, InstallerAssumption DEF TypeOK, Pending
  <2>5. TypeOK'
    BY <1>1, <2>1, <2>2, <2>4 DEF TypeOK, hostVars, inputs
  <2>6. Exclusive'
    BY <2>3 DEF Exclusive, Processes, InstallPlaces, UninstallPlaces, MaintainPlaces
  <2>7. Pending' /\ Enabling'
    BY <1>1, <2>1, <2>3 DEF Pending, PendingKeepsRecovery, Enabling, NothingDangles, Exists,
       hostVars, Processes
  <2>8. Installing' /\ Uninstalling'
    BY <2>3 DEF Installing, Uninstalling, Processes, AtVerify, AtTimer, AtService, AtReload, AtUnlink
  <2> QED BY <2>5, <2>6, <2>7, <2>8 DEF IInv
<1> QED BY <1>2, <1>3

LEMMA MaintainKeeps ==
  ASSUME IInv, Maintain
  PROVE  IInv'
BY StartsKeep, AcquireKeeps, BeginCycleKeeps, WorkKeeps, FinishKeeps DEF Maintain, Processes

LEMMA KillKeeps ==
  ASSUME IInv, NEW p \in Processes, Kill(p)
  PROVE  IInv'
<1>1. TypeOK
  BY DEF IInv
<1>2. temp' \in BOOLEAN /\ queued' \in BOOLEAN
  BY <1>1 DEF Kill, TypeOK, cycleVars
<1> QED BY <1>2, EndingKeeps DEF Kill, cycleVars

\* The boot starts the timer only where its file is.
LEMMA RebootKeeps ==
  ASSUME IInv, Reboot
  PROVE  IInv'
<1>1. TypeOK /\ Pending /\ Enabling
  BY DEF IInv
<1>2. /\ pc' = [p \in Processes |-> "off"] /\ holder' = "nobody" /\ queued' = FALSE
      /\ active' = (Timer \in enabled /\ Exists(Timer))
      /\ UNCHANGED <<configFile, units, enabled, files, cycle, cycles, inputs>>
  BY DEF Reboot
<1>3. \A q \in Processes : pc'[q] = "off"
  BY <1>2
<1>4. active' \in BOOLEAN /\ (active' => Exists(Timer)')
  BY <1>2 DEF Exists
<1>5. pc' \in [Processes -> Places]
  BY <1>2 DEF Places
<1>6. TypeOK'
  BY <1>1, <1>2, <1>4, <1>5 DEF TypeOK, files, inputs
<1>7. Exclusive'
  BY <1>3 DEF Exclusive, Processes, InstallPlaces, UninstallPlaces, MaintainPlaces
<1>8. Pending' /\ Enabling'
  BY <1>1, <1>2, <1>3, <1>4 DEF Pending, PendingKeepsRecovery, Enabling, NothingDangles, Exists,
     files, Processes
<1>9. Installing' /\ Uninstalling'
  BY <1>3 DEF Installing, Uninstalling, Processes, AtVerify, AtTimer, AtService, AtReload, AtUnlink
<1> QED BY <1>6, <1>7, <1>8, <1>9 DEF IInv

\* What an installer was started with does not follow the operator's edits.
LEMMA EditConfigKeeps ==
  ASSUME IInv, EditConfig
  PROVE  IInv'
<1>1. TypeOK /\ Exclusive /\ Pending /\ Enabling /\ Installing /\ Uninstalling
  BY DEF IInv
<1>2. /\ configFile' = "admin" /\ schedule' \in Schedules
      /\ UNCHANGED <<hostVars, files, cycleVars, holder, pc, seen, purge>>
  BY DEF EditConfig
<1>3. TypeOK'
  BY <1>1, <1>2 DEF TypeOK, hostVars, files, cycleVars
<1>4. Exclusive'
  BY <1>1, <1>2 DEF Exclusive
<1>5. Pending' /\ Enabling'
  BY <1>1, <1>2 DEF Pending, PendingKeepsRecovery, Enabling, NothingDangles, Exists,
     hostVars, files, cycleVars
<1>6. Installing'
  BY <1>1, <1>2 DEF Installing, Exists, hostVars, files, AtVerify, AtTimer, AtService
<1>7. Uninstalling'
  BY <1>1, <1>2 DEF Uninstalling, Exists, hostVars, files
<1> QED BY <1>3, <1>4, <1>5, <1>6, <1>7 DEF IInv

LEMMA StutterKeeps ==
  ASSUME IInv, UNCHANGED vars
  PROVE  IInv'
<1>1. TypeOK /\ Exclusive /\ Pending /\ Enabling /\ Installing /\ Uninstalling
  BY DEF IInv
<1>2. UNCHANGED <<configFile, units, enabled, active, dirs, records, reports, temp,
                  cycle, queued, cycles, holder, pc, schedule, seen, purge>>
  BY DEF vars, hostVars, files, cycleVars, inputs
<1>3. TypeOK'
  BY <1>1, <1>2 DEF TypeOK
<1>4. Exclusive'
  BY <1>1, <1>2 DEF Exclusive
<1>5. Pending' /\ Enabling'
  BY <1>1, <1>2 DEF Pending, PendingKeepsRecovery, Enabling, NothingDangles, Exists
<1>6. Installing'
  BY <1>1, <1>2 DEF Installing, Exists
<1>7. Uninstalling'
  BY <1>1, <1>2 DEF Uninstalling, Exists
<1> QED BY <1>3, <1>4, <1>5, <1>6, <1>7 DEF IInv

-----------------------------------------------------------------------------
(* The theorems.                                                            *)

LEMMA InitInvariant == Init => IInv
<1> SUFFICES ASSUME Init PROVE IInv
  OBVIOUS
<1>1. /\ schedule \in Schedules /\ seen \in Schedules /\ configFile \in {"absent", "admin"}
      /\ units = [u \in Units |-> "absent"] /\ enabled = {} /\ active = FALSE
      /\ dirs = {} /\ records = {} /\ reports = {} /\ temp = FALSE /\ cycle = "none"
      /\ queued = FALSE /\ holder = "nobody" /\ pc = [p \in Processes |-> "off"]
      /\ purge = FALSE /\ cycles = 0
  BY DEF Init
<1>2. \A q \in Processes : pc[q] = "off"
  BY <1>1
<1>3. units \in [Units -> UnitContent] /\ pc \in [Processes -> Places]
  BY <1>1 DEF UnitContent, Places
<1>4. TypeOK
  <2>1. cycles \in 0 .. MaxCycles
    BY <1>1, InstallerAssumption
  <2>2. enabled \subseteq Units /\ records \subseteq 1 .. MaxCycles /\ reports \subseteq 1 .. MaxCycles
    BY <1>1
  <2>3. active \in BOOLEAN /\ temp \in BOOLEAN /\ queued \in BOOLEAN /\ purge \in BOOLEAN
    BY <1>1
  <2>4. /\ configFile \in {"absent", "default", "admin"} /\ holder \in Processes \cup {"nobody"}
        /\ dirs \in {{}, {"state"}, {"state", "history"}}
        /\ cycle \in {"none", "active", "rebooting", "terminal"}
    BY <1>1
  <2> QED BY <1>1, <1>3, <2>1, <2>2, <2>3, <2>4 DEF TypeOK
<1>5. Exclusive
  BY <1>2 DEF Exclusive, Processes, InstallPlaces, UninstallPlaces, MaintainPlaces
<1>6. Pending /\ Enabling
  BY <1>1, <1>2 DEF Pending, PendingKeepsRecovery, Enabling, NothingDangles, Exists, Processes
<1>7. Installing /\ Uninstalling
  BY <1>2 DEF Installing, Uninstalling, Processes, AtVerify, AtTimer, AtService, AtReload, AtUnlink
<1> QED BY <1>4, <1>5, <1>6, <1>7 DEF IInv

LEMMA NextInvariant == IInv /\ [Next]_vars => IInv'
BY InstallKeeps, UninstallKeeps, MaintainKeeps, KillKeeps, RebootKeeps, EditConfigKeeps,
   StutterKeeps DEF Next

\* Installer, uninstaller and maintenance exclude one another beyond the lock,
\* and each place of theirs holds what is done by then (patchcycle/installer.py,
\* patchcycle/lock.py).
THEOREM InstallerIsSound == Spec => []IInv
<1>1. Init => IInv
  BY InitInvariant
<1>2. IInv /\ [Next]_vars => IInv'
  BY NextInvariant
<1> QED BY <1>1, <1>2, PTL DEF Spec

\* Every variable keeps its type.
THEOREM InstallerTypes == Spec => []TypeOK
<1>1. IInv => TypeOK
  BY DEF IInv
<1> QED BY <1>1, InstallerIsSound, PTL

\* A cycle that may have ordered a reboot keeps its enabled resume service and
\* its state (_require_idle, prepare_and_reboot).
THEOREM RecoveryIsKept == Spec => []PendingKeepsRecovery
<1>1. IInv => PendingKeepsRecovery
  BY DEF IInv, Pending
<1> QED BY <1>1, InstallerIsSound, PTL

\* No unit is enabled, and no timer runs, without its file, and none is there
\* without a configuration, wherever an installation or removal stops (install,
\* uninstall).
THEOREM NoUnitDangles == Spec => []NothingDangles
<1>1. IInv => NothingDangles
  BY DEF IInv, Enabling
<1> QED BY <1>1, InstallerIsSound, PTL

\* An install that reports success has the host as its configuration says.
THEOREM InstallsAreComplete == Spec => []InstallIsComplete
<1>1. IInv => InstallIsComplete
  BY DEF IInv, Installing, InstallIsComplete, AtVerify, AtTimer, AtService
<1> QED BY <1>1, InstallerIsSound, PTL

\* An uninstall that reports success leaves no unit, and a purge no state.
THEOREM UninstallsAreComplete == Spec => []UninstallIsComplete
<1>1. IInv => UninstallIsComplete
  BY DEF IInv, Pending, Uninstalling, UninstallIsComplete, AtReload, AtUnlink
<1> QED BY <1>1, InstallerIsSound, PTL

-----------------------------------------------------------------------------
(* What is the operator's.                                                  *)

Kept == /\ configFile = "admin" => configFile' = "admin"
        /\ dirs \subseteq dirs' /\ records \subseteq records' /\ reports \subseteq reports'
        /\ cycle # "none" /\ (cycle' = "none" \/ cycles' # cycles) => cycles \in records'

\* Whatever is not part of a purge keeps configuration, records and reports,
\* and a cycle until it has its record.
LEMMA OthersKeep ==
  ASSUME IInv, Next, ~PurgeConfig, ~PurgeState
  PROVE  Kept
<1>1. TypeOK
  BY DEF IInv
<1>2. ASSUME configFile = "admin" => configFile' = "admin", UNCHANGED <<dirs, records, reports, cycleVars>>
      PROVE  Kept
  BY <1>2 DEF Kept, cycleVars
<1>3. CASE Install
  <2>1. CASE WriteConfig
    BY <1>2, <2>1 DEF WriteConfig, files
  <2>2. CASE WriteStateDirs
    BY <1>1, <2>2 DEF WriteStateDirs, Kept, TypeOK, cycleVars
  <2>3. CASE Install /\ ~WriteConfig /\ ~WriteStateDirs
    <3>1. UNCHANGED <<configFile, files, cycleVars>>
      BY <2>3 DEF Install, StartInstall, Acquire, RequireIdle, CheckSystemd, WriteUnit,
         WriteTimer, UnlinkTimer, VerifyUnits, EnableResume, EnableTimer, Installed
    <3> QED BY <1>2, <3>1 DEF files
  <2> QED BY <1>3, <2>1, <2>2, <2>3
<1>4. CASE Uninstall
  <2>1. UNCHANGED <<configFile, files, cycleVars>>
    BY <1>4 DEF Uninstall, StartUninstall, Acquire, RequireIdle, CheckPurge, DisableTimer,
       DisableResume, Disable, UnlinkUnits, ReloadUninstalled, Uninstalled
  <2> QED BY <1>2, <2>1 DEF files
<1>5. CASE Maintain
  <2>1. CASE BeginCycle
    <3>1. CASE cycle \in {"active", "rebooting"}
      BY <1>2, <2>1, <3>1 DEF BeginCycle, files, cycleVars
    <3>2. CASE cycle = "terminal"
      BY <1>1, <2>1, <3>2 DEF BeginCycle, Kept, TypeOK
    <3>3. CASE cycle = "none"
      BY <1>1, <2>1, <3>3 DEF BeginCycle, Kept, TypeOK
    <3> QED BY <1>1, <3>1, <3>2, <3>3 DEF TypeOK
  <2>2. CASE SaveReport
    BY <1>1, <2>2 DEF SaveReport, Kept, TypeOK, cycleVars
  <2>3. CASE ArchiveCycle
    BY <1>1, <2>3 DEF ArchiveCycle, Kept, TypeOK
  <2>4. CASE CheckResumePath \/ EndCycle
    BY <2>4 DEF CheckResumePath, EndCycle, Kept, files
  <2>5. CASE StartMaintain \/ Acquire("maintain") \/ OrderReboot
    <3>1. UNCHANGED <<configFile, files, cycle, cycles>>
      BY <2>5 DEF StartMaintain, Acquire, OrderReboot, cycleVars
    <3> QED BY <3>1 DEF Kept, files
  <2> QED BY <1>5, <2>1, <2>2, <2>3, <2>4, <2>5 DEF Maintain
<1>6. CASE \E p \in Processes : Kill(p)
  BY <1>2, <1>6 DEF Kill
<1>7. CASE Reboot \/ EditConfig
  BY <1>7 DEF Reboot, EditConfig, Kept, files, cycleVars
<1> QED BY <1>3, <1>4, <1>5, <1>6, <1>7 DEF Next

\* Only a purge at work takes the operator's configuration, a directory, a record
\* or a report, or a cycle that has no record (install, uninstall, archive).
THEOREM OperatorDataStays == Spec => OperatorDataIsKept
<1>1. IInv /\ [Next]_vars => [Purging \/ Kept]_vars
  <2> SUFFICES ASSUME IInv, Next PROVE Purging \/ Kept
    OBVIOUS
  <2>1. CASE PurgeConfig \/ PurgeState
    BY <2>1 DEF PurgeConfig, PurgeState, IInv, Uninstalling, Exclusive, Processes, Purging
  <2>2. CASE ~PurgeConfig /\ ~PurgeState
    BY <2>2, OthersKeep
  <2> QED BY <2>1, <2>2
<1> QED BY <1>1, InstallerIsSound, PTL DEF Spec, OperatorDataIsKept, Kept
=============================================================================
