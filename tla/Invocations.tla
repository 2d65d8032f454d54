----------------------------- MODULE Invocations -----------------------------
(***************************************************************************)
(* Who works on a cycle: the service of the timer (run --scheduled), the   *)
(* service that resumes after a boot, and an operator's commands, each a   *)
(* process that has to get the execution lock (lock.py) before it may look *)
(* at the cycle (cli.py) or at the units (installer.py).  The lock is a    *)
(* flock on whatever file the path names when it is opened; the file stays *)
(* when the lock is released, and a boot clears /run.                      *)
(***************************************************************************)
EXTENDS Naturals, FiniteSets

CONSTANTS
  Shells,         \* where an operator starts commands, one at a time in each
  MaxBoots,       \* BOUND: boots
  MaxCrashes,     \* BOUND: deaths of a process, the machine staying up
  MaxCommands     \* BOUND: an operator's commands

Services == {"run.service", "resume.service"}

ASSUME InvocationsAssumption ==
  /\ IsFiniteSet(Shells) /\ (Services \cup {"nobody"}) \cap Shells = {}
  /\ MaxBoots \in Nat \ {0} /\ MaxCrashes \in Nat /\ MaxCommands \in Nat

VARIABLES
  enabled,    \* [maintenance] enabled
  units,      \* what is installed: the timer (no manual schedule), the resume service
  job,        \* what systemd has still to start: a subset of the services
  pc,         \* what each process is about to do
  command,    \* what each was started for
  file,       \* the inode the lock's path names, 0 when there is none
  opened,     \* the inode each process has open, 0 for none
  holder,     \* who holds the flock on each inode
  cycle,      \* state.json: "none" or "pending"
  boots, crashes, commands

lockVars == <<file, opened, holder>>
counters == <<boots, crashes, commands>>
vars == <<enabled, units, job, pc, command, lockVars, cycle, counters>>

-----------------------------------------------------------------------------
Processes == Services \cup Shells
Commands == {"run", "run --force", "resume", "updates", "install", "uninstall"}
Inodes == 1 .. Cardinality(Processes)

Schedules == {{"resume"}, {"resume", "timer"}}

Init ==
  /\ enabled \in BOOLEAN /\ units \in Schedules
  /\ job = {}
  /\ pc = [p \in Processes |-> "off"]
  /\ command = [p \in Processes |-> "run"]
  /\ file = 0
  /\ opened = [p \in Processes |-> 0]
  /\ holder = [i \in Inodes |-> "nobody"]
  /\ cycle = "none"
  /\ boots = 1 /\ crashes = 0 /\ commands = 0

Goto(p, place) == pc' = [pc EXCEPT ![p] = place]

\* The process ends; its descriptors are closed, which releases its lock.
Off(p) ==
  /\ Goto(p, "off")
  /\ opened' = [opened EXCEPT ![p] = 0]
  /\ holder' = [i \in Inodes |-> IF holder[i] = p THEN "nobody" ELSE holder[i]]

Begin(p, c) ==
  /\ pc[p] = "off"
  /\ Goto(p, "open")
  /\ command' = [command EXCEPT ![p] = c]

-----------------------------------------------------------------------------
(* What starts a process.                                                   *)

\* The timer; elapsing while its service runs or waits adds nothing.
Elapse ==
  /\ "timer" \in units
  /\ pc["run.service"] = "off"
  /\ job' = job \cup {"run.service"}
  /\ UNCHANGED <<enabled, units, pc, command, lockVars, cycle, counters>>

\* It is ordered after the resume service, if that is still to end.
StartRun ==
  /\ "run.service" \in job
  /\ "resume.service" \notin job /\ pc["resume.service"] = "off"
  /\ Begin("run.service", "run")
  /\ job' = job \ {"run.service"}
  /\ UNCHANGED <<enabled, units, lockVars, cycle, counters>>

\* Once per boot, and not started again when it fails.
StartResume ==
  /\ "resume.service" \in job
  /\ Begin("resume.service", "resume")
  /\ job' = job \ {"resume.service"}
  /\ UNCHANGED <<enabled, units, lockVars, cycle, counters>>

\* A resume from a shell is refused without --force.
StartCommand ==
  /\ commands < MaxCommands
  /\ commands' = commands + 1
  /\ \E p \in Shells, c \in Commands : Begin(p, c)
  /\ UNCHANGED <<enabled, units, job, lockVars, cycle, boots, crashes>>

-----------------------------------------------------------------------------
(* ExecutionLock.                                                           *)

\* O_CREAT: the file the path names by now, or a new one.
Open(p) ==
  /\ pc[p] = "open"
  /\ IF file # 0 THEN UNCHANGED file
     ELSE file' \in {i \in Inodes : \A q \in Processes : opened[q] # i}
  /\ opened' = [opened EXCEPT ![p] = file']
  /\ Goto(p, "flock")
  /\ UNCHANGED <<enabled, units, job, command, holder, cycle, counters>>

\* Exclusive and not blocking: the second one exits 3.
Flock(p) ==
  /\ pc[p] = "flock"
  /\ IF holder[opened[p]] = "nobody"
     THEN /\ holder' = [holder EXCEPT ![opened[p]] = p]
          /\ Goto(p, "work")
          /\ UNCHANGED opened
     ELSE Off(p)
  /\ UNCHANGED <<enabled, units, job, command, file, cycle, counters>>

\* WRONG: a released lock is cleaned up.
Release_Unlinks(p) ==
  /\ pc[p] = "release"
  /\ Off(p)
  /\ file' = 0
  /\ UNCHANGED <<enabled, units, job, command, cycle, counters>>

Release(p) ==
  /\ pc[p] = "release"
  /\ Off(p)
  /\ UNCHANGED <<enabled, units, job, command, file, cycle, counters>>

-----------------------------------------------------------------------------
(* What is done under it.                                                   *)

\* WRONG: a scheduled run leaves a pending cycle to the resume service.
TakesUp_ResumeOnly(p) ==
  \/ command[p] = "resume" /\ cycle = "pending"
  \/ command[p] = "run" /\ enabled /\ cycle = "none"
  \/ command[p] = "run --force"

\* run works on the pending cycle or on a new one, unless maintenance is off;
\* resume looks at the pending one only.
TakesUp(p) ==
  \/ command[p] = "resume" /\ cycle = "pending"
  \/ command[p] = "run" /\ enabled
  \/ command[p] = "run --force"

\* _require_idle: the units of a pending cycle stay.
Installs(p) == command[p] \in {"install", "uninstall"} /\ cycle = "none"

\* updates lists, and no more.
Work(p) ==
  /\ pc[p] = "work"
  /\ IF TakesUp(p)
     THEN Goto(p, "cycle") /\ cycle' = "pending"
     ELSE Goto(p, "release") /\ UNCHANGED cycle
  /\ IF Installs(p)
     THEN /\ units' \in IF command[p] = "install" THEN Schedules ELSE {{}}
          /\ job' = IF units' = {} THEN {} ELSE job
     ELSE UNCHANGED <<units, job>>
  /\ UNCHANGED <<enabled, command, lockVars, counters>>

\* The cycle is archived, or waits for a reboot it ordered.
Leave(p) ==
  /\ pc[p] = "cycle"
  /\ cycle' \in {"none", "pending"}
  /\ Goto(p, "release")
  /\ UNCHANGED <<enabled, units, job, command, lockVars, counters>>

-----------------------------------------------------------------------------
(* The environment.                                                         *)

Crash(p) ==
  /\ pc[p] # "off"
  /\ crashes < MaxCrashes
  /\ crashes' = crashes + 1
  /\ Off(p)
  /\ UNCHANGED <<enabled, units, job, command, file, cycle, boots, commands>>

\* /run is empty after a boot, which starts the resume service.
Reboot ==
  /\ boots < MaxBoots
  /\ boots' = boots + 1
  /\ pc' = [p \in Processes |-> "off"]
  /\ file' = 0
  /\ opened' = [p \in Processes |-> 0]
  /\ holder' = [i \in Inodes |-> "nobody"]
  /\ job' = IF "resume" \in units THEN {"resume.service"} ELSE {}
  /\ UNCHANGED <<enabled, units, command, cycle, crashes, commands>>

\* An operator edits config.toml.
EditConfig ==
  /\ enabled' \in BOOLEAN
  /\ UNCHANGED <<units, job, pc, command, lockVars, cycle, counters>>

Process(p) == Open(p) \/ Flock(p) \/ Release(p) \/ Work(p) \/ Leave(p)

Next ==
  \/ Elapse \/ StartRun \/ StartResume \/ StartCommand
  \/ \E p \in Processes : Process(p) \/ Crash(p)
  \/ Reboot \/ EditConfig

\* Processes end, the timer elapses and systemd starts what is to be started;
\* nothing is assumed of the operator and the machine.
Fairness ==
  /\ \A p \in Processes : WF_vars(Process(p))
  /\ WF_vars(Elapse) /\ WF_vars(StartRun) /\ WF_vars(StartResume)

Spec == Init /\ [][Next]_vars /\ Fairness

-----------------------------------------------------------------------------
(* Properties.                                                              *)

AtWork == {p \in Processes : pc[p] \in {"work", "cycle", "release"}}

\* At most one process looks at or works on the cycle, though each opens the
\* lock file before it locks it, others end or die in between, and a boot
\* clears the file away.
OneAtWork == Cardinality(AtWork) <= 1

\* A pending cycle is taken up again: by the timer, if the resume service found
\* the lock taken or died.  An installation cannot take the timer from under it;
\* only maintenance that is switched off keeps it waiting.
PendingIsTakenUp ==
  cycle = "pending" /\ "timer" \in units ~>
    (\E p \in Processes : pc[p] = "cycle") \/ cycle = "none" \/ ~enabled
=============================================================================
