------------------------------- MODULE Provider -------------------------------
(***************************************************************************)
(* The package-manager side of a cycle: the stages of engine.py that call  *)
(* the provider (precheck, refresh, discover, upgrade, checking reboot,    *)
(* verify) and the APT and DNF providers (providers/apt.py, dnf.py), one   *)
(* step per command they run.  Between two commands anything else on the   *)
(* host may act: unattended upgrades, an operator's holds, the archive.    *)
(***************************************************************************)
EXTENDS Naturals, FiniteSets

CONSTANTS
  Setups,             \* the hosts to look at: their package manager and [updates]
  LockTimeout,        \* [package_manager] lock_timeout
  PollInterval,       \* [package_manager] lock_poll_interval
  Packages,
  Kernel,             \* the kernel package
  NewDeps,            \* packages whose upgrade installs another package
  SecurityFixes,      \* the <<package, version>>s in the security pocket
  MaxVersion,         \* BOUND: the versions an archive publishes
  MaxEvents,          \* BOUND: acts of others
  MaxKills            \* BOUND: deaths of the process

Versions == 0 .. MaxVersion

\* The provider detected on a host, [updates] strategy and repair_interrupted.
Setup ==
  [manager : {"apt", "dnf"}, strategy : {"safe", "security", "full"}, repair : BOOLEAN]

ASSUME ProviderAssumption ==
  /\ Setups \subseteq Setup
  /\ LockTimeout \in Nat \ {0} /\ PollInterval \in Nat \ {0}
  /\ Kernel \in Packages /\ NewDeps \subseteq Packages
  /\ MaxVersion \in Nat \ {0} /\ MaxEvents \in Nat /\ MaxKills \in Nat
  /\ SecurityFixes \subseteq Packages \X Versions

VARIABLES
  setup,        \* the host, which stays as it is
  installed,    \* the version of every package; the running kernel is 0
  broken,       \* packages unpacked and not configured
  held,         \* packages an operator holds (APT) or locks (DNF)
  repo,         \* what the archive offers
  index,        \* what the local package lists say it offers
  txn,          \* the transaction that has the package manager's lock
  restart,      \* the reboot-required sentinel, or needs-restarting's answer
  pc,           \* the next command
  phase,        \* what the commands of a preflight or a listing are for
  waited,       \* the seconds waited for the lock
  listed,       \* updates_available
  applied,      \* updates_applied, durable
  required,     \* reboot_required
  events,       \* acts of others so far
  kills,        \* deaths so far
  leftover,     \* GHOST: broken ever since the preflight or verification began
  pending,      \* GHOST: outstanding ever since the verification began
  ours,         \* GHOST: the <<package, version>>s transactions of the cycle set
  unanswered    \* GHOST: the last kernel query of CHECKING_REBOOT had an error exit

packageVars == <<installed, broken, held, repo, index, txn, restart>>
cycleVars == <<listed, applied, required>>
ghosts == <<leftover, pending, ours, unanswered>>
vars == <<setup, packageVars, pc, phase, waited, cycleVars, events, kills, ghosts>>

Manager == setup.manager
Strategy == setup.strategy
RepairInterrupted == setup.repair

NoTxn == [owner |-> "nobody", todo |-> {}]
Locked == txn.owner # "nobody"

Upgradable == {p \in Packages : index[p] > installed[p]}

\* "Kept back": what an upgrade leaves alone.
KeptBack == held \cup (IF Manager = "apt" /\ Strategy # "full" THEN NewDeps ELSE {})

IsSecurity(p) == <<p, index[p]>> \in SecurityFixes

\* The updates the strategy is to apply, as the package lists stand.
Outstanding ==
  {p \in Upgradable \ KeptBack : Strategy = "security" => IsSecurity(p)}

Init ==
  /\ setup \in Setups
  /\ installed = [p \in Packages |-> 0]
  /\ broken \in {{}, {Kernel}}
  /\ held \in {{}, Packages \ {Kernel}}
  /\ repo = [p \in Packages |-> 1]
  /\ index = [p \in Packages |-> 0]
  /\ txn = NoTxn
  /\ restart = FALSE
  /\ pc = "preflight" /\ phase = "precheck" /\ waited = 0
  /\ listed = {} /\ applied = FALSE /\ required = FALSE
  /\ events = 0 /\ kills = 0
  /\ leftover = {} /\ pending = {} /\ ours = {} /\ unanswered = FALSE

Goto(place) == pc' = place
Stay == UNCHANGED <<events, kills>>

\* What was broken or outstanding and still is.
Track ==
  /\ leftover' = leftover \cap broken'
  /\ pending' = pending \cap Outstanding'

-----------------------------------------------------------------------------
(* preflight(), under _preflight_with_lock_wait.                            *)

Preflight ==
  /\ pc = "preflight"
  /\ leftover' = broken
  /\ Goto(IF Manager = "apt" THEN "audit" ELSE "check")
  /\ UNCHANGED <<packageVars, phase, waited, cycleVars, pending, ours, unanswered>>
  /\ Stay

\* What follows each outcome of a preflight.
PreflightOk == IF phase = "upgrading" THEN "apply" ELSE "refresh"
Interrupted ==
  IF phase = "precheck" /\ RepairInterrupted /\ Manager = "apt" THEN "repair" ELSE "failed"

\* WRONG: the audit is left to the package manager.
Audit_Skipped ==
  /\ pc = "audit"
  /\ Goto("locks")
  /\ UNCHANGED <<packageVars, phase, waited, cycleVars, ours, unanswered>>
  /\ Stay /\ Track

\* dpkg --audit.
Audit ==
  /\ pc = "audit"
  /\ Goto(IF broken = {} THEN "locks" ELSE Interrupted)
  /\ UNCHANGED <<packageVars, phase, waited, cycleVars, ours, unanswered>>
  /\ Stay /\ Track

\* WRONG: it gives up when the next wait would reach the timeout.
WaitOrGiveUp_Early ==
  /\ IF waited + PollInterval >= LockTimeout \/ phase = "repaired"
     THEN Goto("locked") /\ UNCHANGED waited
     ELSE Goto("preflight") /\ waited' = waited + PollInterval
  /\ UNCHANGED phase

\* The lock is busy: poll again, and give up after lock_timeout.  What
\* follows a repair does not wait.
WaitOrGiveUp ==
  /\ IF waited >= LockTimeout \/ phase = "repaired"
     THEN Goto("locked") /\ UNCHANGED waited
     ELSE Goto("preflight") /\ waited' = waited + PollInterval
  /\ UNCHANGED phase

\* The probes of dpkg's and apt's lock files.
ProbeLocks ==
  /\ pc = "locks"
  /\ IF Locked THEN WaitOrGiveUp ELSE Goto(PreflightOk) /\ UNCHANGED <<phase, waited>>
  /\ UNCHANGED <<packageVars, cycleVars, ours, unanswered>>
  /\ Stay /\ Track

\* dnf check refuses with exit 200 when another transaction has the lock.
Check ==
  /\ pc = "check"
  /\ IF Locked THEN WaitOrGiveUp
     ELSE /\ Goto(IF broken = {} THEN PreflightOk ELSE Interrupted)
          /\ UNCHANGED <<phase, waited>>
  /\ UNCHANGED <<packageVars, cycleVars, ours, unanswered>>
  /\ Stay /\ Track

\* dpkg --configure -a, which needs the lock, and a second preflight.
Repair ==
  /\ pc = "repair"
  /\ \/ /\ ~Locked
        /\ broken' = {}
        /\ Goto("preflight")
        /\ phase' = "repaired"
     \/ /\ Goto("failed")
        /\ UNCHANGED <<broken, phase>>
  /\ UNCHANGED <<installed, held, repo, index, txn, restart, waited, cycleVars, ours, unanswered>>
  /\ Stay /\ Track

-----------------------------------------------------------------------------
(* refresh() and list_updates().                                            *)

\* apt-get update or dnf makecache.
Refresh ==
  /\ pc = "refresh"
  /\ index' = repo
  /\ Goto("list") /\ phase' = "discover"
  /\ UNCHANGED <<installed, broken, held, repo, txn, restart, waited, cycleVars, ours, unanswered>>
  /\ Stay /\ Track

\* apt-get -s upgrade, which shows what is kept back; dnf check-update, which
\* refreshes its metadata first and knows nothing of version locks.
List ==
  /\ pc = "list"
  /\ index' = IF Manager = "dnf" THEN repo ELSE index
  /\ LET found == {p \in Packages : index'[p] > installed[p]}
     IN  /\ listed' = {[name |-> p, to |-> index'[p], security |-> FALSE,
                        held |-> Manager = "apt" /\ p \in KeptBack] : p \in found}
         /\ Goto(IF found = {} THEN "decide" ELSE "classify")
  /\ UNCHANGED <<installed, broken, held, repo, txn, restart, phase, waited>>
  /\ UNCHANGED <<applied, required, ours, unanswered>>
  /\ Stay /\ Track

OfStrategy(updates) ==
  IF Strategy = "security" THEN {u \in updates : u.security \/ u.held} ELSE updates

\* apt-cache policy, or dnf updateinfo and versionlock list: what of the
\* listed names is a security update, and what DNF holds, by now.
Classify ==
  /\ pc = "classify"
  /\ listed' = OfStrategy({[u EXCEPT !.security = IsSecurity(u.name),
                                     !.held = IF Manager = "dnf" THEN u.name \in held ELSE @]
                           : u \in listed})
  /\ Goto("decide")
  /\ UNCHANGED <<packageVars, phase, waited, applied, required, ours, unanswered>>
  /\ Stay /\ Track

Applicable == {u \in listed : ~u.held}

\* Discovery goes on to the upgrade, unless it is done; an upgrade begins with
\* a preflight of its own.  Verification wants nothing outstanding.
Decide ==
  /\ pc = "decide"
  /\ \/ /\ phase = "verify"
        /\ Goto(IF Applicable = {} THEN "done" ELSE "failed")
        /\ UNCHANGED <<phase, waited>>
     \/ /\ phase = "discover" /\ (Applicable = {} \/ applied)
        /\ Goto("sentinel")
        /\ UNCHANGED <<phase, waited>>
     \/ /\ phase = "discover" /\ Applicable # {} /\ ~applied
        /\ Goto("preflight") /\ phase' = "upgrading" /\ waited' = 0
  /\ UNCHANGED <<packageVars, cycleVars, ours, unanswered>>
  /\ Stay /\ Track

-----------------------------------------------------------------------------
(* apply_updates().                                                         *)

\* WRONG: the security update of a package is asked for by its name.
Targets_Unpinned == {<<u.name, index[u.name]>> : u \in {v \in listed : v.security /\ ~v.held}}

\* apt-get install --only-upgrade <name>=<version> for the classified updates.
Targets == {<<u.name, u.to>> : u \in {v \in listed : v.security /\ ~v.held}}

\* APT finds a pinned version only while its lists offer it (an archive offers
\* one version of a package), and overrides no hold and does no downgrade.
Installable(targets) ==
  \A t \in targets : index[t[1]] = t[2] /\ installed[t[1]] <= t[2] /\ t[1] \notin held

\* What the command resolves to, from the lists it reads when it starts.
Resolved ==
  IF Manager = "apt" /\ Strategy = "security" THEN Targets
  ELSE LET lists == IF Manager = "dnf" /\ Strategy # "security" THEN repo ELSE index
           fixes(p) == Strategy = "security" => <<p, lists[p]>> \in SecurityFixes
       IN  {<<p, lists[p]>> : p \in {q \in Packages \ KeptBack :
                                       lists[q] > installed[q] /\ fixes(q)}}

\* The native lock decides.  A security listing with something applicable
\* always has targets.
Start ==
  /\ pc = "apply"
  /\ IF Locked \/ (Manager = "apt" /\ Strategy = "security" /\ ~Installable(Targets))
     THEN Goto("failed") /\ UNCHANGED <<txn, index>>
     ELSE /\ txn' = [owner |-> "us", todo |-> Resolved]
          /\ index' = IF Manager = "dnf" /\ Strategy # "security" THEN repo ELSE index
          /\ Goto("transaction")
  /\ UNCHANGED <<installed, broken, held, repo, restart, phase, waited, cycleVars, ours, unanswered>>
  /\ Stay /\ Track

\* One package of the transaction is unpacked, or configured.
Progress ==
  \E t \in txn.todo :
    \/ /\ t[1] \notin broken
       /\ broken' = broken \cup {t[1]}
       /\ UNCHANGED <<installed, txn, restart, ours>>
    \/ /\ t[1] \in broken
       /\ broken' = broken \ {t[1]}
       /\ installed' = [installed EXCEPT ![t[1]] = t[2]]
       /\ txn' = [txn EXCEPT !.todo = @ \ {t}]
       /\ restart' \in {restart} \cup (IF t[1] = Kernel THEN {TRUE} ELSE {})
       /\ ours' = IF txn.owner = "other" THEN ours ELSE ours \cup {t}

Transaction ==
  /\ pc = "transaction"
  /\ IF txn.todo = {}
     THEN txn' = NoTxn /\ Goto("applied") /\ UNCHANGED <<installed, broken, restart, ours>>
     ELSE Progress /\ UNCHANGED pc
  /\ UNCHANGED <<held, repo, index, phase, waited, cycleVars, unanswered>>
  /\ Stay /\ Track

\* upgrade_timeout: the process group is killed, first politely.
TransactionTimeout ==
  /\ pc = "transaction"
  /\ txn' = NoTxn
  /\ Goto("failed")
  /\ UNCHANGED <<installed, broken, held, repo, index, restart, phase, waited, cycleVars>>
  /\ UNCHANGED <<ours, unanswered>>
  /\ Stay /\ Track

\* The kernel query, and the save of what was applied.
Applied ==
  /\ pc = "applied"
  /\ applied' = TRUE
  /\ Goto("sentinel")
  /\ UNCHANGED <<packageVars, phase, waited, listed, required, ours, unanswered>>
  /\ Stay /\ Track

-----------------------------------------------------------------------------
(* reboot_required().                                                       *)

\* The sentinel, or needs-restarting; a probe that fails says that a reboot is
\* required, a plugin that is missing leaves it to the kernels.
Sentinel ==
  /\ pc = "sentinel"
  /\ required' \in {restart, TRUE} \cup (IF Manager = "dnf" THEN {FALSE} ELSE {})
  /\ Goto("kernel")
  /\ UNCHANGED <<packageVars, phase, waited, listed, applied, ours, unanswered>>
  /\ Stay /\ Track

\* WRONG: the sentinel alone decides.
KernelQuery_Skipped ==
  /\ pc = "kernel"
  /\ Goto("verify")
  /\ UNCHANGED <<packageVars, phase, waited, cycleVars, ours, unanswered>>
  /\ Stay /\ Track

\* The newest installed kernel against the running one.  A query that cannot
\* run says that a reboot is required (APT) or fails the cycle (DNF), one with
\* an error exit says nothing.
KernelQuery ==
  /\ pc = "kernel"
  /\ Goto("verify")
  /\ \/ required' = (required \/ installed[Kernel] # 0) /\ unanswered' = FALSE
     \/ Manager = "apt" /\ required' = TRUE /\ unanswered' = FALSE
     \/ unanswered' = TRUE /\ UNCHANGED required
  /\ UNCHANGED <<packageVars, phase, waited, listed, applied, ours>>
  /\ Stay /\ Track

-----------------------------------------------------------------------------
(* verify().                                                                *)

\* apt-get check, which need not see what is only half configured; dnf check.
Verify ==
  /\ pc = "verify"
  /\ leftover' = broken
  /\ pending' = Outstanding
  /\ \/ /\ broken = {} \/ Manager = "apt"
        /\ Goto(IF Manager = "apt" THEN "verify.audit" ELSE "list")
     \/ broken # {} /\ Goto("failed")
  /\ phase' = "verify"
  /\ UNCHANGED <<packageVars, waited, cycleVars, ours, unanswered>>
  /\ Stay

\* WRONG: apt-get check is enough.
VerifyAudit_Skipped ==
  /\ pc = "verify.audit"
  /\ Goto("list")
  /\ UNCHANGED <<packageVars, phase, waited, cycleVars, ours, unanswered>>
  /\ Stay /\ Track

VerifyAudit ==
  /\ pc = "verify.audit"
  /\ Goto(IF broken = {} THEN "list" ELSE "failed")
  /\ UNCHANGED <<packageVars, phase, waited, cycleVars, ours, unanswered>>
  /\ Stay /\ Track

-----------------------------------------------------------------------------
(* Failures, deaths, and what others do.                                    *)

Ended == {"done", "failed", "locked"}

\* A command times out, cannot run or answers with an error.
CommandFails ==
  /\ pc \notin {"decide", "transaction", "sentinel"} \cup Ended
  /\ Manager = "apt" => pc # "kernel"
  /\ Goto("failed")
  /\ UNCHANGED <<packageVars, phase, waited, cycleVars, ours, unanswered>>
  /\ Stay /\ Track

\* The process dies and is run again on the same boot: a cycle that was not
\* past the upgrade starts over.  A transaction runs in a session of its own,
\* and may outlive the process.
Kill ==
  /\ pc \notin Ended
  /\ kills < MaxKills /\ kills' = kills + 1
  /\ IF pc \in {"sentinel", "kernel"} THEN Goto("sentinel") /\ UNCHANGED phase
     ELSE IF phase = "verify" \/ pc = "verify" THEN Goto("verify") /\ UNCHANGED phase
     ELSE Goto("preflight") /\ phase' = "precheck"
  /\ waited' = 0
  /\ txn' \in IF txn.owner = "us" THEN {NoTxn, [txn EXCEPT !.owner = "orphan"]} ELSE {txn}
  /\ UNCHANGED <<installed, broken, held, repo, index, restart, cycleVars, events, ours, unanswered>>
  /\ Track

Event == events < MaxEvents /\ events' = events + 1

\* A transaction of someone else, or one of ours that survived.
Foreign == txn.owner \in {"other", "orphan"}

OtherBegins ==
  /\ ~Locked /\ Event
  /\ \E names \in SUBSET (Upgradable \ held) :
       /\ names # {}
       /\ txn' = [owner |-> "other", todo |-> {<<p, index[p]>> : p \in names}]
  /\ UNCHANGED <<installed, broken, held, repo, index, restart>>

OtherProgresses ==
  /\ Foreign /\ Progress
  /\ UNCHANGED <<held, repo, index, events>>

\* It ends, or dies.
OtherEnds ==
  /\ Foreign
  /\ txn' = NoTxn
  /\ UNCHANGED <<installed, broken, held, repo, index, restart, events>>

Hold ==
  /\ Event
  /\ \E p \in Packages \ {Kernel} : held' = (held \cup {p}) \ (held \cap {p})
  /\ UNCHANGED <<installed, broken, repo, index, txn, restart>>

Publish ==
  /\ Event
  /\ \E p \in Packages : repo[p] < MaxVersion /\ repo' = [repo EXCEPT ![p] = @ + 1]
  /\ UNCHANGED <<installed, broken, held, index, txn, restart>>

OtherRefreshes ==
  /\ Event
  /\ index # repo /\ index' = repo
  /\ UNCHANGED <<installed, broken, held, repo, txn, restart>>

Others ==
  /\ pc \notin Ended
  /\ \/ OtherProgresses
     \/ /\ OtherBegins \/ OtherEnds \/ Hold \/ Publish \/ OtherRefreshes
        /\ UNCHANGED ours
  /\ UNCHANGED <<pc, phase, waited, cycleVars, kills, unanswered>>
  /\ Track

Step ==
  \/ Preflight \/ Audit \/ ProbeLocks \/ Check \/ Repair
  \/ Refresh \/ List \/ Classify \/ Decide
  \/ Start \/ Transaction \/ Applied
  \/ Sentinel \/ KernelQuery \/ Verify \/ VerifyAudit

Next ==
  /\ UNCHANGED setup
  /\ Step \/ TransactionTimeout \/ CommandFails \/ Kill \/ Others

Spec == Init /\ [][Next]_vars

-----------------------------------------------------------------------------
(* Properties.                                                              *)

Begins == pc = "apply" /\ pc' = "transaction"

\* A transaction never begins over packages that an interrupted one left and
\* nobody repaired since the preflight of the upgrade, whoever was killed.
NeverUpgradesOverBroken == [][Begins => leftover' = {}]_vars

\* A cycle gives up on a busy lock only after it waited lock_timeout for it in
\* this preflight, except behind a repair; and it never waits a full poll
\* longer.
LockWaitIsHonoured ==
  /\ waited < LockTimeout + PollInterval
  /\ pc = "locked" => waited >= LockTimeout \/ phase = "repaired"

\* Nothing but security updates is ever installed by APT's security run, although
\* its listing is classified after it was made and the lists change in between
\* and before the upgrade.
OnlyClassifiedIsInstalled ==
  (Manager = "apt" /\ Strategy = "security") => ours \subseteq SecurityFixes

\* A cycle that ends verified left nothing broken and nothing outstanding,
\* except what became so while it looked.
VerifiedIsTrue == pc = "done" => leftover = {} /\ pending = {}

\* A cycle that ends verified, installed a kernel and had an answer to its last
\* kernel query knows that a reboot is required, with or without the sentinel
\* or the plugin, whoever held, published or upgraded packages meanwhile.  What
\* follows an error exit of the query is ProbeErrorsAreConservative.
OwnKernelIsSeen ==
  (pc = "done" /\ \E v \in Versions : <<Kernel, v>> \in ours) => required \/ unanswered

\* "Probe errors are conservative: report required=True ... rather than risking a
\* missed reboot" (provider-contract.md, reboot_required): a verified cycle that
\* installed a kernel knows that a reboot is required, whatever its queries said.
ProbeErrorsAreConservative ==
  (pc = "done" /\ \E v \in Versions : <<Kernel, v>> \in ours) => required

\* "Busy -> pm-locked (engine waits/retries with timeout)"
\* (provider-contract.md, preflight): a running transaction is not taken for
\* an interrupted one.
BusyIsWaitedFor ==
  [][(pc = "audit" /\ broken # {} /\ pc' = "failed") => ~Locked]_vars
=============================================================================
