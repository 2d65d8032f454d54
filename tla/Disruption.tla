------------------------------ MODULE Disruption ------------------------------
(***************************************************************************)
(* When a disruptive action may start: the gates in front of an upgrade    *)
(* (engine.py, _do_upgrading) and of a reboot (engine.py, _do_reboot_      *)
(* pending and _do_rebooting; reboot.py, evaluate and prepare_and_reboot)  *)
(* under a clock.  Time passes in hooks, in waits for the package manager, *)
(* for logged-in users and between reboot attempts; users come and go.     *)
(***************************************************************************)
EXTENDS MaintenanceWindow

CONSTANTS
  Configured,       \* the windows an operator may configure
  UpgradeEstimate,  \* _upgrade_estimate
  RebootEstimate,   \* estimates.reboot_verify
  HookTimeout,      \* the longest the hooks of a point take
  LockTimeout,      \* the longest wait for the package manager
  UserTimeout,      \* user_wait_timeout
  UserPoll,         \* 30 s
  RetryDelay,       \* 30 s
  MaxAttempts       \* RebootController.max_attempts

ASSUME DisruptionAssumption ==
  /\ Configured \subseteq Windows
  /\ UpgradeEstimate \in Nat /\ RebootEstimate \in Nat
  /\ HookTimeout \in Nat /\ LockTimeout \in Nat
  /\ UserTimeout \in Nat /\ UserPoll \in Nat \ {0} /\ RetryDelay \in Nat
  /\ MaxAttempts \in Nat \ {0}

VARIABLES
  window,       \* the configured window
  policy,       \* [reboot] policy
  required,     \* reboot_required
  allowUsers,   \* allow_if_users_logged_in
  clock,        \* the time of day
  users,        \* somebody is logged in
  pc,           \* the next thing to do
  caller,       \* what evaluate() was called for
  waited,       \* the time evaluate() has waited for users
  attempts,     \* reboot_attempts
  stage,        \* GHOST: the time this process spent in REBOOTING
  alone         \* GHOST: evaluate() saw nobody since time last passed

settings == <<window, policy, required, allowUsers>>
vars == <<settings, clock, users, pc, caller, waited, attempts, stage, alone>>

Policies == {"never", "notify_only", "when_required", "always"}

Ended == {"upgrading", "verifying", "blocked", "failed", "down"}

\* A process that finds REBOOTING begins at its hooks, with the attempts that
\* earlier ones made.
Init ==
  /\ window \in Configured
  /\ policy \in Policies /\ required \in BOOLEAN /\ allowUsers \in BOOLEAN
  /\ clock \in TimeOfDay
  /\ users \in BOOLEAN
  /\ \/ pc \in {"upgrade.gate", "pending"} /\ caller = "nobody" /\ attempts = 0
     \/ pc = "hooks" /\ caller = "pending" /\ attempts \in 0 .. MaxAttempts - 1
  /\ waited = 0 /\ stage = 0 /\ alone = FALSE

Goto(place) == pc' = place
SameTime == UNCHANGED <<clock, stage, alone>>

\* d passes.
Passes(d) ==
  /\ clock' = (clock + d) % Day
  /\ stage' = IF caller \in {"nobody", "pending"} THEN stage ELSE stage + d
  /\ alone' = FALSE

-----------------------------------------------------------------------------
(* UPGRADING.                                                               *)

\* Nothing starts outside the window, not the hooks either.
UpgradeGate ==
  /\ pc = "upgrade.gate"
  /\ Goto(IF AllowsDisruptive(clock, UpgradeEstimate, window) THEN "upgrade.hooks" ELSE "blocked")
  /\ SameTime
  /\ UNCHANGED <<settings, users, caller, waited, attempts>>

\* The before_upgrade hooks run; one may abort.
UpgradeHooks ==
  /\ pc = "upgrade.hooks"
  /\ \E d \in 0 .. HookTimeout : Passes(d)
  /\ pc' \in {"upgrade.lock", "blocked"}
  /\ UNCHANGED <<settings, users, caller, waited, attempts>>

\* _preflight_with_lock_wait.
UpgradeLockWait ==
  /\ pc = "upgrade.lock"
  /\ \E d \in 0 .. LockTimeout : Passes(d)
  /\ pc' \in {"upgrade.recheck", "blocked"}
  /\ UNCHANGED <<settings, users, caller, waited, attempts>>

\* WRONG: the window was checked before.
UpgradeRecheck_Skipped ==
  /\ pc = "upgrade.recheck"
  /\ Goto("upgrading")
  /\ SameTime
  /\ UNCHANGED <<settings, users, caller, waited, attempts>>

\* The window is checked again, and the transaction starts.
UpgradeRecheck ==
  /\ pc = "upgrade.recheck"
  /\ Goto(IF AllowsDisruptive(clock, UpgradeEstimate, window) THEN "upgrading" ELSE "blocked")
  /\ SameTime
  /\ UNCHANGED <<settings, users, caller, waited, attempts>>

-----------------------------------------------------------------------------
(* evaluate().                                                              *)

Evaluate(for) == pc' = "evaluate" /\ caller' = for /\ waited' = 0

\* What the caller does with a decision: DEFER_MANUAL for its policy or for
\* what blocks, SKIP, REBOOT.
Decided(decision) ==
  Goto(CASE caller = "pending" /\ decision \in {"policy", "skip"} -> "verifying"
         [] caller = "pending" /\ decision = "reboot" -> "hooks"
         [] caller = "rebooting" /\ decision = "reboot" ->
              IF attempts = 0 THEN "prepare" ELSE "retry"
         [] caller = "retry" /\ decision = "reboot" -> "prepare"
         [] caller = "retry" /\ decision # "reboot" -> "failed"
         [] OTHER -> "blocked")

\* The policy asks for a reboot.
Asked == policy = "always" \/ (policy = "when_required" /\ required)

\* The policy, and whether anybody is logged in who matters.
Policy ==
  /\ pc = "evaluate"
  /\ \/ ~Asked /\ Decided(IF required THEN "policy" ELSE "skip") /\ UNCHANGED alone
     \/ Asked /\ (allowUsers \/ ~users) /\ Goto("window") /\ alone' = ~users
     \/ Asked /\ ~allowUsers /\ users /\ Goto("users") /\ UNCHANGED alone
  /\ UNCHANGED <<settings, clock, stage, users, caller, waited, attempts>>

\* WRONG: the last wait is not cut short.
WaitForUsers_WholePolls ==
  /\ pc = "users"
  /\ IF users /\ waited < UserTimeout
     THEN waited' = waited + UserPoll /\ Passes(UserPoll) /\ UNCHANGED pc
     ELSE Goto("users.last") /\ UNCHANGED <<waited, clock, stage, alone>>
  /\ UNCHANGED <<settings, users, caller, attempts>>

\* Another poll, the last one as long as is left.
WaitForUsers ==
  /\ pc = "users"
  /\ IF users /\ waited < UserTimeout
     THEN /\ LET left == UserTimeout - waited
                 d == IF UserPoll <= left THEN UserPoll ELSE left
             IN  waited' = waited + d /\ Passes(d)
          /\ UNCHANGED pc
     ELSE Goto("users.last") /\ UNCHANGED <<waited, clock, stage, alone>>
  /\ UNCHANGED <<settings, users, caller, attempts>>

LastLook ==
  /\ pc = "users.last"
  /\ IF users THEN Decided("users") /\ UNCHANGED alone
              ELSE Goto("window") /\ alone' = TRUE
  /\ UNCHANGED <<settings, clock, stage, users, caller, waited, attempts>>

CheckWindow ==
  /\ pc = "window"
  /\ Decided(IF AllowsDisruptive(clock, RebootEstimate, window) THEN "reboot" ELSE "window")
  /\ SameTime
  /\ UNCHANGED <<settings, users, caller, waited, attempts>>

-----------------------------------------------------------------------------
(* REBOOT_PENDING and REBOOTING.                                            *)

RebootPending ==
  /\ pc = "pending"
  /\ Evaluate("pending")
  /\ SameTime
  /\ UNCHANGED <<settings, users, attempts>>

\* The before_reboot hooks run, one may abort, and everything is evaluated
\* anew.
RebootHooks ==
  /\ pc = "hooks"
  /\ \E d \in 0 .. HookTimeout :
       /\ clock' = (clock + d) % Day
       /\ stage' = stage + d
       /\ alone' = FALSE
  /\ \/ Evaluate("rebooting")
     \/ Goto("blocked") /\ UNCHANGED <<caller, waited>>
  /\ UNCHANGED <<settings, users, attempts>>

\* The resume service is enabled and the boot is known, the facts are saved,
\* and the reboot is ordered.  A command that fails is repeated after a pause.
Prepare ==
  /\ pc = "prepare"
  /\ \/ /\ Goto("failed")
        /\ SameTime
        /\ UNCHANGED attempts
     \/ /\ attempts' = attempts + 1
        /\ Goto("down")
        /\ SameTime
     \/ /\ attempts' = attempts + 1
        /\ IF attempts' < MaxAttempts
           THEN Goto("retry") /\ Passes(RetryDelay)
           ELSE Goto("failed") /\ SameTime
  /\ UNCHANGED <<settings, users, caller, waited>>

\* WRONG: an attempt is repeated as it was.
Retry_AsBefore ==
  /\ pc = "retry"
  /\ Goto("prepare") /\ caller' = "retry"
  /\ SameTime
  /\ UNCHANGED <<settings, users, waited, attempts>>

\* Every attempt after the first is evaluated anew, also one of a later process.
Retry ==
  /\ pc = "retry"
  /\ Evaluate("retry")
  /\ SameTime
  /\ UNCHANGED <<settings, users, attempts>>

\* Somebody logs in, or the last one logs out.
UsersComeAndGo ==
  /\ pc \notin Ended
  /\ users' = ~users
  /\ UNCHANGED <<settings, clock, pc, caller, waited, attempts, stage, alone>>

Step ==
  \/ UpgradeGate \/ UpgradeHooks \/ UpgradeLockWait \/ UpgradeRecheck
  \/ RebootPending \/ Policy \/ WaitForUsers \/ LastLook \/ CheckWindow
  \/ RebootHooks \/ Prepare \/ Retry

Next == Step \/ UsersComeAndGo

Spec == Init /\ [][Next]_vars

-----------------------------------------------------------------------------
(* Properties.                                                              *)

Places ==
  {"upgrade.gate", "upgrade.hooks", "upgrade.lock", "upgrade.recheck", "pending", "evaluate",
   "users", "users.last", "window", "hooks", "prepare", "retry"} \cup Ended

TypeOK ==
  /\ window \in Configured
  /\ policy \in Policies /\ required \in BOOLEAN /\ allowUsers \in BOOLEAN
  /\ clock \in TimeOfDay
  /\ users \in BOOLEAN
  /\ pc \in Places
  /\ caller \in {"nobody", "pending", "rebooting", "retry"}
  /\ waited \in 0 .. UserTimeout
  /\ attempts \in 0 .. MaxAttempts
  /\ stage \in Nat
  /\ alone \in BOOLEAN

\* The package transaction starts and a reboot is ordered only when all of
\* the time they are estimated to take lies in one opening of the window,
\* however long hooks, locks, users and failed attempts kept the cycle.
DisruptionFitsWindow ==
  [][/\ (pc # "upgrading" /\ pc' = "upgrading") => FitsOpening(clock, UpgradeEstimate, window)
     /\ attempts' # attempts => FitsOpening(clock, RebootEstimate, window)]_vars

\* A reboot is ordered only when the policy asks for it and, unless users do
\* not matter, nobody was logged in at a look that no wait followed.
RebootIsWanted ==
  [][attempts' # attempts =>
       /\ policy = "always" \/ (policy = "when_required" /\ required)
       /\ allowUsers \/ alone]_vars

\* However users come and go and attempts fail, a process ends REBOOTING in
\* bounded time, whatever attempts it takes over: the hooks, a wait for users
\* and a pause for every attempt.
RebootingIsBounded ==
  stage <= HookTimeout + MaxAttempts * UserTimeout + (MaxAttempts - 1) * RetryDelay
=============================================================================
