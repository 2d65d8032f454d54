-------------------------- MODULE Disruption_proofs --------------------------
(***************************************************************************)
(* What Disruption promises, for every length of the day, every set of     *)
(* windows, every estimate and every timeout.                              *)
(***************************************************************************)
EXTENDS Disruption, TLAPS

\* The arithmetic of window.py says exactly that the whole action lies in one
\* opening of the window, at every time of day, for a window that starts
\* before it ends, overnight or at the same time (window.py:25-52).
THEOREM WindowIsExact ==
  ASSUME NEW t \in TimeOfDay, NEW estimate \in Nat, NEW w \in Windows
  PROVE  AllowsDisruptive(t, estimate, w) <=> FitsOpening(t, estimate, w)
<1>1. CASE w = NoWindow
  BY <1>1 DEF AllowsDisruptive, FitsOpening, NoWindow
<1>2. ASSUME NEW s \in TimeOfDay, NEW e \in TimeOfDay, w = Window(s, e)
      PROVE  AllowsDisruptive(t, estimate, w) <=> FitsOpening(t, estimate, w)
  <2>0. Day \in Nat /\ t \in Int /\ s \in Int /\ e \in Int /\ estimate \in Int
        /\ 0 <= t /\ t < Day /\ 0 <= s /\ s < Day /\ 0 <= e /\ e < Day /\ 0 <= estimate
    BY DayAssumption DEF TimeOfDay
  <2>w. w.configured = TRUE /\ w.start = s /\ w.end = e
    BY <1>2 DEF Window
  <2>1. FitsOpening(t, estimate, w) <=>
          \/ s - Day <= t /\ t + estimate <= e - Day + (IF e < s THEN Day ELSE 0)
          \/ s <= t /\ t + estimate <= e + (IF e < s THEN Day ELSE 0)
    BY <2>0, <2>w DEF FitsOpening
  <2>2. AllowsDisruptive(t, estimate, w) <=>
          Remaining(t, s, e) # Outside /\ estimate <= Remaining(t, s, e)
    BY <2>w DEF AllowsDisruptive
  <2>3. CASE s <= e
    <3>1. Remaining(t, s, e) = IF s <= t /\ t <= e THEN e - t ELSE -1
      BY <2>3 DEF Remaining, Outside
    <3> QED BY <2>0, <2>1, <2>2, <2>3, <3>1 DEF Outside
  <2>4. CASE e < s
    <3>1. Remaining(t, s, e) = IF t >= s THEN (Day - t) + e ELSE IF t <= e THEN e - t ELSE -1
      BY <2>0, <2>4 DEF Remaining, Outside
    <3> QED BY <2>0, <2>1, <2>2, <2>4, <3>1 DEF Outside
  <2> QED BY <2>0, <2>3, <2>4
<1> QED BY <1>1, <1>2 DEF Windows

-----------------------------------------------------------------------------
(* The inductive invariant: the types, and what the gates have found out so *)
(* far.                                                                     *)

\* Past the policy the reboot is asked for; past the users nobody is in the
\* way; a reboot is prepared at a time of day at which it may start; and as
\* long as REBOOTING goes on another attempt is left.
Found ==
  /\ pc \in {"users", "users.last", "window", "prepare"} => Asked
  /\ pc \in {"window", "prepare"} => allowUsers \/ alone
  /\ pc = "prepare" => AllowsDisruptive(clock, RebootEstimate, window)
  /\ pc \notin Ended => attempts < MaxAttempts

Inv == TypeOK /\ Found

LEMMA LaterIsATimeOfDay ==
  ASSUME NEW t \in TimeOfDay, NEW d \in Nat
  PROVE  (t + d) % Day \in TimeOfDay
BY DayAssumption DEF TimeOfDay

LEMMA InitInv == Init => Inv
<1> SUFFICES ASSUME Init PROVE Inv
  OBVIOUS
<1> USE DisruptionAssumption
<1>1. /\ 0 \in 0 .. UserTimeout /\ 0 \in 0 .. MaxAttempts /\ 0 < MaxAttempts /\ 0 \in Nat
      /\ \A n \in 0 .. MaxAttempts - 1 : n \in 0 .. MaxAttempts /\ n < MaxAttempts
  OBVIOUS
<1>2. TypeOK
  BY <1>1 DEF Init, TypeOK, Places
<1>3. Found
  BY <1>1 DEF Init, Found, Ended
<1> QED BY <1>2, <1>3 DEF Inv

\* What Decided can make of a decision.
LEMMA WhereDecisionsLead ==
  ASSUME NEW decision, Decided(decision)
  PROVE  /\ pc' \in Places
         /\ pc' \notin {"users", "users.last", "window", "upgrading"}
         /\ pc' = "prepare" => decision = "reboot"
BY DEF Decided, Goto, Places, Ended

\* What the passing of time leaves of the types.
LEMMA TimePasses ==
  ASSUME TypeOK, NEW d \in Nat, Passes(d)
  PROVE  clock' \in TimeOfDay /\ stage' \in Nat /\ alone' = FALSE
<1>1. clock' \in TimeOfDay
  BY LaterIsATimeOfDay DEF Passes, TypeOK
<1>2. stage' \in Nat
  BY DEF Passes, TypeOK
<1> QED BY <1>1, <1>2 DEF Passes

\* A poll for users never waits longer than is left.
LEMMA WaitPasses ==
  ASSUME TypeOK, waited < UserTimeout,
         NEW d, d = (IF UserPoll <= UserTimeout - waited THEN UserPoll ELSE UserTimeout - waited)
  PROVE  d \in Nat /\ waited + d \in 0 .. UserTimeout
BY DisruptionAssumption DEF TypeOK

LEMMA UpgradeKeepsInv ==
  ASSUME Inv, UpgradeGate \/ UpgradeHooks \/ UpgradeLockWait \/ UpgradeRecheck
  PROVE  Inv'
<1> USE DisruptionAssumption
<1>1. CASE UpgradeGate
  BY <1>1 DEF Inv, UpgradeGate, TypeOK, Found, Places, Ended, Goto, SameTime, settings, Asked
<1>2. CASE UpgradeHooks
  <2>1. PICK d \in 0 .. HookTimeout : Passes(d)
    BY <1>2 DEF UpgradeHooks
  <2>0. d \in Nat
    OBVIOUS
  <2>2. clock' \in TimeOfDay /\ stage' \in Nat /\ alone' = FALSE
    BY <2>0, <2>1, TimePasses, Zenon DEF Inv
  <2> QED BY <1>2, <2>2 DEF Inv, UpgradeHooks, TypeOK, Found, Places, Ended, settings, Asked
<1>3. CASE UpgradeLockWait
  <2>1. PICK d \in 0 .. LockTimeout : Passes(d)
    BY <1>3 DEF UpgradeLockWait
  <2>0. d \in Nat
    OBVIOUS
  <2>2. clock' \in TimeOfDay /\ stage' \in Nat /\ alone' = FALSE
    BY <2>0, <2>1, TimePasses, Zenon DEF Inv
  <2> QED BY <1>3, <2>2 DEF Inv, UpgradeLockWait, TypeOK, Found, Places, Ended, settings, Asked
<1>4. CASE UpgradeRecheck
  BY <1>4 DEF Inv, UpgradeRecheck, TypeOK, Found, Places, Ended, Goto, SameTime, settings, Asked
<1> QED BY <1>1, <1>2, <1>3, <1>4

LEMMA EvaluateKeepsInv ==
  ASSUME Inv, Policy \/ WaitForUsers \/ LastLook \/ CheckWindow
  PROVE  Inv'
<1> USE DisruptionAssumption
<1>1. CASE Policy
  <2>1. CASE ~Asked /\ Decided(IF required THEN "policy" ELSE "skip") /\ UNCHANGED alone
    <3>1. pc' \in Places /\ pc' \notin {"users", "users.last", "window", "prepare"}
      BY <2>1, WhereDecisionsLead
    <3> QED BY <1>1, <2>1, <3>1 DEF Inv, Policy, TypeOK, Found, Ended, settings
  <2>2. CASE Asked /\ (allowUsers \/ ~users) /\ Goto("window") /\ alone' = ~users
    BY <1>1, <2>2 DEF Inv, Policy, TypeOK, Found, Places, Ended, Goto, settings, Asked
  <2>3. CASE Asked /\ ~allowUsers /\ users /\ Goto("users") /\ UNCHANGED alone
    BY <1>1, <2>3 DEF Inv, Policy, TypeOK, Found, Places, Ended, Goto, settings, Asked
  <2> QED BY <1>1, <2>1, <2>2, <2>3 DEF Policy
<1>2. CASE WaitForUsers
  <2>1. CASE users /\ waited < UserTimeout
    <3> DEFINE left == UserTimeout - waited
               d == IF UserPoll <= left THEN UserPoll ELSE left
    <3>1. d \in Nat /\ waited + d \in 0 .. UserTimeout
      BY <2>1, WaitPasses DEF Inv
    <3>2. waited' = waited + d /\ Passes(d) /\ UNCHANGED <<pc, settings, users, caller, attempts>>
      BY <1>2, <2>1 DEF WaitForUsers
    <3>3. clock' \in TimeOfDay /\ stage' \in Nat /\ alone' = FALSE
      BY <3>1, <3>2, TimePasses DEF Inv
    <3>4. pc = "users"
      BY <1>2 DEF WaitForUsers
    <3> HIDE DEF d
    <3> QED BY <3>1, <3>2, <3>3, <3>4 DEF Inv, TypeOK, Found, Places, Ended, settings, Asked
  <2>2. CASE ~(users /\ waited < UserTimeout)
    BY <1>2, <2>2 DEF Inv, WaitForUsers, TypeOK, Found, Places, Ended, Goto, settings, Asked
  <2> QED BY <2>1, <2>2
<1>3. CASE LastLook
  <2>1. CASE users
    <3>1. Decided("users") /\ UNCHANGED alone
      BY <1>3, <2>1 DEF LastLook
    <3>2. pc' \in Places /\ pc' \notin {"users", "users.last", "window", "prepare"}
      BY <3>1, WhereDecisionsLead
    <3> QED BY <1>3, <3>1, <3>2 DEF Inv, LastLook, TypeOK, Found, Ended, settings
  <2>2. CASE ~users
    BY <1>3, <2>2 DEF Inv, LastLook, TypeOK, Found, Places, Ended, Goto, settings, Asked
  <2> QED BY <2>1, <2>2
<1>4. CASE CheckWindow
  <2>1. pc' \in Places /\ pc' \notin {"users", "users.last", "window"}
    BY <1>4, WhereDecisionsLead DEF CheckWindow
  <2>2. pc' = "prepare" => AllowsDisruptive(clock, RebootEstimate, window)
    BY <1>4, WhereDecisionsLead DEF CheckWindow
  <2> QED BY <1>4, <2>1, <2>2 DEF Inv, CheckWindow, TypeOK, Found, Ended, SameTime, settings, Asked
<1> QED BY <1>1, <1>2, <1>3, <1>4

LEMMA RebootKeepsInv ==
  ASSUME Inv, RebootPending \/ RebootHooks \/ Prepare \/ Retry
  PROVE  Inv'
<1> USE DisruptionAssumption
<1>1. CASE RebootPending
  BY <1>1 DEF Inv, RebootPending, TypeOK, Found, Places, Ended, Evaluate, SameTime, settings
<1>2. CASE RebootHooks
  <2>1. PICK d \in 0 .. HookTimeout :
          clock' = (clock + d) % Day /\ stage' = stage + d /\ alone' = FALSE
    BY <1>2 DEF RebootHooks
  <2>2. clock' \in TimeOfDay
    BY <2>1, LaterIsATimeOfDay DEF Inv, TypeOK
  <2>3. stage' \in Nat /\ alone' = FALSE
    BY <2>1 DEF Inv, TypeOK
  <2>4. UNCHANGED <<settings, users, attempts>> /\ pc = "hooks"
    BY <1>2 DEF RebootHooks
  <2>5. CASE Evaluate("rebooting")
    <3>1. 0 \in 0 .. UserTimeout
      OBVIOUS
    <3> QED BY <2>2, <2>3, <2>4, <2>5, <3>1 DEF Inv, TypeOK, Found, Places, Ended, Evaluate, settings
  <2>6. CASE Goto("blocked") /\ UNCHANGED <<caller, waited>>
    BY <2>2, <2>3, <2>4, <2>6 DEF Inv, TypeOK, Found, Places, Ended, Goto, settings
  <2> QED BY <1>2, <2>5, <2>6 DEF RebootHooks
<1>3. CASE Prepare
  <2>0. pc = "prepare" /\ attempts < MaxAttempts /\ UNCHANGED <<settings, users, caller, waited>>
    BY <1>3 DEF Inv, Prepare, Found, Ended
  <2>1. CASE Goto("failed") /\ SameTime /\ UNCHANGED attempts
    BY <1>3, <2>1 DEF Inv, Prepare, TypeOK, Found, Places, Ended, Goto, SameTime, settings
  <2>2. CASE attempts' = attempts + 1 /\ Goto("down") /\ SameTime
    BY <1>3, <2>2 DEF Inv, Prepare, TypeOK, Found, Places, Ended, Goto, SameTime, settings
  <2>3. CASE attempts' = attempts + 1 /\ attempts' < MaxAttempts /\ Goto("retry") /\ Passes(RetryDelay)
    <3>1. clock' \in TimeOfDay /\ stage' \in Nat /\ alone' = FALSE
      BY <2>3, TimePasses DEF Inv
    <3>2. attempts' \in 0 .. MaxAttempts
      BY <2>3, <2>0 DEF Inv, TypeOK
    <3> QED BY <2>3, <2>0, <3>1, <3>2 DEF Inv, TypeOK, Found, Places, Ended, Goto, settings
  <2>4. CASE attempts' = attempts + 1 /\ ~(attempts' < MaxAttempts) /\ Goto("failed") /\ SameTime
    BY <1>3, <2>4 DEF Inv, Prepare, TypeOK, Found, Places, Ended, Goto, SameTime, settings
  <2> QED BY <1>3, <2>1, <2>2, <2>3, <2>4 DEF Prepare
<1>4. CASE Retry
  BY <1>4 DEF Inv, Retry, TypeOK, Found, Places, Ended, Evaluate, SameTime, settings
<1> QED BY <1>1, <1>2, <1>3, <1>4

LEMMA NextKeepsInv == Inv /\ [Next]_vars => Inv'
<1> SUFFICES ASSUME Inv, [Next]_vars PROVE Inv'
  OBVIOUS
<1>1. CASE UsersComeAndGo
  BY <1>1 DEF Inv, UsersComeAndGo, TypeOK, Found, settings, Asked
<1>2. CASE UNCHANGED vars
  BY <1>2 DEF Inv, vars, TypeOK, Found, settings, Asked
<1> QED BY <1>1, <1>2, UpgradeKeepsInv, EvaluateKeepsInv, RebootKeepsInv DEF Next, Step

LEMMA SpecInv == Spec => []Inv
BY InitInv, NextKeepsInv, PTL DEF Spec

-----------------------------------------------------------------------------
(* The theorems.                                                            *)

\* Every state of every gate is of its type; in particular the wait for users
\* never exceeds its timeout nor the attempts their budget (reboot.py:58-67,
\* 90-119).
THEOREM TypesHold == Spec => []TypeOK
BY SpecInv, PTL DEF Inv

\* Which step starts the transaction, and under which condition.
LEMMA UpgradeStarts ==
  ASSUME Inv, [Next]_vars, pc # "upgrading", pc' = "upgrading"
  PROVE  AllowsDisruptive(clock, UpgradeEstimate, window)
<1>1. CASE UpgradeGate \/ UpgradeHooks \/ UpgradeLockWait \/ UpgradeRecheck
  BY <1>1 DEF UpgradeGate, UpgradeHooks, UpgradeLockWait, UpgradeRecheck, Goto
<1>2. CASE Policy \/ WaitForUsers \/ LastLook \/ CheckWindow
  BY <1>2, WhereDecisionsLead DEF Policy, WaitForUsers, LastLook, CheckWindow, Goto
<1>3. CASE RebootPending \/ RebootHooks \/ Prepare \/ Retry
  BY <1>3 DEF RebootPending, RebootHooks, Prepare, Retry, Evaluate, Goto
<1>4. CASE UsersComeAndGo \/ UNCHANGED vars
  BY <1>4 DEF UsersComeAndGo, vars
<1> QED BY <1>1, <1>2, <1>3, <1>4 DEF Next, Step

\* Only Prepare attempts a reboot.
LEMMA OnlyPrepareAttempts ==
  ASSUME [Next]_vars, attempts' # attempts
  PROVE  pc = "prepare"
BY DEF Next, Step, UpgradeGate, UpgradeHooks, UpgradeLockWait, UpgradeRecheck, RebootPending, Policy,
       WaitForUsers, LastLook, CheckWindow, RebootHooks, Prepare, Retry, UsersComeAndGo, vars

\* A package transaction starts, and a reboot is ordered, only when all of the
\* estimated time lies in one opening of the window (engine.py:344-346,
\* 396-403; reboot.py:68-72, 91-96).
THEOREM DisruptionsFit == Spec => DisruptionFitsWindow
<1>1. ASSUME Inv, [Next]_vars
      PROVE  /\ (pc # "upgrading" /\ pc' = "upgrading") => FitsOpening(clock, UpgradeEstimate, window)
             /\ attempts' # attempts => FitsOpening(clock, RebootEstimate, window)
  <2>1. clock \in TimeOfDay /\ window \in Windows /\ UpgradeEstimate \in Nat /\ RebootEstimate \in Nat
    BY <1>1, DisruptionAssumption DEF Inv, TypeOK
  <2>2. ASSUME pc # "upgrading", pc' = "upgrading"
        PROVE  FitsOpening(clock, UpgradeEstimate, window)
    BY <1>1, <2>1, <2>2, UpgradeStarts, WindowIsExact
  <2>3. ASSUME attempts' # attempts
        PROVE  FitsOpening(clock, RebootEstimate, window)
    BY <1>1, <2>1, <2>3, OnlyPrepareAttempts, WindowIsExact DEF Inv, Found
  <2> QED BY <2>2, <2>3
<1> QED BY <1>1, SpecInv, PTL DEF Spec, DisruptionFitsWindow

\* A reboot is ordered only when the policy asks for it, and nobody who
\* matters was logged in at a look that no wait followed (reboot.py:51-67).
THEOREM RebootsAreWanted == Spec => RebootIsWanted
<1>1. ASSUME Inv, [Next]_vars
      PROVE  attempts' # attempts =>
               /\ policy = "always" \/ (policy = "when_required" /\ required)
               /\ allowUsers \/ alone
  BY <1>1, OnlyPrepareAttempts DEF Inv, Found, Asked
<1> QED BY <1>1, SpecInv, PTL DEF Spec, RebootIsWanted

-----------------------------------------------------------------------------
(* How long REBOOTING takes.  An attempt adds at most a wait for users and a *)
(* pause; the time of the wait that goes on is told apart, since Retry ends  *)
(* an attempt before the next wait begins.                                   *)

Round == UserTimeout + RetryDelay
AllRounds == HookTimeout + MaxAttempts * UserTimeout + (MaxAttempts - 1) * RetryDelay

Upgrading == {"upgrade.gate", "upgrade.hooks", "upgrade.lock", "upgrade.recheck"}
Rebooting == {"rebooting", "retry"}

\* Who asks at which place.
Callers ==
  /\ pc \in Upgrading \cup {"pending"} => caller = "nobody"
  /\ pc = "hooks" => caller = "pending"
  /\ pc \in {"prepare", "retry"} => caller \in Rebooting

Evaluating == {"evaluate", "users", "users.last", "window", "prepare"}

\* The time spent so far: none before the hooks, and then a round for each
\* attempt on top of theirs, and what of a wait there is since the last.  The
\* first evaluation comes before any round, whatever attempts were taken over.
Spent ==
  /\ caller \notin Rebooting /\ pc \notin Ended => stage = 0
  /\ caller = "rebooting" /\ pc \in Evaluating => stage <= HookTimeout + waited
  /\ pc \notin Ended => stage <= HookTimeout + attempts * Round + (IF pc = "retry" THEN 0 ELSE waited)
  /\ pc \in Ended => stage <= AllRounds

TimedInv == Inv /\ Callers /\ Spent

LEMMA OneMoreRound ==
  ASSUME NEW n \in Nat, NEW r \in Nat
  PROVE  n * r \in Nat /\ (n + 1) * r = n * r + r
OBVIOUS

\* A wait that is within its time, after fewer attempts than there may be, is
\* within the bound.
LEMMA WithinAllRounds ==
  ASSUME NEW n \in Nat, n < MaxAttempts, NEW w \in 0 .. UserTimeout, NEW t \in Nat,
         t <= HookTimeout + n * Round + w
  PROVE  t <= AllRounds
<1> USE DisruptionAssumption
<1>1. UserTimeout \in Nat /\ RetryDelay \in Nat /\ HookTimeout \in Nat /\ MaxAttempts - 1 \in Nat
      /\ n <= MaxAttempts - 1 /\ Round \in Nat
  BY DEF Round
<1>2. \A a, b, r \in Nat : a <= b => a * r <= b * r
  OBVIOUS
<1>3. n * Round <= (MaxAttempts - 1) * Round
  BY <1>1, <1>2
<1>4. (MaxAttempts - 1) * Round = (MaxAttempts - 1) * UserTimeout + (MaxAttempts - 1) * RetryDelay
  BY <1>1 DEF Round
<1>5. (MaxAttempts - 1) * UserTimeout + UserTimeout = MaxAttempts * UserTimeout
  BY <1>1
<1>6. /\ n * Round \in Nat /\ (MaxAttempts - 1) * Round \in Nat /\ MaxAttempts * UserTimeout \in Nat
      /\ (MaxAttempts - 1) * UserTimeout \in Nat /\ (MaxAttempts - 1) * RetryDelay \in Nat
  BY <1>1
<1> QED BY <1>1, <1>3, <1>4, <1>5, <1>6 DEF AllRounds

\* Whatever does not end within REBOOTING is within the bound by now.
LEMMA SpentSoFar ==
  ASSUME TimedInv
  PROVE  stage <= AllRounds
<1>1. CASE pc \in Ended
  BY <1>1 DEF TimedInv, Spent
<1>2. CASE pc \notin Ended
  <2>1. PICK w \in 0 .. UserTimeout : stage <= HookTimeout + attempts * Round + w
    <3>1. 0 \in 0 .. UserTimeout /\ waited \in 0 .. UserTimeout
      BY DisruptionAssumption DEF TimedInv, Inv, TypeOK
    <3> QED BY <1>2, <3>1 DEF TimedInv, Spent
  <2>2. attempts \in Nat /\ attempts < MaxAttempts /\ stage \in Nat
    BY <1>2 DEF TimedInv, Inv, TypeOK, Found
  <2> QED BY <2>1, <2>2, WithinAllRounds
<1> QED BY <1>1, <1>2

LEMMA InitTimed == Init => TimedInv
<1> SUFFICES ASSUME Init PROVE TimedInv
  OBVIOUS
<1>1. HookTimeout \in Nat /\ Round \in Nat
  BY DisruptionAssumption DEF Round
<1>2. stage <= HookTimeout + attempts * Round + 0
  <2>1. attempts \in Nat /\ stage = 0
    BY InitInv DEF Init, Inv, TypeOK
  <2> QED BY <1>1, <2>1, OneMoreRound
<1> QED BY <1>2, InitInv DEF Init, TimedInv, Callers, Spent, Ended, Upgrading, Rebooting, Evaluating

\* A step that takes no time, and attempts nothing.
LEMMA InNoTime ==
  ASSUME TimedInv, Callers', UNCHANGED <<stage, attempts, waited, caller>>,
         pc \notin Ended, pc # "retry", pc' # "retry",
         pc' \in Evaluating => pc \in Evaluating
  PROVE  Spent'
<1>1. CASE pc' \in Ended
  BY <1>1, SpentSoFar DEF Spent, AllRounds, Evaluating, Ended
<1>2. CASE pc' \notin Ended
  BY <1>2 DEF TimedInv, Spent
<1> QED BY <1>1, <1>2

LEMMA UpgradeKeepsTimed ==
  ASSUME TimedInv, UpgradeGate \/ UpgradeHooks \/ UpgradeLockWait \/ UpgradeRecheck
  PROVE  Callers' /\ Spent'
<1>1. caller = "nobody" /\ UNCHANGED <<caller, waited, attempts>>
  BY DEF TimedInv, Callers, Upgrading, UpgradeGate, UpgradeHooks, UpgradeLockWait, UpgradeRecheck
<1>2. pc' \in Upgrading \cup Ended /\ pc \in Upgrading
  BY DEF UpgradeGate, UpgradeHooks, UpgradeLockWait, UpgradeRecheck, Goto, Upgrading, Ended
<1>3. UNCHANGED stage
  BY <1>1 DEF UpgradeGate, UpgradeHooks, UpgradeLockWait, UpgradeRecheck, SameTime, Passes
<1>4. Callers'
  BY <1>1, <1>2 DEF Callers, Upgrading, Ended
<1>5. pc \notin Ended /\ pc # "retry" /\ pc' # "retry" /\ pc' \notin Evaluating
  BY <1>2 DEF Upgrading, Ended, Evaluating
<1> QED BY <1>1, <1>3, <1>4, <1>5, InNoTime

\* Where evaluate() can lead, and for whom.
LEMMA DecidedKeepsCallers ==
  ASSUME TimedInv, NEW decision, Decided(decision), UNCHANGED caller
  PROVE  /\ Callers'
         /\ pc' = "retry" => caller = "rebooting" /\ attempts # 0
BY DEF TimedInv, Callers, Decided, Goto, Upgrading, Rebooting

LEMMA EvaluateKeepsTimed ==
  ASSUME TimedInv, Policy \/ WaitForUsers \/ LastLook \/ CheckWindow
  PROVE  Callers' /\ Spent'
<1>0. pc \in {"evaluate", "users", "users.last", "window"} /\ pc \notin Ended
      /\ UNCHANGED <<caller, attempts>> /\ pc # "retry" /\ pc \in Evaluating
  BY DEF Policy, WaitForUsers, LastLook, CheckWindow, Ended, Evaluating
<1>1. Callers' /\ (pc' = "retry" => caller = "rebooting" /\ attempts # 0)
  <2>1. \/ \E decision : Decided(decision)
        \/ pc' \in {"window", "users", "users.last"}
    BY <1>0 DEF Policy, WaitForUsers, LastLook, CheckWindow, Goto
  <2>2. CASE pc' \in {"window", "users", "users.last"}
    BY <2>2 DEF Callers, Upgrading
  <2> QED BY <1>0, <2>1, <2>2, DecidedKeepsCallers
<1>2. CASE UNCHANGED <<stage, waited>>
  <2>1. CASE pc' # "retry"
    BY <1>0, <1>1, <1>2, <2>1, InNoTime
  <2>2. CASE pc' = "retry"
    <3>1. stage <= HookTimeout + waited /\ caller = "rebooting"
      BY <1>0, <1>1, <2>2 DEF TimedInv, Spent
    <3>2. /\ stage \in Nat /\ HookTimeout \in Nat /\ waited \in 0 .. UserTimeout
          /\ UserTimeout \in Nat /\ RetryDelay \in Nat /\ attempts \in Nat \ {0} /\ Round \in Nat
      BY <1>1, <2>2, DisruptionAssumption DEF TimedInv, Inv, TypeOK, Round
    <3>3. Round <= attempts * Round /\ attempts * Round \in Nat
      <4>1. \A n \in Nat \ {0} : \A x \in Nat : x <= n * x /\ n * x \in Nat
        OBVIOUS
      <4> QED BY <3>2, <4>1
    <3>4. stage <= HookTimeout + attempts * Round + 0
      BY <3>1, <3>2, <3>3 DEF Round
    <3>5. stage' <= HookTimeout + attempts' * Round + 0
      BY <1>0, <1>2, <3>4, Zenon DEF Round
    <3>6. caller' \in Rebooting /\ pc' \notin Ended /\ pc' \notin Evaluating
      BY <1>0, <2>2, <3>1 DEF Rebooting, Evaluating, Ended
    <3> QED BY <1>1, <2>2, <3>5, <3>6, Zenon DEF Spent
  <2> QED BY <2>1, <2>2
<1>3. CASE WaitForUsers /\ users /\ waited < UserTimeout
  <2> DEFINE d == IF UserPoll <= UserTimeout - waited THEN UserPoll ELSE UserTimeout - waited
  <2>1. d \in Nat /\ waited' = waited + d /\ Passes(d) /\ pc' = "users" /\ pc = "users"
    BY <1>3, WaitPasses DEF WaitForUsers, TimedInv, Inv
  <2>2. stage \in Nat /\ waited \in Nat /\ attempts * Round \in Nat /\ HookTimeout \in Nat
    <3>1. attempts \in Nat /\ Round \in Nat
      BY DisruptionAssumption DEF TimedInv, Inv, TypeOK, Round
    <3> QED BY <3>1, OneMoreRound, DisruptionAssumption DEF TimedInv, Inv, TypeOK
  <2>3. stage' <= stage + d /\ (caller \notin Rebooting => stage' = stage)
    BY <2>1, <2>2 DEF Passes, Rebooting, TimedInv, Inv, TypeOK
  <2>4. stage <= HookTimeout + attempts * Round + waited
    BY <1>0, <2>1 DEF TimedInv, Spent
  <2> HIDE DEF d
  <2>5. stage' \in Nat
    BY <2>1, <2>2 DEF Passes
  <2>7. caller = "rebooting" => stage' <= HookTimeout + waited'
    <3>1. caller = "rebooting" => stage <= HookTimeout + waited
      BY <1>0 DEF TimedInv, Spent
    <3> QED BY <2>1, <2>2, <2>3, <2>5, <3>1
  <2>6. stage' <= HookTimeout + attempts * Round + waited'
    <3>1. \A s, t, x, a, w, h \in Nat : s <= h + a + w /\ t <= s + x => t <= h + a + (w + x)
      OBVIOUS
    <3> QED BY <2>1, <2>2, <2>3, <2>4, <2>5, <3>1
  <2> QED BY <1>0, <1>1, <2>1, <2>3, <2>6, <2>7 DEF TimedInv, Spent, Ended
<1> QED BY <1>2, <1>3 DEF Policy, WaitForUsers, LastLook, CheckWindow, SameTime

LEMMA RebootKeepsTimed ==
  ASSUME TimedInv, RebootPending \/ RebootHooks \/ Prepare \/ Retry
  PROVE  Callers' /\ Spent'
<1>t. /\ stage \in Nat /\ attempts \in Nat /\ waited \in 0 .. UserTimeout /\ waited \in Nat
      /\ HookTimeout \in Nat /\ UserTimeout \in Nat /\ RetryDelay \in Nat /\ Round \in Nat
      /\ attempts * Round \in Nat
  <2>1. attempts \in Nat /\ Round \in Nat
    BY DisruptionAssumption DEF TimedInv, Inv, TypeOK, Round
  <2> QED BY <2>1, OneMoreRound, DisruptionAssumption DEF TimedInv, Inv, TypeOK
<1>1. CASE RebootPending
  <2>1. stage = 0 /\ caller = "nobody"
    BY <1>1 DEF RebootPending, TimedInv, Callers, Spent, Ended, Rebooting
  <2>2. 0 <= HookTimeout + attempts * Round + 0
    BY <1>t
  <2> QED BY <1>1, <2>1, <2>2 DEF RebootPending, Evaluate, SameTime, Callers, Spent, Upgrading,
             Rebooting, Evaluating, Ended
<1>2. CASE RebootHooks
  <2>1. stage = 0 /\ attempts' = attempts /\ attempts < MaxAttempts
    BY <1>2 DEF RebootHooks, TimedInv, Inv, Found, Callers, Spent, Ended, Rebooting
  <2>2. stage' \in Nat /\ stage' <= HookTimeout
    BY <1>2, <1>t, <2>1 DEF RebootHooks
  <2>3. stage' <= HookTimeout + attempts * Round + 0 /\ stage' <= HookTimeout + 0
    BY <1>t, <2>2
  <2>4. stage' <= AllRounds
    <3>1. 0 \in 0 .. UserTimeout
      BY DisruptionAssumption
    <3> QED BY <1>t, <2>1, <2>2, <2>3, <3>1, WithinAllRounds
  <2>5. CASE Evaluate("rebooting")
    BY <2>1, <2>3, <2>5 DEF Evaluate, Callers, Spent, Upgrading, Rebooting, Evaluating, Ended
  <2>6. CASE Goto("blocked")
    BY <2>4, <2>6 DEF Goto, Callers, Spent, Upgrading, Evaluating, Ended
  <2> QED BY <1>2, <2>5, <2>6 DEF RebootHooks
<1>3. CASE Prepare
  <2>1. pc = "prepare" /\ caller \in Rebooting /\ UNCHANGED <<caller, waited>> /\ pc \notin Ended
    BY <1>3 DEF Prepare, TimedInv, Callers, Ended
  <2>2. CASE pc' \in {"failed", "down"} /\ UNCHANGED stage
    BY <2>2, SpentSoFar DEF Callers, Spent, AllRounds, Upgrading, Evaluating, Ended
  <2>3. CASE attempts' = attempts + 1 /\ Goto("retry") /\ Passes(RetryDelay)
    <3>1. stage' = stage + RetryDelay
      BY <2>1, <2>3 DEF Passes, Rebooting
    <3>2. stage <= HookTimeout + attempts * Round + waited
      BY <2>1 DEF TimedInv, Spent
    <3>3. (attempts + 1) * Round = attempts * Round + Round
      BY <1>t, OneMoreRound
    <3>4. stage' <= HookTimeout + attempts' * Round
      BY <1>t, <2>3, <3>1, <3>2, <3>3 DEF Round
    <3>5. stage' <= HookTimeout + attempts' * Round + 0
      <4>1. attempts' \in Nat
        BY <1>t, <2>3
      <4> QED BY <1>t, <3>4, <4>1, OneMoreRound
    <3> QED BY <2>1, <2>3, <3>5 DEF Goto, Callers, Spent, Upgrading, Rebooting, Evaluating, Ended
  <2> QED BY <1>3, <2>2, <2>3 DEF Prepare, Goto, SameTime
<1>4. CASE Retry
  <2>1. pc = "retry" /\ caller \in Rebooting /\ pc' = "evaluate" /\ caller' = "retry" /\ waited' = 0
        /\ UNCHANGED <<stage, attempts>>
    BY <1>4 DEF Retry, Evaluate, SameTime, TimedInv, Callers
  <2> QED BY <2>1 DEF TimedInv, Callers, Spent, Upgrading, Rebooting, Ended
<1> QED BY <1>1, <1>2, <1>3, <1>4

LEMMA NextKeepsTimed == TimedInv /\ [Next]_vars => TimedInv'
<1> SUFFICES ASSUME TimedInv, [Next]_vars PROVE Callers' /\ Spent'
  BY NextKeepsInv DEF TimedInv
<1>1. CASE UsersComeAndGo \/ UNCHANGED vars
  BY <1>1 DEF UsersComeAndGo, vars, TimedInv, Callers, Spent, AllRounds
<1> QED BY <1>1, UpgradeKeepsTimed, EvaluateKeepsTimed, RebootKeepsTimed DEF Next, Step

\* However users come and go and attempts fail, a process ends REBOOTING within
\* the time of the hooks, a wait for users for every attempt and a pause between
\* two, whatever attempts it takes over from an earlier one
\* (reboot.py:57-67, 90-119; engine.py:396-415).
THEOREM RebootingEndsInTime == Spec => []RebootingIsBounded
<1>1. Init => TimedInv
  BY InitTimed
<1>2. TimedInv /\ [Next]_vars => TimedInv'
  BY NextKeepsTimed
<1>3. TimedInv => RebootingIsBounded
  BY SpentSoFar DEF RebootingIsBounded, AllRounds
<1> QED BY <1>1, <1>2, <1>3, PTL DEF Spec
=============================================================================
