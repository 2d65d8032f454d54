----------------------------- MODULE Gates_proofs -----------------------------
(***************************************************************************)
(* What a command may do to the call that runs it, and to the gate of a    *)
(* cycle that rests on its result, for every set of descendants, every     *)
(* timeout and everything that may be configured at a point.               *)
(***************************************************************************)
EXTENDS Gates, TLAPS

-----------------------------------------------------------------------------
(* One command: the invariant of Subprocess.                                *)

Codes == {"signal", "exit-0", "exit-1"}

CallTypes ==
  /\ call \in {"none"} \cup Waiting \cup Answers
  /\ left \in Nat /\ spent \in Nat
  /\ grouped \subseteq alive /\ piped \subseteq alive /\ deaf \subseteq alive
  /\ code \in Codes
  /\ deed \in BOOLEAN

\* What of its group a command has left after each signal: those that ignore
\* SIGTERM, then nobody; and after an answer nobody who was to be killed.
Signalled ==
  /\ call = "grace" => grouped \subseteq deaf
  /\ call = "drain" => grouped = {}
  /\ call = "timeout" => \A p \in grouped : p \in deaf /\ p \notin piped

\* What has been spent and what is left of the wait are within what the waits
\* so far were given.
InTime ==
  /\ call = "communicate" => spent + left <= Timeout
  /\ call = "grace" => spent + left <= Timeout + Grace
  /\ call \notin {"communicate", "grace"} => spent + left <= Limit

\* A success is one in truth: it was reached, output and all, while the call
\* still waited for it.
Truthful ==
  /\ call = "communicate" /\ Communicated /\ code = "exit-0" => deed
  /\ call = "exit-0" => deed

CallInv == CallTypes /\ Signalled /\ InTime /\ Truthful

LEMMA LimitsAdd == Limit \in Nat /\ Timeout <= Limit /\ 0 <= Limit /\ 0 \in Nat
BY SubprocessAssumption DEF Limit

LEMMA NoCommandInv == NoCommand => CallInv
<1> SUFFICES ASSUME NoCommand PROVE CallInv
  OBVIOUS
<1>1. CallTypes /\ Signalled
  BY DEF NoCommand, CallTypes, Signalled, Codes
<1>2. InTime
  BY LimitsAdd DEF NoCommand, InTime
<1>3. Truthful
  BY DEF NoCommand, Truthful
<1> QED BY <1>1, <1>2, <1>3 DEF CallInv

LEMMA PopenInv == Popen => CallInv'
<1>1. ASSUME Executed PROVE CallInv'
  <2>1. CallTypes' /\ Signalled'
    BY <1>1, SubprocessAssumption DEF Executed, CallTypes, Signalled, Codes, Waiting
  <2>2. InTime'
    BY <1>1, SubprocessAssumption DEF Executed, InTime
  <2>3. Truthful'
    BY <1>1 DEF Executed, Truthful
  <2> QED BY <2>1, <2>2, <2>3 DEF CallInv
<1>2. ASSUME NotExecuted PROVE CallInv'
  <2>1. CallTypes' /\ Signalled'
    BY <1>2 DEF NotExecuted, CallTypes, Signalled, Codes, Answers
  <2>2. InTime'
    BY <1>2, LimitsAdd DEF NotExecuted, InTime
  <2>3. Truthful'
    BY <1>2 DEF NotExecuted, Truthful
  <2> QED BY <2>1, <2>2, <2>3 DEF CallInv
<1> QED BY <1>1, <1>2 DEF Popen

LEMMA ForkKeeps ==
  ASSUME CallInv, Fork
  PROVE  CallInv'
<1>1. PICK p \in alive, h \in Helpers \ alive :
        /\ alive' = alive \cup {h}
        /\ grouped' = IF p \in grouped THEN grouped \cup {h} ELSE grouped
        /\ piped' = IF p \in piped THEN piped \cup {h} ELSE piped
        /\ deaf' = IF p \in deaf THEN deaf \cup {h} ELSE deaf
        /\ UNCHANGED <<callVars, code, deed>>
  BY DEF Fork
<1>2. CallTypes'
  BY <1>1 DEF CallInv, CallTypes, callVars
<1>3. Signalled'
  BY <1>1 DEF CallInv, CallTypes, Signalled, callVars
<1>4. InTime'
  BY <1>1 DEF CallInv, InTime, callVars
<1>5. Truthful'
  BY <1>1 DEF CallInv, Truthful, Communicated, Over, callVars
<1> QED BY <1>2, <1>3, <1>4, <1>5 DEF CallInv

LEMMA CommandStepKeeps ==
  ASSUME CallInv, CommandStep
  PROVE  CallInv'
<1>0. UNCHANGED callVars
  BY DEF CommandStep, Fork, Detach, LetGo, IgnoreTerm, Ends
<1>1. InTime'
  BY <1>0 DEF CallInv, InTime, callVars
<1>2. CASE Detach
  BY <1>1, <1>2 DEF Detach, CallInv, CallTypes, Signalled, Truthful, Communicated, Over, callVars
<1>3. CASE LetGo
  <2>1. PICK p \in piped :
          /\ piped' = piped \ {p}
          /\ deed' = (deed \/ (call = "communicate" /\ Over(piped', alive) /\ code = "exit-0"))
          /\ UNCHANGED <<alive, grouped, deaf, callVars, code>>
    BY <1>3 DEF LetGo
  <2>2. CallTypes' /\ Signalled'
    BY <2>1 DEF CallInv, CallTypes, Signalled, callVars
  <2>3. Truthful'
    BY <2>1 DEF CallInv, Truthful, Communicated, Over, callVars
  <2> QED BY <1>1, <2>2, <2>3 DEF CallInv
<1>4. CASE IgnoreTerm
  BY <1>1, <1>4 DEF IgnoreTerm, CallInv, CallTypes, Signalled, Truthful, Communicated, Over, callVars
<1>5. CASE Ends
  <2>1. PICK p \in alive :
          /\ Dies({p})
          /\ code' \in IF p = Leader THEN {"exit-0", "exit-1"} ELSE {code}
          /\ deed' = (deed \/ (call = "communicate" /\ Over(piped', alive') /\ code' = "exit-0"))
    BY <1>5 DEF Ends
  <2>2. CallTypes' /\ Signalled'
    BY <1>0, <2>1 DEF Dies, CallInv, CallTypes, Signalled, Codes, callVars
  <2>3. Truthful'
    BY <1>0, <2>1 DEF CallInv, Truthful, Communicated, Over, callVars
  <2> QED BY <1>1, <2>2, <2>3 DEF CallInv
<1> QED BY <1>2, <1>3, <1>4, <1>5, ForkKeeps DEF CommandStep

LEMMA CallStepKeeps ==
  ASSUME CallInv, CallStep \/ Tick
  PROVE  CallInv'
<1> USE SubprocessAssumption
<1>1. CASE Collect
  BY <1>1 DEF Collect, CallInv, CallTypes, Signalled, InTime, Truthful, Communicated, Over, Waiting,
              Answers, Codes, Limit, processVars
<1>2. CASE Terminate
  BY <1>2 DEF Terminate, Dies, CallInv, CallTypes, Signalled, InTime, Truthful, Waiting, Limit
<1>3. CASE KillGroup
  BY <1>3 DEF KillGroup, Dies, CallInv, CallTypes, Signalled, InTime, Truthful, Waiting, Limit
<1>4. CASE Abandon
  BY <1>4 DEF Abandon, CallInv, CallTypes, Signalled, InTime, Truthful, Answers, Limit, processVars
<1>5. CASE Tick
  <2>1. CallTypes' /\ Signalled' /\ InTime'
    BY <1>5 DEF Tick, CallInv, CallTypes, Signalled, InTime, Waiting, Answers, Limit, processVars
  <2>2. Truthful'
    BY <1>5 DEF Tick, CallInv, Truthful, Communicated, Over, processVars
  <2> QED BY <2>1, <2>2 DEF CallInv
<1> QED BY <1>1, <1>2, <1>3, <1>4, <1>5 DEF CallStep

-----------------------------------------------------------------------------
(* All commands of a point.                                                 *)

GateTypes ==
  /\ point \in Points
  /\ results \in Seq(BOOLEAN) /\ deeds \in Seq(BOOLEAN)
  /\ Len(deeds) = Len(results) /\ Len(results) <= Len(point.commands)
  /\ verdict \in {"open", "proceed", "warn", "critical", "abort"}

\* What was taken for a success was one.
Earned == \A i \in 1 .. Len(results) : results[i] => deeds[i]

\* A command runs only for a result that is still to come, and the verdict
\* comes after all of them.
InTurn ==
  /\ call # "none" => MoreToRun
  /\ verdict # "open" => ~MoreToRun

Inv == CallInv /\ GateTypes /\ Earned /\ InTurn /\ GateHolds

LEMMA CommandsType ==
  ASSUME point \in Points
  PROVE  point.commands \in Seq([probe: BOOLEAN, critical: BOOLEAN]) /\ Len(point.commands) \in Nat
BY PointsAssumption

\* One more result, and the truth about it.
LEMMA OneMoreResult ==
  ASSUME GateTypes, Earned, MoreToRun, NEW ok \in BOOLEAN, NEW truth \in BOOLEAN, ok => truth,
         results' = Append(results, ok), deeds' = Append(deeds, truth), UNCHANGED <<point, verdict>>
  PROVE  GateTypes' /\ Earned'
<1>1. Len(point.commands) \in Nat
  BY CommandsType DEF GateTypes
<1>2. /\ results' \in Seq(BOOLEAN) /\ Len(results') = Len(results) + 1
      /\ deeds' \in Seq(BOOLEAN) /\ Len(deeds') = Len(deeds) + 1
  BY DEF GateTypes
<1>3. GateTypes'
  BY <1>1, <1>2 DEF GateTypes, MoreToRun
<1>4. ASSUME NEW i \in 1 .. Len(results') PROVE results'[i] => deeds'[i]
  <2>1. CASE i \in 1 .. Len(results)
    <3>1. results'[i] = results[i] /\ deeds'[i] = deeds[i]
      BY <2>1 DEF GateTypes
    <3> QED BY <2>1, <3>1, Zenon DEF Earned
  <2>2. CASE i = Len(results) + 1
    <3>1. results'[i] = ok /\ deeds'[i] = truth
      BY <2>2 DEF GateTypes
    <3> QED BY <3>1, Zenon
  <2>3. i \in 1 .. Len(results) \/ i = Len(results) + 1
    <3>1. Len(results) \in Nat
      BY DEF GateTypes
    <3> QED BY <1>2, <1>4, <3>1
  <2> QED BY <2>1, <2>2, <2>3, Zenon
<1> QED BY <1>3, <1>4 DEF Earned

LEMMA InitInv == Init => Inv
<1> SUFFICES ASSUME Init PROVE Inv
  OBVIOUS
<1>1. CallInv
  BY NoCommandInv DEF Init
<1>2. GateTypes
  BY CommandsType DEF Init, GateTypes
<1>3. Earned /\ InTurn /\ GateHolds
  BY DEF Init, NoCommand, Earned, InTurn, GateHolds
<1> QED BY <1>1, <1>2, <1>3 DEF Inv

\* What the gate knows does not change while a command runs.
LEMMA BesideTheGate ==
  ASSUME Inv, CallInv', UNCHANGED gateVars, call' # "none" => MoreToRun
  PROVE  Inv'
BY DEF Inv, GateTypes, Earned, InTurn, GateHolds, Decisive, MoreToRun, gateVars

\* The verdict, from all of the results.
LEMMA DecideHolds ==
  ASSUME Inv, Decide
  PROVE  Inv'
<1>1. /\ GateTypes /\ Earned /\ ~MoreToRun /\ call = "none" /\ verdict = "open"
      /\ UNCHANGED <<subprocessVars, point, results, deeds>>
  BY DEF Inv, Decide
<1>2. Len(results) = Len(point.commands) /\ Len(deeds) = Len(point.commands) /\ Len(point.commands) \in Nat
  BY <1>1, CommandsType DEF GateTypes, MoreToRun
<1>3. verdict' \in {"proceed", "warn", "critical", "abort"}
  BY DEF Decide, HooksDecide, HealthDecides
<1>4. CallInv' /\ GateTypes' /\ Earned' /\ InTurn'
  BY <1>1, <1>3 DEF Inv, CallInv, CallTypes, Signalled, InTime, Truthful, Communicated, Over, GateTypes,
                    Earned, InTurn, MoreToRun, subprocessVars, processVars, callVars
<1>5. \A i \in 1 .. Len(point.commands) : i \notin Failed => deeds[i]
  BY <1>1, <1>2 DEF Earned, Failed
<1>6. Failed \subseteq 1 .. Len(point.commands)
  BY <1>2 DEF Failed
<1>7. Decisive' = Decisive
  BY <1>1 DEF Decisive
<1>8. CASE HooksDecide
  <2>1. verdict' \in {"proceed", "warn"} => \A i \in Decisive : i \in 1 .. Len(deeds) /\ deeds[i]
    BY <1>2, <1>5, <1>8 DEF HooksDecide, ShouldAbort, Decisive
  <2>2. verdict' \in {"abort", "critical"} => Decisive # {}
    BY <1>6, <1>8 DEF HooksDecide, ShouldAbort, Decisive
  <2> QED BY <1>1, <1>4, <1>7, <1>8, <2>1, <2>2 DEF Inv, GateHolds, HooksDecide
<1>9. CASE HealthDecides
  <2>1. verdict' \in {"proceed", "warn"} => \A i \in Decisive : i \in 1 .. Len(deeds) /\ deeds[i]
    BY <1>2, <1>5, <1>9 DEF HealthDecides, Decisive
  <2>2. verdict' = "proceed" => \A i \in 1 .. Len(deeds) : deeds[i]
    BY <1>2, <1>5, <1>9 DEF HealthDecides
  <2>3. verdict' \in {"abort", "critical"} => Decisive # {}
    BY <1>6, <1>9 DEF HealthDecides, Decisive
  <2> QED BY <1>1, <1>4, <1>7, <2>1, <2>2, <2>3 DEF Inv, GateHolds
<1> QED BY <1>8, <1>9 DEF Decide

LEMMA GateStepKeeps ==
  ASSUME Inv, GateStep
  PROVE  Inv'
<1>1. CASE RunOne \/ RefuseOne
  <2>1. CallInv'
    BY <1>1, PopenInv DEF RunOne, RefuseOne, Popen
  <2> QED BY <1>1, <2>1, BesideTheGate DEF RunOne, RefuseOne, CommandNext
<1>2. CASE Result
  <2>1. MoreToRun /\ call' = "none" /\ UNCHANGED <<processVars, left, spent, code, deed, point, verdict>>
    BY <1>2 DEF Result, Inv, InTurn, Answers
  <2>2. CallInv'
    BY <1>2, <2>1 DEF Result, Inv, CallInv, CallTypes, Signalled, InTime, Truthful, Communicated, Over,
                      Answers, Waiting, processVars
  <2>3. GateTypes' /\ Earned'
    <3>1. call = "exit-0" => deed
      BY DEF Inv, CallInv, Truthful
    <3>2. deed \in BOOLEAN /\ (call = "exit-0") \in BOOLEAN
      BY DEF Inv, CallInv, CallTypes
    <3>3. results' = Append(results, call = "exit-0") /\ deeds' = Append(deeds, deed)
      BY <1>2 DEF Result
    <3> QED BY <2>1, <3>1, <3>2, <3>3, OneMoreResult DEF Inv
  <2>4. verdict' = "open"
    BY <2>1 DEF Inv, InTurn, GateTypes
  <2> QED BY <2>1, <2>2, <2>3, <2>4 DEF Inv, InTurn, GateHolds
<1>3. CASE Probe
  <2>1. MoreToRun /\ UNCHANGED <<subprocessVars, point, verdict>> /\ call = "none"
    BY <1>3 DEF Probe
  <2>2. PICK ok \in BOOLEAN : results' = Append(results, ok) /\ deeds' = Append(deeds, ok)
    BY <1>3 DEF Probe
  <2>3. GateTypes' /\ Earned'
    BY <2>1, <2>2, OneMoreResult DEF Inv
  <2>4. CallInv'
    BY <2>1 DEF Inv, CallInv, CallTypes, Signalled, InTime, Truthful, Communicated, Over, subprocessVars,
                processVars, callVars
  <2>5. verdict' = "open" /\ call' = "none"
    BY <2>1 DEF Inv, InTurn, subprocessVars, callVars
  <2> QED BY <2>3, <2>4, <2>5 DEF Inv, InTurn, GateHolds
<1>4. CASE Decide
  BY <1>4, DecideHolds
<1> QED BY <1>1, <1>2, <1>3, <1>4 DEF GateStep

LEMMA NextKeepsInv == Inv /\ [Next]_vars => Inv'
<1> SUFFICES ASSUME Inv, [Next]_vars PROVE Inv'
  OBVIOUS
<1>1. CASE GateStep
  BY <1>1, GateStepKeeps
<1>2. CASE (CallStep \/ Tick \/ CommandStep) /\ UNCHANGED gateVars
  <2>1. CallInv'
    BY <1>2, CallStepKeeps, CommandStepKeeps DEF Inv
  <2>2. call' # "none" => call # "none"
    BY <1>2 DEF CallStep, Collect, Terminate, KillGroup, Abandon, Tick, CommandStep, Fork, Detach, LetGo,
                IgnoreTerm, Ends, callVars, Waiting
  <2> QED BY <1>2, <2>1, <2>2, BesideTheGate DEF Inv, InTurn
<1>3. CASE UNCHANGED vars
  BY <1>3 DEF vars, gateVars, subprocessVars, processVars, callVars, Inv, CallInv, CallTypes, Signalled,
              InTime, Truthful, Communicated, Over, GateTypes, Earned, InTurn, MoreToRun, GateHolds, Decisive
<1> QED BY <1>1, <1>2, <1>3 DEF Next

LEMMA SpecInv == Spec => []Inv
BY InitInv, NextKeepsInv, PTL DEF Spec

-----------------------------------------------------------------------------
(* The theorems.                                                            *)

\* What is alive after a timeout was signalled with its group twice, unless it
\* had left the group or let go of the output (subproc.py:46-101).
THEOREM SurvivorsHaveEscaped == Spec => []SurvivorsEscaped
<1>1. Inv => SurvivorsEscaped
  BY DEF Inv, CallInv, Signalled, SurvivorsEscaped
<1> QED BY <1>1, SpecInv, PTL

\* No call takes longer than its timeout, the grace and the drain, whatever the
\* command and its descendants do (subproc.py:46-101): the bound of
\* ReturnsInTime, for every one of the three.
THEOREM CallsAreInTime == Spec => [](spent <= Limit)
<1>1. Inv => spent <= Limit
  BY SubprocessAssumption DEF Inv, CallInv, CallTypes, InTime, Limit
<1> QED BY <1>1, SpecInv, PTL

\* The cycle goes past a gate only on commands that were run and succeeded
\* within their time, and is stopped only where one of them may stop it
\* (hooks.py, health.py), for every list of commands.
THEOREM GatesHold == Spec => []GateHolds
BY SpecInv, PTL DEF Inv
=============================================================================
