-------------------------------- MODULE Gates --------------------------------
(***************************************************************************)
(* The commands of an administrator at one point of a cycle: the hooks of  *)
(* a hook point (hooks.py), or the health checks (health.py).  Each is run *)
(* in turn, whatever became of those before; their results decide whether  *)
(* the cycle goes on.                                                      *)
(***************************************************************************)
EXTENDS Subprocess, Sequences

CONSTANT Points   \* the points, with what is configured for them

\* A check is a command or a probe (service, HTTP, TCP); a hook is a command.
ASSUME PointsAssumption ==
  Points \subseteq
    [name: {"before_upgrade", "after_upgrade", "before_reboot", "after_reboot", "on_failure",
            "health"},
     failure_policy: {"abort", "continue"},
     commands: Seq([probe: BOOLEAN, critical: BOOLEAN])]

VARIABLES
  point,      \* the point, for good
  results,    \* whether each command so far was ok
  deeds,      \* GHOST: whether each succeeded in truth, by itself and in time
  verdict     \* "open", then "proceed", "warn", "critical" or "abort"

gateVars == <<point, results, deeds, verdict>>
vars == <<subprocessVars, gateVars>>

-----------------------------------------------------------------------------
Init ==
  /\ NoCommand
  /\ point \in Points
  /\ results = <<>>
  /\ deeds = <<>>
  /\ verdict = "open"

NextOne == Len(results) + 1
MoreToRun == Len(results) < Len(point.commands)

CommandNext ==
  /\ call = "none"
  /\ MoreToRun
  /\ ~point.commands[NextOne].probe

RunOne ==
  /\ CommandNext
  /\ Popen
  /\ UNCHANGED gateVars

\* validate_hook_paths: what is missing or not root's alone is not started.
RefuseOne ==
  /\ CommandNext
  /\ NotExecuted
  /\ UNCHANGED gateVars

\* A timeout and an OSError are results too, and not ok.
Result ==
  /\ call \in Answers
  /\ results' = Append(results, call = "exit-0")
  /\ deeds' = Append(deeds, deed)
  /\ call' = "none"
  /\ UNCHANGED <<processVars, left, spent, code, deed, point, verdict>>

\* A probe has a timeout of its own, and no exception of it gets out.
Probe ==
  /\ call = "none"
  /\ MoreToRun
  /\ point.commands[NextOne].probe
  /\ \E ok \in BOOLEAN : results' = Append(results, ok) /\ deeds' = Append(deeds, ok)
  /\ UNCHANGED <<subprocessVars, point, verdict>>

Failed == {i \in 1 .. Len(results) : ~results[i]}

\* should_abort: after_* hooks never do.
ShouldAbort ==
  /\ Failed # {}
  /\ point.failure_policy = "abort"
  /\ point.name \in {"before_upgrade", "before_reboot", "on_failure"}

\* _run_hooks raises, and the cycle fails; _fail, which runs the on_failure
\* hooks, goes on.
HooksDecide ==
  /\ point.name # "health"
  /\ verdict' = IF ShouldAbort /\ point.name # "on_failure" THEN "abort" ELSE "proceed"

\* The last check is for failed units, and not critical.  A critical failure is
\* recorded as the error of the cycle.
HealthDecides ==
  /\ point.name = "health"
  /\ \E failedUnits \in BOOLEAN :
       verdict' = IF \E i \in Failed : point.commands[i].critical THEN "critical"
                  ELSE IF Failed # {} \/ failedUnits THEN "warn" ELSE "proceed"

Decide ==
  /\ call = "none"
  /\ ~MoreToRun
  /\ verdict = "open"
  /\ HooksDecide \/ HealthDecides
  /\ UNCHANGED <<subprocessVars, point, results, deeds>>

GateStep == RunOne \/ RefuseOne \/ Result \/ Probe \/ Decide

\* What outlived its call goes on beside whatever comes next.
Next ==
  \/ GateStep
  \/ (CallStep \/ Tick \/ CommandStep) /\ UNCHANGED gateVars

\* Time passes and a wait that is over returns; the commands may do nothing.
Fairness ==
  /\ WF_vars(GateStep)
  /\ WF_vars((CallStep \/ Tick) /\ UNCHANGED gateVars)

Spec == Init /\ [][Next]_vars /\ Fairness

-----------------------------------------------------------------------------
(* Properties, with ReturnsInTime and SurvivorsEscaped of Subprocess.       *)

\* Those whose failure stops the cycle.
Decisive ==
  {i \in 1 .. Len(point.commands) :
     IF point.name = "health" THEN point.commands[i].critical
     ELSE point.name \in {"before_upgrade", "before_reboot"} /\ point.failure_policy = "abort"}

\* The cycle goes past a gate only when every command it rests on was run and
\* succeeded by itself within its time, with nobody left that holds its
\* output; and where it rests on none, nothing a command does stops it.
GateHolds ==
  /\ verdict \in {"proceed", "warn"} =>
       \A i \in Decisive : i \in 1 .. Len(deeds) /\ deeds[i]
  /\ verdict = "proceed" /\ point.name = "health" => \A i \in 1 .. Len(deeds) : deeds[i]
  /\ verdict \in {"abort", "critical"} => Decisive # {}
=============================================================================
