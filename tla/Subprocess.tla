----------------------------- MODULE Subprocess -----------------------------
(***************************************************************************)
(* One command under subproc.run_argv: it starts in a session, and so in a *)
(* process group, of its own, with pipes for its output.  The call returns *)
(* when the command has ended and nobody holds a pipe.  What overruns its  *)
(* time gets SIGTERM as a group, after a grace SIGKILL, and after one more *)
(* wait the pipes are closed on it.                                        *)
(*                                                                         *)
(* A descendant may leave the group, let go of the pipes, ignore SIGTERM,  *)
(* outlive its parent, or any of it together.                              *)
(***************************************************************************)
EXTENDS Naturals

CONSTANTS
  Helpers,    \* the descendants a command may have at once
  Timeout,    \* the time a command is given
  Grace,      \* what it is given after SIGTERM, 120 s in the code
  Drain       \* what the pipes are given after SIGKILL, 10 s in the code

ASSUME SubprocessAssumption ==
  /\ "leader" \notin Helpers
  /\ Timeout \in Nat /\ Grace \in Nat /\ Drain \in Nat

VARIABLES
  call,       \* where run_argv is: "none", "communicate", "grace", "drain", or its answer
  left,       \* what is left of the wait it is in
  spent,      \* GHOST: the time the call has taken, no further than just past its limit
  alive,      \* the processes of the command that live,
  grouped,    \*   those in its process group,
  piped,      \*   those that hold its output,
  deaf,       \*   and those that ignore SIGTERM
  code,       \* the exit status of the command
  deed        \* GHOST: it succeeded, and let go of its output, within its time

processVars == <<alive, grouped, piped, deaf>>
callVars == <<call, left, spent>>
subprocessVars == <<processVars, callVars, code, deed>>

-----------------------------------------------------------------------------
\* What a call may take in all.
Limit == Timeout + Grace + Drain

Leader == "leader"
Members == {Leader} \cup Helpers
Waiting == {"communicate", "grace", "drain"}
Answers == {"exit-0", "exit-1", "timeout", "oserror"}

NoCommand ==
  /\ call = "none" /\ left = 0 /\ spent = 0
  /\ alive = {} /\ grouped = {} /\ piped = {} /\ deaf = {}
  /\ code = "signal" /\ deed = FALSE

Executed ==
  /\ alive' = {Leader} /\ grouped' = {Leader} /\ piped' = {Leader} /\ deaf' = {}
  /\ call' = "communicate" /\ left' = Timeout /\ spent' = 0
  /\ code' = "signal" /\ deed' = FALSE

NotExecuted ==
  /\ alive' = {} /\ grouped' = {} /\ piped' = {} /\ deaf' = {}
  /\ call' = "oserror" /\ left' = 0 /\ spent' = 0
  /\ code' = "signal" /\ deed' = FALSE

\* A binary that cannot be executed is an OSError of the call.
Popen == Executed \/ NotExecuted

\* communicate() reads the output to its end, then waits for the command.
Over(holders, living) == holders = {} /\ Leader \notin living

\* The death of some processes.
Dies(dead) ==
  /\ alive' = alive \ dead
  /\ grouped' = grouped \ dead
  /\ piped' = piped \ dead
  /\ deaf' = deaf \ dead

-----------------------------------------------------------------------------
(* The processes of the command.                                            *)

\* A child has the group, the pipes and the signal handling of its parent.
Fork ==
  \E p \in alive, h \in Helpers \ alive :
    /\ alive' = alive \cup {h}
    /\ grouped' = IF p \in grouped THEN grouped \cup {h} ELSE grouped
    /\ piped' = IF p \in piped THEN piped \cup {h} ELSE piped
    /\ deaf' = IF p \in deaf THEN deaf \cup {h} ELSE deaf
    /\ UNCHANGED <<callVars, code, deed>>

\* setsid; the leader of a session cannot.
Detach ==
  \E p \in grouped \ {Leader} :
    /\ grouped' = grouped \ {p}
    /\ UNCHANGED <<alive, piped, deaf, callVars, code, deed>>

LetGo ==
  \E p \in piped :
    /\ piped' = piped \ {p}
    /\ deed' = (deed \/ (call = "communicate" /\ Over(piped', alive) /\ code = "exit-0"))
    /\ UNCHANGED <<alive, grouped, deaf, callVars, code>>

IgnoreTerm ==
  \E p \in alive \ deaf :
    /\ deaf' = deaf \cup {p}
    /\ UNCHANGED <<alive, grouped, piped, callVars, code, deed>>

Ends ==
  \E p \in alive :
    /\ Dies({p})
    /\ code' \in IF p = Leader THEN {"exit-0", "exit-1"} ELSE {code}
    /\ deed' = (deed \/ (call = "communicate" /\ Over(piped', alive') /\ code' = "exit-0"))
    /\ UNCHANGED callVars

CommandStep == Fork \/ Detach \/ LetGo \/ IgnoreTerm \/ Ends

-----------------------------------------------------------------------------
(* run_argv.                                                                *)

Communicated == Over(piped, alive)

\* WRONG: what the command answered to SIGTERM is its result.
Collect_AfterTerm ==
  /\ call \in Waiting
  /\ Communicated
  /\ call' = IF code = "signal" THEN "timeout" ELSE code
  /\ left' = 0
  /\ UNCHANGED <<processVars, spent, code, deed>>

\* Whatever ends after its time, CommandTimeout is raised for it.
Collect ==
  /\ call \in Waiting
  /\ Communicated
  /\ call' = IF call # "communicate" THEN "timeout"
             ELSE IF code = "signal" THEN "exit-1" ELSE code
  /\ left' = 0
  /\ UNCHANGED <<processVars, spent, code, deed>>

\* WRONG: only the command itself is signalled, not its group.
Terminate_LeaderOnly ==
  /\ call = "communicate" /\ left = 0
  /\ Dies({Leader} \ deaf)
  /\ call' = "grace" /\ left' = Grace
  /\ UNCHANGED <<spent, code, deed>>

\* _terminate_tree: SIGTERM to the group.
Terminate ==
  /\ call = "communicate" /\ left = 0
  /\ Dies(grouped \ deaf)
  /\ call' = "grace" /\ left' = Grace
  /\ UNCHANGED <<spent, code, deed>>

\* _terminate_tree(force=True): SIGKILL to the group.
KillGroup ==
  /\ call = "grace" /\ left = 0
  /\ Dies(grouped)
  /\ call' = "drain" /\ left' = Drain
  /\ UNCHANGED <<spent, code, deed>>

\* WRONG: the output is waited for until whoever holds it lets go.
Abandon_Waits ==
  /\ call = "drain" /\ left = 0
  /\ left' = Drain
  /\ UNCHANGED <<processVars, call, spent, code, deed>>

\* A detached descendant keeps the pipes: they are closed on it.
Abandon ==
  /\ call = "drain" /\ left = 0
  /\ call' = "timeout"
  /\ UNCHANGED <<processVars, left, spent, code, deed>>

\* Time passes; a wait that is over ends at once.
Tick ==
  /\ call \in Waiting
  /\ ~Communicated
  /\ left > 0
  /\ left' = left - 1
  /\ spent' = IF spent > Limit THEN spent ELSE spent + 1
  /\ UNCHANGED <<processVars, call, code, deed>>

CallStep == Collect \/ Terminate \/ KillGroup \/ Abandon

-----------------------------------------------------------------------------
\* Whatever a command and its descendants do, the call is over after its
\* timeout, the grace and the drain, though they never end and never let go of
\* its output: no hook, check command or package manager keeps maintenance waiting.
ReturnsInTime == call = "communicate" ~> call \in Answers /\ spent <= Limit

\* What lives on after a command that was timed out has left its group, or it
\* let go of the output and ignored SIGTERM, so that no SIGKILL was sent.
SurvivorsEscaped ==
  call = "timeout" => \A p \in alive : p \notin grouped \/ (p \in deaf /\ p \notin piped)
=============================================================================
