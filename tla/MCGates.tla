------------------------------- MODULE MCGates -------------------------------
EXTENDS Gates

Hook == [probe |-> FALSE, critical |-> FALSE]
Check(probe, critical) == [probe |-> probe, critical |-> critical]

HookPoint(name, policy, n) ==
  [name |-> name, failure_policy |-> policy, commands |-> [i \in 1 .. n |-> Hook]]

\* Two hooks at a gate and one elsewhere, and a critical and an uncritical
\* check of each kind.
SomePoints ==
  {HookPoint("before_upgrade", "abort", 2), HookPoint("before_reboot", "continue", 1),
   HookPoint("after_upgrade", "abort", 1), HookPoint("after_reboot", "continue", 0),
   HookPoint("on_failure", "abort", 1)}
    \cup {[name |-> "health", failure_policy |-> "abort",
           commands |-> <<Check(FALSE, c), Check(TRUE, ~c)>>] : c \in BOOLEAN}
=============================================================================
