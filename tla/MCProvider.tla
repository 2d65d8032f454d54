----------------------------- MODULE MCProvider -----------------------------
(***************************************************************************)
(* Values for checking Provider: a kernel whose version 1 is a security    *)
(* update and whose version 2 is not, a library the other way around, and  *)
(* a tool whose upgrade needs a new package.                               *)
(***************************************************************************)
EXTENDS Provider

MCSecurityFixes == {<<"kernel", 1>>, <<"lib", 2>>, <<"tool", 1>>}

AptSetup == [manager |-> "apt", strategy |-> "safe", repair |-> FALSE]

\* APT with and without the repair of interrupted transactions, APT installing
\* security updates only, and DNF.
MCSetups ==
  {AptSetup, [AptSetup EXCEPT !.repair = TRUE], [AptSetup EXCEPT !.strategy = "security"],
   [AptSetup EXCEPT !.manager = "dnf"]}

AptSetups == {AptSetup}
=============================================================================
