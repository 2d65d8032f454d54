---------------------------- MODULE MCStateStore ----------------------------
EXTENDS StateStore

\* Under the lock, two cycles one after the other, and one whose file is corrupted
\* twice; beside status commands, one that saves more often.
AllSetups ==
  {[status |-> FALSE, runs |-> 2, saves |-> 2, tampers |-> 1],
   [status |-> FALSE, runs |-> 1, saves |-> 2, tampers |-> 2],
   [status |-> TRUE, runs |-> 1, saves |-> 3, tampers |-> 1]}

\* A second cycle beside status commands.
SecondRun == {[status |-> TRUE, runs |-> 2, saves |-> 2, tampers |-> 1]}
=============================================================================
