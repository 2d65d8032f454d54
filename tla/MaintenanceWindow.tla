-------------------------- MODULE MaintenanceWindow --------------------------
(***************************************************************************)
(* The daily maintenance window (patchcycle/window.py): may an action      *)
(* start now, if it takes as long as it is estimated to?  Times of day and *)
(* durations are in one unit; the code's are minutes and seconds.          *)
(***************************************************************************)
EXTENDS Integers

CONSTANT Day    \* the length of a day

ASSUME DayAssumption == Day \in Nat \ {0}

TimeOfDay == 0 .. Day - 1

NoWindow == [configured |-> FALSE, start |-> 0, end |-> 0]
Window(start, end) == [configured |-> TRUE, start |-> start, end |-> end]
Windows == {NoWindow} \cup {Window(s, e) : s \in TimeOfDay, e \in TimeOfDay}

\* None, in the code: outside the window.
Outside == -1

\* _remaining_minutes; a window that starts after it ends is overnight.
Remaining(t, start, end) ==
  IF start <= end
  THEN IF start <= t /\ t <= end THEN end - t ELSE Outside
  ELSE IF t >= start THEN (Day - t) + end
  ELSE IF t <= end THEN end - t
  ELSE Outside

\* allows_disruptive.
AllowsDisruptive(t, estimate, w) ==
  \/ ~w.configured
  \/ LET left == Remaining(t, w.start, w.end)
     IN  left # Outside /\ estimate <= left

\* What it promises: the whole action lies in one opening of the window, the
\* one of today or the one that began yesterday.
FitsOpening(t, estimate, w) ==
  w.configured =>
    \E day \in {-1, 0} :
      /\ w.start + day * Day <= t
      /\ t + estimate <= w.end + day * Day + (IF w.end < w.start THEN Day ELSE 0)
=============================================================================
