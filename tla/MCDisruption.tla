---------------------------- MODULE MCDisruption ----------------------------
(***************************************************************************)
(* Values for checking Disruption: no window, one in a day, one overnight, *)
(* one that ends with the day, one of the whole day and one of an instant. *)
(***************************************************************************)
EXTENDS Disruption

MCConfigured ==
  {NoWindow, Window(2, 5), Window(9, 3), Window(8, 11), Window(0, 11), Window(4, 4)}
=============================================================================
