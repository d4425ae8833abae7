---------------------------- MODULE MCScheduler -----------------------------
(* Four slots, slices of two ticks, and pages for four creations: with an  *)
(* empty heap the table fills up, with less room first the heap and then   *)
(* the pages run out.                                                      *)
EXTENDS Scheduler
=============================================================================
