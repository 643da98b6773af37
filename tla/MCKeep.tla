------------------------------- MODULE MCKeep -------------------------------
(***************************************************************************)
(* rack keep for TLC: the clock is short, and the grace, the gap and the   *)
(* day keep the order of the real ones (100 s, 15 min, 30 min, a day, with *)
(* a check every 2 min).                                                   *)
(***************************************************************************)
EXTENDS Keep
CONSTANTS A, B
=============================================================================
