---------------------------- MODULE MCComparison ----------------------------
(* Small instances of the Compare tab. *)
EXTENDS Comparison

TwoTimes   == 1..2
ThreeTimes == 1..3
Prices     == {0, 1, 2, 3}
Positive   == {1, 2, 3}
\* Crude oil futures have settled below zero.
Negative   == {-2, -1, 2}
=============================================================================
