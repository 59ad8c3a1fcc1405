---------------------------- MODULE MCDashboard ----------------------------
(* A small instance of the dashboard: a known symbol whose two series are    *)
(* being collected, and an unknown one with one series.                      *)
EXTENDS Dashboard, TLC

CONSTANTS gold, ticker,   \* symbols
          day, hour,      \* intervals
          metals, other   \* asset classes

MCClassOf    == gold :> metals
MCNameOf     == gold :> 2 @@ ticker :> 1
MCClassOrder == <<metals, other>>
MCPreset     == <<gold>>
MCRunSeries  == <<<<gold, day>>, <<gold, hour>>>>
MCOld        == {<<ticker, hour>>}

\* One bar on an early day, then two on the same one.
MCDay     == <<0, 2, 2>>
MCPicks   == {<<0, 2>>}
MCColumns == [1..2 -> {-2, 0, 1, NULL}]
=============================================================================
