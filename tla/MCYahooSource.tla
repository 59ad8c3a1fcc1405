--------------------------- MODULE MCYahooSource ---------------------------
(* A small instance of the Yahoo source. *)
EXTENDS YahooSource

CONSTANTS close, volume   \* fields

MCTs == 1..3
=============================================================================
