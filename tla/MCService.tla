----------------------------- MODULE MCService -----------------------------
(* Small instances of the service. *)
EXTENDS Service, TLC

CONSTANTS heartbeat, intraday, daily, backfill,   \* jobs
          gld, gldBlank, slv, space     \* texts: "GLD", " GLD", "SLV", " "

MCStrip == gld :> gld @@ gldBlank :> gld @@ slv :> slv @@ space :> BLANK

\* The default settings with a repeated symbol, and one mistake of each kind.
Good == [symbols |-> <<gld, slv, space, gldBlank>>, cron |-> "valid", others |-> "valid",
         enabled |-> {intraday, daily, backfill}]
MCEnvironments == {
  Good,
  [Good EXCEPT !.symbols = <<space>>],
  [Good EXCEPT !.cron = "malformed"],
  [Good EXCEPT !.cron = "impossible"],
  [Good EXCEPT !.cron = "impossible", !.enabled = {}, !.symbols = <<slv, gld, slv>>],
  [Good EXCEPT !.others = "invalid"]}
=============================================================================
