----------------------------- MODULE MCHealing -----------------------------
(* Small instances of the ingestion jobs with the history of their gaps. *)
EXTENDS IngestHealing, MCIngest
=============================================================================
