-------------------------- MODULE MCEntryPrediction --------------------------
(* The instance of EntryPrediction that TLC checks.                        *)
EXTENDS EntryPrediction
=============================================================================
