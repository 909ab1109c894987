------------------------ MODULE MCTerminalGuidance -------------------------
(* The instance of TerminalGuidance that TLC checks.                       *)
EXTENDS TerminalGuidance
=============================================================================
