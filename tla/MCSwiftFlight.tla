---------------------------- MODULE MCSwiftFlight -----------------------------
(***************************************************************************)
(* SwiftFlight with one phase between the first and "complete", so that    *)
(* the log can be read in the middle, and three interrupts: the stop, the  *)
(* KeyboardInterrupt that leaves the loop, and one in the clean-up.        *)
(***************************************************************************)
EXTENDS SwiftFlight
=============================================================================
