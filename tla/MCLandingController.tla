-------------------------- MODULE MCLandingController --------------------------
(* LandingController for TLC. *)
EXTENDS LandingController
=============================================================================
