---------------------------- MODULE MCLandingLink ----------------------------
(* LandingLink for TLC. *)
EXTENDS LandingLink
=============================================================================
