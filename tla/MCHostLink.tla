------------------------------ MODULE MCHostLink -----------------------------
(* Instances of HostLink for TLC: an escaped byte in every other frame. *)
EXTENDS HostLink

MCBodies == << <<"plain", "fesc", "tf">>, <<"plain", "plain">> >>
=============================================================================
