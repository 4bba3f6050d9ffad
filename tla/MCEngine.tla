------------------------------ MODULE MCEngine ------------------------------
(* Engine on two or three threads, for TLC. *)
EXTENDS Engine
=============================================================================
