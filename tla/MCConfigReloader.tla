-------------------------- MODULE MCConfigReloader --------------------------
(* Instances of ConfigReloader for TLC. *)
EXTENDS ConfigReloader, TLC

CONSTANTS c1, c2

=============================================================================
