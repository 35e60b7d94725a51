------------------------ MODULE MCCANMessageInjector ------------------------
(* TLC instances of CANMessageInjector. *)
EXTENDS CANMessageInjector

=============================================================================
