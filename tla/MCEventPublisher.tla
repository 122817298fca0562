---------------------------- MODULE MCEventPublisher ----------------------------
(* EventPublisher for the model checker.                                   *)
EXTENDS EventPublisher
=============================================================================
