---------------------------- MODULE MCRabbitClient ----------------------------
(* The goroutines of RabbitClient are alike.                               *)
EXTENDS RabbitClient, TLC

Symmetry == Permutations(Procs)
=============================================================================
