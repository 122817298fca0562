---------------------------- MODULE MCFriendService ----------------------------
(* Instances of FriendService for TLC.                                     *)
EXTENDS FriendService, TLC

(* One friendship, asked for from one side or from both.                   *)
OnePair == {<<1, 2>>}
BothSides == {<<1, 2>>, <<2, 1>>}

(* Requests differ in nothing but their names.                             *)
Symmetry == Permutations(Procs)
=============================================================================
