----------------------------- MODULE MCUserSearch -----------------------------
(* UserSearch for the model checker.                                       *)
EXTENDS UserSearch

CONSTANTS u1, u2, u3

McUsers == {u1, u2, u3}
McTokens == {NoToken, 0 - 1}
McLists == {<<u1, u2, u3>>}
McCreated == {u3}
McCounted == {u1}
=============================================================================
