---------------------------- MODULE MCSearchIndexer ----------------------------
(* Two users and one event of each kind that the consumer tells apart.     *)
EXTENDS SearchIndexer

E(type, u, v, named) == [type |-> type, user |-> u, friend |-> v, named |-> named]

CONSTANTS u1, u2

SomeEvents ==
  {E("created", u1, u1, TRUE), E("created", u1, u1, FALSE), E("updated", u1, u1, TRUE),
   E("added", u1, u2, FALSE), E("removed", u1, u2, FALSE),
   E("unknown", u1, u1, FALSE), E("garbled", u1, u1, FALSE)}
=============================================================================
