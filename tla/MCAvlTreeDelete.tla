--------------------------- MODULE MCAvlTreeDelete ---------------------------
(* AvlTreeDelete with a few keys. *)
EXTENDS AvlTreeDelete

CONSTANT KeyCount    \* bound on the keys

MCKey == 1 .. KeyCount
=============================================================================
