------------------------------ MODULE MCAvlTree ------------------------------
(***************************************************************************)
(* AvlTree checked with a few keys: every order in which they can be added *)
(* and looked up, every shape the rotations make of them.                  *)
(***************************************************************************)
EXTENDS AvlTree

CONSTANT KeyCount    \* bound on the keys

MCKey == 1 .. KeyCount

\* The abstract dictionary as a property of the tree: search_node and
\* search_or_create_node find a key exactly when it was added before
\* (avltree.c search_node, search_or_create_node).
ImplementsDict == Dict!Spec

\* Every call returns: neither loop goes round in a cycle of pointers
\* (avltree.c search_routine, rebalance_grew).
CallsReturn == (pc # "idle") ~> (pc = "idle")
=============================================================================
