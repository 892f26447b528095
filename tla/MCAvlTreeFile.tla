----------------------------- MODULE MCAvlTreeFile -----------------------------
(***************************************************************************)
(* AvlTreeFile with every search tree of up to five keys, whose lists have *)
(* none, one, two and three applications.                                  *)
(***************************************************************************)
EXTENDS AvlTreeFile

CONSTANTS a, b

MCKey == 1 .. 5
MCAppsOf == <<<<a, b>>, <<>>, <<b, a, b>>, <<b>>, <<>>>>
MCKnown == {a}
=============================================================================
