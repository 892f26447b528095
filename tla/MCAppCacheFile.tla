---------------------------- MODULE MCAppCacheFile ----------------------------
(* AppCacheFile with a desktop file and two tools. *)
EXTENDS AppCacheFile

CONSTANTS editor, tool, other

MCApp == {editor}
TwoTools == {tool, other}
=============================================================================
