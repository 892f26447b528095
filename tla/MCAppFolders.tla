----------------------------- MODULE MCAppFolders -----------------------------
(***************************************************************************)
(* AppFolders with two folders and two applications, one of them mentioned *)
(* by a list of the user's folder.                                         *)
(***************************************************************************)
EXTENDS AppFolders, TLC

CONSTANTS user, system, editor, viewer

MCOrder == <<user, system>>
MCApp == {editor, viewer}
MCListed == (user :> {editor}) @@ (system :> {})
=============================================================================
