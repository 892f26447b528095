------------------------------- MODULE MCXdgList -------------------------------
(* XdgList with two lists that share a few items. *)
EXTENDS XdgList

CONSTANTS first, second, a, b, c

MCList == <<first, second>>
MCItem == {a, b, c}

\* remove_if and clear come to the end of their list, a lookup to the last folder
\* and a walk to the last item of the joint list.
LoopsEnd == pc # "idle" ~> pc = "idle"
=============================================================================
