----------------------------- MODULE MCMimeReload -----------------------------
(* MimeReload with one or two data directories and three callbacks. *)
EXTENDS MimeReload

CONSTANTS home, share, a, b, c

OneDir == <<home>>
TwoDirs == <<home, share>>
ThreeEntries == {a, b, c}
=============================================================================
