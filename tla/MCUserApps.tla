------------------------------ MODULE MCUserApps ------------------------------
(***************************************************************************)
(* UserApps with two programs, two types and two applications.             *)
(***************************************************************************)
EXTENDS UserApps

CONSTANTS p, q, text, image, a, b

MCProgram == {p, q}
MCMimeType == {text, image}
MCApp == {a, b}

\* A text other programs wrote: a group that is not known at its end, a line
\* that is too long, and an application in two sections.
MCFirstTexts ==
  {<<Header("Removed Associations"), Entry(text, <<b>>),
     Header("Added Associations"), Entry(text, <<a, b, a>>), Entry(NotAType, <<b>>),
     Header("Other"), Entry(image, <<a>>)>>}

Symmetry == Permutations(MCProgram)
=============================================================================
