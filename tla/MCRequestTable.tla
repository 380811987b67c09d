--------------------------- MODULE MCRequestTable ---------------------------
(* A small instance of RequestTable.                                       *)
EXTENDS RequestTable, TLC

CONSTANTS r1, r2, m1, m2, m3, f1, f2

\* Two answers to id 1, one to id 2.
MCReplies == m1 :> 1 @@ m2 :> 2 @@ m3 :> 1
\* r2 sends a message whose Id is already filled in: r1 is given the same id
\* or another one, depending on how many ids the factory gave out before.
MCPreset == r1 :> NoId @@ r2 :> 2

Symm == Permutations(Feeders)
=============================================================================
