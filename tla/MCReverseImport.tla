--------------------------- MODULE MCReverseImport ---------------------------
(* A parent p with a child c, two resources q and r that the chase can      *)
(* adopt, and u, which cannot be imported.                                  *)
EXTENDS ReverseImport

CONSTANTS p, c, q, r, u

ParentAndChild == [a \in Addr |-> IF a = p THEN {c, u} ELSE {}]
=============================================================================
