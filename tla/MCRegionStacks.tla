--------------------------- MODULE MCRegionStacks ---------------------------
(* Two resources in region east and one each in west and south.             *)
EXTENDS RegionStacks

CONSTANTS east, west, south, parent, e1, e2, w, s

Where == [x \in Resource |-> CASE x \in {e1, e2} -> east [] x = w -> west [] OTHER -> south]
=============================================================================
