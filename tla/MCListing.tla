------------------------------ MODULE MCListing ------------------------------
(* Two regions: a and b with a parent each in the first, c in the second.   *)
(* The tags of b do not match, and it may be selected without a region.     *)
EXTENDS Listing

CONSTANTS a, b, c, p, q

Homes == [i \in Item |-> IF i = c THEN 2 ELSE 1]
Parents == [i \in Item |-> IF i = a THEN p ELSE q]
=============================================================================
