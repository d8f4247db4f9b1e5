--------------------------- MODULE MCPagedListing ---------------------------
(* Bounded inputs for PagedListing: up to N resources. *)
EXTENDS PagedListing

CONSTANT N

MCResource == 1 .. N
=============================================================================
