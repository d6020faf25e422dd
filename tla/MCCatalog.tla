----------------------------- MODULE MCCatalog -----------------------------
(* Catalog for TLC: a product with a variant.                              *)
EXTENDS Catalog, TLC

CONSTANTS a, v1

Parent == [v \in Variants |-> a]
=============================================================================
