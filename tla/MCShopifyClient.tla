-------------------------- MODULE MCShopifyClient --------------------------
(* ShopifyClient for TLC.  The calls with retry on are alike. *)
EXTENDS ShopifyClient, TLC

Alike == Permutations(Idempotent)
=============================================================================
