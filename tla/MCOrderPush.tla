---------------------------- MODULE MCOrderPush ----------------------------
(* OrderPush for TLC: one order pushed for two webhooks, as when Shopify   *)
(* sends orders/create and orders/updated together, or three orders with   *)
(* one webhook each, one of them a test order.                             *)
EXTENDS OrderPush, TLC

CONSTANTS o1, o2, o3, w1, w2, w3

OneOrder == [w \in Webhooks |-> o1]

OrderEach == [w \in Webhooks |-> CASE w = w1 -> o1 [] w = w2 -> o2 [] w = w3 -> o3]

Interchangeable == Permutations(Slots) \cup Permutations(Requests) \cup Permutations(Webhooks)
=============================================================================
