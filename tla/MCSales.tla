------------------------------- MODULE MCSales -------------------------------
(* Instances of Sales for TLC: two products and carts that list them in    *)
(* both orders, so that transactions can wait for each other.              *)
EXTENDS Sales, TLC

CONSTANTS a, b, c1, c2, keeper

Of(p, n) == [product |-> p, quantity |-> n]

CrossedCarts == {<<Of(a, 1), Of(b, 1)>>, <<Of(b, 1), Of(a, 1)>>}

OneOfEach == [p \in Products |-> 1]
==============================================================================
