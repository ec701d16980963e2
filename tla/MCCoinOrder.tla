----------------------------- MODULE MCCoinOrder -----------------------------
(***************************************************************************)
(* A small instance of CoinOrder: one bundle, a gateway that may report    *)
(* its price, a wrong price, or none (mock mode).                          *)
(***************************************************************************)
EXTENDS CoinOrder, TLC

CONSTANTS u1, u2

MCRegistered == {u1}
MCOffers == {[coins |-> 3, price |-> 2]}
MCAmounts == {0, 2, 5}

Symmetry == Permutations(Orders) \cup Permutations(Requests)
                \cup Permutations(Deliveries)

=============================================================================
