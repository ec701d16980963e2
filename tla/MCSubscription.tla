--------------------------- MODULE MCSubscription ---------------------------
(***************************************************************************)
(* Two packages of different rank and an add-on; the wallet covers some    *)
(* combinations of them and not others.                                    *)
(***************************************************************************)
EXTENDS Subscription, TLC

CONSTANTS basic, pro, seats

MCCoinCost == basic :> 1 @@ pro :> 2 @@ seats :> 1
MCRank == basic :> 1 @@ pro :> 2 @@ seats :> 0
MCOpening == [u \in Users |-> 4]

Symmetry == Permutations(Subs) \cup Permutations(Requests)

=============================================================================
