----------------------------- MODULE MCCatalogue -----------------------------
(***************************************************************************)
(* Two requests at a time, at each of the desks.  Settings: two taxes, a   *)
(* currency and a payment method; two taxes and two requests are what it   *)
(* takes for both to become active, for one to be removed while it is      *)
(* being activated, and for the requests to wait for each other.  Bundles: *)
(* one of 10 or 15 coins in a currency at 0.9 or 1.0533, discounted to     *)
(* 10.532 or not: less than the price of the 10 coins at the second rate,  *)
(* the same once it is stored, and too much for 10 coins at the first.     *)
(* Plans: two that share two parts, and three upserts.                     *)
(***************************************************************************)
EXTENDS Catalogue, TLC

CONSTANTS t1, t2, c1, m1

MCTableOf ==
    [r \in {t1, t2, c1, m1} |->
        IF r = c1 THEN "currency" ELSE IF r = m1 THEN "method" ELSE "tax"]

MCTaxes ==
    {[type |-> "PERCENTAGE", value |-> 11], [type |-> "FIXED", value |-> 2]}
MCMethods ==
    {[fee_type |-> "FIXED", fee_value |-> 4], [fee_type |-> "PERCENTAGE", fee_value |-> 3]}

Symmetry ==
    Permutations(Admins) \cup Permutations({t1, t2})
        \cup Permutations(Parts) \cup Permutations(PlanIds)
=============================================================================
