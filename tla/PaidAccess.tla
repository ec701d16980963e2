----------------------------- MODULE PaidAccess -----------------------------
(***************************************************************************)
(* What buying a plan with coins promises, without saying how: access is   *)
(* given, replaced and paid for in one step, at its price, from a wallet   *)
(* that can afford it; and what has ended never comes back by itself.      *)
(* Subscription implements this specification.                             *)
(***************************************************************************)
EXTENDS Naturals

CONSTANTS
    Users,       \* owners of wallets
    NoUser,      \* the owner of a subscription not yet sold
    Skus,        \* what is sold
    NoSku,       \* what a subscription not yet sold gives access to
    CoinCost,    \* price of each SKU in coins
    Subs         \* subscriptions

VARIABLES
    owner,       \* the owner of each subscription
    sku,         \* what it gives access to
    live,        \* the subscriptions that give access now
    balance      \* coins on the wallet of each user

accessVars == <<owner, sku, live, balance>>

AccessInit ==
    /\ owner = [s \in Subs |-> NoUser]
    /\ sku = [s \in Subs |-> NoSku]
    /\ live = {}
    /\ balance \in [Users -> Nat]

(* User u buys k as s, in place of those in ended.                          *)
Buy(u, k, s, ended) ==
    /\ owner[s] = NoUser
    /\ balance[u] >= CoinCost[k]
    /\ \A e \in ended : owner[e] = u
    /\ balance' = [balance EXCEPT ![u] = @ - CoinCost[k]]
    /\ owner' = [owner EXCEPT ![s] = u]
    /\ sku' = [sku EXCEPT ![s] = k]
    /\ live' = (live \ ended) \cup {s}

End(s) ==
    /\ s \in live
    /\ live' = live \ {s}
    /\ UNCHANGED <<owner, sku, balance>>

AccessNext ==
    \/ \E u \in Users, k \in Skus, s \in Subs, ended \in SUBSET Subs : Buy(u, k, s, ended)
    \/ \E s \in Subs : End(s)

AccessSpec == AccessInit /\ [][AccessNext]_accessVars

=============================================================================
