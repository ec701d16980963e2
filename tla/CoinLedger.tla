----------------------------- MODULE CoinLedger -----------------------------
(***************************************************************************)
(* What the purchase of coins promises, without saying how.  An order is   *)
(* sold once, on terms that never change; the payment gateway reports some *)
(* sold orders as paid; and an order reported paid may be turned, once,    *)
(* into exactly its coins on exactly its owner's wallet.  CoinOrder        *)
(* implements this specification.                                          *)
(***************************************************************************)
EXTENDS Naturals

CONSTANTS
    Users,       \* owners of wallets
    NoUser,      \* the owner of an order not yet sold
    Orders       \* coin orders

VARIABLES
    owner,       \* the buyer of each order
    coins,       \* the coins each order sells
    reported,    \* the orders the gateway has reported paid
    credits,     \* how many TOPUP rows of the ledger refer to each order
    balance      \* coins on the wallet of each user

ledgerVars == <<owner, coins, reported, credits, balance>>

LedgerInit ==
    /\ owner = [o \in Orders |-> NoUser]
    /\ coins = [o \in Orders |-> 0]
    /\ reported = {}
    /\ credits = [o \in Orders |-> 0]
    /\ balance \in [Users -> Nat]

Sell(o) ==
    /\ owner[o] = NoUser
    /\ \E u \in Users : owner' = [owner EXCEPT ![o] = u]
    /\ coins'[o] \in Nat
    /\ coins' = [coins EXCEPT ![o] = coins'[o]]
    /\ UNCHANGED <<reported, credits, balance>>

Report(o) ==
    /\ owner[o] \in Users
    /\ reported' = reported \cup {o}
    /\ UNCHANGED <<owner, coins, credits, balance>>

Credit(o) ==
    /\ o \in reported
    /\ credits[o] = 0
    /\ credits' = [credits EXCEPT ![o] = 1]
    /\ balance' = [balance EXCEPT ![owner[o]] = @ + coins[o]]
    /\ UNCHANGED <<owner, coins, reported>>

LedgerNext == \E o \in Orders : Sell(o) \/ Report(o) \/ Credit(o)

LedgerSpec == LedgerInit /\ [][LedgerNext]_ledgerVars

=============================================================================
