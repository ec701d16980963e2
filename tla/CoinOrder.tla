------------------------------ MODULE CoinOrder ------------------------------
(***************************************************************************)
(* The purchase of coins: POST /coin-orders and /coin-orders/bundle insert *)
(* a PENDING order and open a checkout at the payment gateway; the         *)
(* gateway's webhook settles the order and credits the wallet.             *)
(*                                                                         *)
(* The API runs as several Node processes on one PostgreSQL database, so   *)
(* every await of a handler is a point where other handlers run.  A        *)
(* request and a webhook delivery are therefore processes with a program   *)
(* counter; a database statement, or a $transaction block, is one step.    *)
(* Any process may be lost between two steps.                              *)
(*                                                                         *)
(* A handler that ends with an error before it wrote anything goes back to *)
(* "idle"; where that happens in its first step there is no action for it. *)
(***************************************************************************)
EXTENDS Naturals, FiniteSets, Functions

CONSTANTS
    Users,           \* account owners
    NoUser,          \* no owner
    Registered,      \* the users who got a wallet at registration
    DefaultBalance,  \* WALLET_DEFAULT_BALANCE, the coins of that wallet
    Orders,          \* rows coin_orders can hold (bounds the runs)
    NoOrder,         \* no row
    Offers,          \* what can be bought: [coins, price]
    Amounts,         \* what a notification may report as paid, 0: nothing
    Requests,        \* checkout requests that may run at the same time
    MockMode,        \* MPG_MOCK_MODE outside production
    Deliveries       \* webhook deliveries that may run at the same time

ASSUME UsersAssumption == NoUser \notin Users /\ Registered \subseteq Users
ASSUME DefaultBalanceAssumption == DefaultBalance \in Nat
ASSUME NoOrderAssumption == NoOrder \notin Orders
ASSUME OffersAssumption == Offers \subseteq [coins : Nat, price : Nat]
ASSUME AmountsAssumption == Amounts \subseteq Nat /\ 0 \in Amounts
ASSUME MockModeAssumption == MockMode \in BOOLEAN

VARIABLES
    status,    \* status of each order row, "NONE" before the insert
    owner,     \* its user_id
    coins,     \* its coin_amount
    price,     \* its price_paid
    linked,    \* orders whose pg_response_id and redirect_url are recorded
    aged,      \* orders older than PENDING_ORDER_TTL_MS
    credits,   \* number of TOPUP rows of coin_transactions with this ref_id
    wallets,   \* users with a coin_wallets row
    balance,   \* the balance of that row, 0 where there is none
    req,       \* checkout requests in flight
    opened,    \* orders the gateway has a checkout session for
    notices,   \* notifications the gateway delivers, any number of times
    dlv        \* webhook deliveries in flight

termVars == <<owner, coins, price>>
walletVars == <<credits, wallets, balance>>
gatewayVars == <<opened, notices>>
vars == <<status, termVars, linked, aged, walletVars, req, gatewayVars, dlv>>

Statuses == {"NONE", "PENDING", "PAID", "FAILED", "EXPIRED"}
Notices == [order : Orders, outcome : {"success", "failure"}, amount : Amounts]
RequestStates ==
    [pc : {"idle", "expiring", "preparing", "checkout", "failing", "recording"},
     user : Users \cup {NoUser}, order : Orders \cup {NoOrder}]
DeliveryStates ==
    [pc : {"idle", "crediting", "rejecting"}, order : Orders \cup {NoOrder}]

IdleRequest == [pc |-> "idle", user |-> NoUser, order |-> NoOrder]
IdleDelivery == [pc |-> "idle", order |-> NoOrder]

(* Request r goes on to pc, with order o.                                   *)
GoTo(r, pc, o) ==
    req' = [req EXCEPT ![r] = [pc |-> pc, user |-> req[r].user, order |-> o]]

(* findPendingByUserId.                                                     *)
PendingOf(u) == {o \in Orders : status[o] = "PENDING" /\ owner[o] = u}

Init ==
    /\ status = [o \in Orders |-> "NONE"]
    /\ owner = [o \in Orders |-> NoUser]
    /\ coins = [o \in Orders |-> 0]
    /\ price = [o \in Orders |-> 0]
    /\ linked = {}
    /\ aged = {}
    /\ credits = [o \in Orders |-> 0]
    /\ wallets = Registered
    /\ balance = [u \in Users |-> IF u \in Registered THEN DefaultBalance ELSE 0]
    /\ req = [r \in Requests |-> IdleRequest]
    /\ opened = {}
    /\ notices = {}
    /\ dlv = [d \in Deliveries |-> IdleDelivery]

-----------------------------------------------------------------------------
(* Checkout: createCoinOrder and createBundleOrder, which take the same     *)
(* steps.                                                                   *)

(* The user's pending order is past PENDING_ORDER_TTL_MS.                   *)
NeverAbandoned(u) == {}
Abandoned(u) == PendingOf(u) \cap aged

(* The partial unique index coin_orders_one_pending_per_user.               *)
NoUniqueIndex(u) == TRUE
IndexAdmits(u) == PendingOf(u) = {}

(* markFailedIfPending, and the same statement in handlePaymentFailure.     *)
MarkFailedAlways(o) == status' = [status EXCEPT ![o] = "FAILED"]
MarkFailed(o) ==
    status' = IF status[o] = "PENDING" THEN [status EXCEPT ![o] = "FAILED"] ELSE status

(* assertNoActivePendingOrder finds no PENDING order of the user, or finds  *)
(* one past its time to live.  A younger one ends the request.              *)
BeginCheckout(r, u) ==
    /\ req[r].pc = "idle"
    /\ \/ /\ PendingOf(u) = {}
          /\ req' = [req EXCEPT ![r] = [pc |-> "preparing", user |-> u, order |-> NoOrder]]
       \/ \E o \in Abandoned(u) :
             req' = [req EXCEPT ![r] = [pc |-> "expiring", user |-> u, order |-> o]]
    /\ UNCHANGED <<status, termVars, linked, aged, walletVars, gatewayVars, dlv>>

(* The abandoned order found by that read is set to EXPIRED, whatever its   *)
(* status is by now.                                                        *)
ExpireAbandoned(r) ==
    /\ req[r].pc = "expiring"
    /\ status' = [status EXCEPT ![req[r].order] = "EXPIRED"]
    /\ GoTo(r, "preparing", NoOrder)
    /\ UNCHANGED <<termVars, linked, aged, walletVars, gatewayVars, dlv>>

(* prepare...Order prices the offer, then save...Order inserts the row: the *)
(* partial unique index admits one PENDING row per user.                    *)
SaveOrder(r) ==
    /\ req[r].pc = "preparing"
    /\ IndexAdmits(req[r].user)
    /\ \E o \in Orders, offer \in Offers :
          /\ status[o] = "NONE"
          /\ status' = [status EXCEPT ![o] = "PENDING"]
          /\ owner' = [owner EXCEPT ![o] = req[r].user]
          /\ coins' = [coins EXCEPT ![o] = offer.coins]
          /\ price' = [price EXCEPT ![o] = offer.price]
          /\ GoTo(r, "checkout", o)
    /\ UNCHANGED <<linked, aged, walletVars, gatewayVars, dlv>>

(* createCheckout returns: the gateway has a session for the order.         *)
CheckoutOpened(r) ==
    /\ req[r].pc = "checkout"
    /\ opened' = opened \cup {req[r].order}
    /\ GoTo(r, "recording", req[r].order)
    /\ UNCHANGED <<status, termVars, linked, aged, walletVars, notices, dlv>>

(* createCheckout throws: on a lost answer the session exists all the same. *)
CheckoutFailed(r) ==
    /\ req[r].pc = "checkout"
    /\ opened' \in {opened, opened \cup {req[r].order}}
    /\ GoTo(r, "failing", req[r].order)
    /\ UNCHANGED <<status, termVars, linked, aged, walletVars, notices, dlv>>

(* failOrder: FAILED only if still PENDING.                                 *)
FailOrder(r) ==
    /\ req[r].pc = "failing"
    /\ MarkFailed(req[r].order)
    /\ req' = [req EXCEPT ![r] = IdleRequest]
    /\ UNCHANGED <<termVars, linked, aged, walletVars, gatewayVars, dlv>>

(* updateOrderPaymentInfo writes the payment columns, never the status.     *)
RecordPaymentInfo(r) ==
    /\ req[r].pc = "recording"
    /\ linked' = linked \cup {req[r].order}
    /\ req' = [req EXCEPT ![r] = IdleRequest]
    /\ UNCHANGED <<status, termVars, aged, walletVars, gatewayVars, dlv>>

(* The request ends early: its process is lost, or while "preparing" the    *)
(* bundle, payment method, nominal or the unique index refuses it.          *)
AbandonRequest(r) ==
    /\ req[r].pc # "idle"
    /\ req' = [req EXCEPT ![r] = IdleRequest]
    /\ UNCHANGED <<status, termVars, linked, aged, walletVars, gatewayVars, dlv>>

(* A PENDING order passes PENDING_ORDER_TTL_MS.                             *)
Age(o) ==
    /\ status[o] = "PENDING"
    /\ aged' = aged \cup {o}
    /\ UNCHANGED <<status, termVars, linked, walletVars, req, gatewayVars, dlv>>

-----------------------------------------------------------------------------
(* The gateway, external: Bank Mega or Midtrans.  A declined attempt may be *)
(* followed by a captured one, a captured payment be cancelled later.       *)

GatewayReports(o) ==
    /\ o \in opened
    /\ \/ /\ ~ \E n \in notices : n.order = o /\ n.outcome = "success"
          /\ \E a \in Amounts :
                notices' = notices \cup {[order |-> o, outcome |-> "success", amount |-> a]}
       \/ notices' = notices \cup {[order |-> o, outcome |-> "failure", amount |-> 0]}
    /\ UNCHANGED <<status, termVars, linked, aged, walletVars, req, opened, dlv>>

(* POST /simulate-webhook, there in mock mode only: whoever knows the id of *)
(* an order makes up its notification, which says "success" or "failed" and *)
(* names no amount.  No checkout session need exist, no signature is asked  *)
(* for, and an order may be simulated both ways.                            *)
SimulateWebhook(o) ==
    /\ MockMode
    /\ status[o] # "NONE"
    /\ \E outcome \in {"success", "failure"} :
          notices' = notices \cup {[order |-> o, outcome |-> outcome, amount |-> 0]}
    /\ UNCHANGED <<status, termVars, linked, aged, walletVars, req, opened, dlv>>

-----------------------------------------------------------------------------
(* Webhooks: processWebhook of either gateway.                              *)

(* A reported amount that differs from the price ends the delivery.         *)
AmountIgnored(n) == TRUE
AmountMatches(n) == n.amount > 0 => n.amount = price[n.order]

(* handlePaymentSuccess up to its transaction.                              *)
ReceiveSuccess(d, n) ==
    /\ dlv[d].pc = "idle"
    /\ n.outcome = "success"
    /\ status[n.order] # "NONE"
    /\ AmountMatches(n)
    /\ dlv' = [dlv EXCEPT ![d] = [pc |-> "crediting", order |-> n.order]]
    /\ UNCHANGED <<status, termVars, linked, aged, walletVars, req, gatewayVars>>

(* The idempotency guard: the order is still PENDING.                       *)
TakesTwice(o) == status[o] \in {"PENDING", "PAID"}
TakesLinkedOnly(o) == status[o] = "PENDING" /\ o \in linked
TakesCredit(o) == status[o] = "PENDING"

(* The wallet is incremented by the order's coins.                          *)
SetCoins(o) == balance' = [balance EXCEPT ![owner[o]] = coins[o]]
AddCoins(o) == balance' = [balance EXCEPT ![owner[o]] = @ + coins[o]]

(* Its transaction: PENDING to PAID, the wallet found or made, the coins    *)
(* added and the TOPUP row written; nothing unless the order was PENDING.   *)
CreditOrder(d) ==
    LET o == dlv[d].order IN
    /\ dlv[d].pc = "crediting"
    /\ IF TakesCredit(o)
       THEN /\ status' = [status EXCEPT ![o] = "PAID"]
            /\ wallets' = wallets \cup {owner[o]}
            /\ AddCoins(o)
            /\ credits' = [credits EXCEPT ![o] = @ + 1]
       ELSE UNCHANGED <<status, walletVars>>
    /\ dlv' = [dlv EXCEPT ![d] = IdleDelivery]
    /\ UNCHANGED <<termVars, linked, aged, req, gatewayVars>>

(* handlePaymentFailure reads the order: one not PENDING ends the delivery. *)
ReceiveFailure(d, n) ==
    /\ dlv[d].pc = "idle"
    /\ n.outcome = "failure"
    /\ status[n.order] = "PENDING"
    /\ dlv' = [dlv EXCEPT ![d] = [pc |-> "rejecting", order |-> n.order]]
    /\ UNCHANGED <<status, termVars, linked, aged, walletVars, req, gatewayVars>>

(* Its conditional update.                                                  *)
RejectOrder(d) ==
    /\ dlv[d].pc = "rejecting"
    /\ MarkFailed(dlv[d].order)
    /\ dlv' = [dlv EXCEPT ![d] = IdleDelivery]
    /\ UNCHANGED <<termVars, linked, aged, walletVars, req, gatewayVars>>

(* The delivery's process is lost, or its transaction is rolled back.       *)
LoseDelivery(d) ==
    /\ dlv[d].pc # "idle"
    /\ dlv' = [dlv EXCEPT ![d] = IdleDelivery]
    /\ UNCHANGED <<status, termVars, linked, aged, walletVars, req, gatewayVars>>

-----------------------------------------------------------------------------
Checkout(r) ==
    \/ \E u \in Users : BeginCheckout(r, u)
    \/ ExpireAbandoned(r)
    \/ SaveOrder(r)
    \/ CheckoutOpened(r)
    \/ CheckoutFailed(r)
    \/ FailOrder(r)
    \/ RecordPaymentInfo(r)
    \/ AbandonRequest(r)

Webhook(d) ==
    \/ \E n \in notices : ReceiveSuccess(d, n) \/ ReceiveFailure(d, n)
    \/ CreditOrder(d)
    \/ RejectOrder(d)
    \/ LoseDelivery(d)

Next ==
    \/ \E r \in Requests : Checkout(r)
    \/ \E d \in Deliveries : Webhook(d)
    \/ \E o \in Orders : Age(o) \/ GatewayReports(o) \/ SimulateWebhook(o)

Spec == Init /\ [][Next]_vars

-----------------------------------------------------------------------------
(* Properties.                                                              *)

(* The tables and the local variables of the handlers keep their types.     *)
TypeOK ==
    /\ status \in [Orders -> Statuses]
    /\ owner \in [Orders -> Users \cup {NoUser}]
    /\ coins \in [Orders -> Nat]
    /\ price \in [Orders -> Nat]
    /\ linked \subseteq Orders
    /\ aged \subseteq Orders
    /\ credits \in [Orders -> Nat]
    /\ wallets \subseteq Users
    /\ balance \in [Users -> Nat]
    /\ req \in [Requests -> RequestStates]
    /\ opened \subseteq Orders
    /\ notices \subseteq Notices
    /\ dlv \in [Deliveries -> DeliveryStates]

(* However checkouts, retries, late webhooks and expiries interleave, a     *)
(* user has at most one order that can still be paid: the check at the      *)
(* start of a request is stale by the time of the insert.                   *)
OnePendingPerUser ==
    \A o1, o2 \in Orders :
        status[o1] = "PENDING" /\ status[o2] = "PENDING" /\ owner[o1] = owner[o2]
            => o1 = o2

(* Duplicated, concurrent and reordered webhooks: an order is credited at   *)
(* most once, a PAID order has its TOPUP row, and an order with a TOPUP row *)
(* is PAID, unless a stale expiry came later.  A FAILED order has none.     *)
CreditedOnceWhenPaid ==
    \A o \in Orders :
        /\ credits[o] <= 1
        /\ status[o] = "PAID" => credits[o] = 1
        /\ credits[o] = 1 => status[o] \in {"PAID", "EXPIRED"}

(* The wallet holds the opening coins and those of the TOPUP rows, no more  *)
(* and no less: handlePaymentSuccess moves both in one transaction.         *)
BalanceMatchesLedger ==
    \A u \in Users :
        balance[u] = (IF u \in Registered THEN DefaultBalance ELSE 0)
            + SumFunctionOnSet([o \in Orders |-> credits[o] * coins[o]],
                               {o \in Orders : owner[o] = u})

(* Coins are only added for an order the gateway reported paid, at the      *)
(* price the order was made with or at no price at all.                     *)
CreditIsReported ==
    \A o \in Orders : credits[o] > 0 =>
        \E n \in notices :
            /\ n.order = o
            /\ n.outcome = "success"
            /\ n.amount \in {0, price[o]}

(* A settled order is never reopened, and never changes sides: late or      *)
(* reordered webhooks and a failing checkout leave PAID, FAILED and EXPIRED *)
(* alone.  (A stale expiry does not: see PaidNotExpired.)                   *)
SettledForGood ==
    [][\A o \in Orders : status[o] \in {"PAID", "FAILED", "EXPIRED"} =>
            status'[o] \in {status[o], "EXPIRED"}]_vars

(* The comment of assertNoActivePendingOrder: "A PENDING order older than   *)
(* PENDING_ORDER_TTL_MS is treated as abandoned: it is expired".  A PAID    *)
(* order is not abandoned and does not become EXPIRED.  The code writes     *)
(* EXPIRED on the strength of an earlier read.                              *)
PaidNotExpired ==
    [][\A o \in Orders : status[o] = "PAID" => status'[o] # "EXPIRED"]_vars

(* The purchase implements CoinLedger: the order's terms are what the       *)
(* insert wrote, "reported" is what the gateway has announced.              *)
Ledger == INSTANCE CoinLedger WITH
    reported <- {n.order : n \in {m \in notices : m.outcome = "success"}}

ImplementsLedger == Ledger!LedgerSpec

-----------------------------------------------------------------------------
(* Liveness.                                                                *)

RequestRuns(r) ==
    \/ ExpireAbandoned(r)
    \/ SaveOrder(r)
    \/ CheckoutOpened(r)
    \/ CheckoutFailed(r)
    \/ FailOrder(r)
    \/ RecordPaymentInfo(r)
    \/ AbandonRequest(r)

(* Time passes, a request in flight runs or is lost, a user who is refused  *)
(* keeps trying, and not every try is lost at the same await.               *)
RetryFairness ==
    /\ \A o \in Orders : WF_vars(Age(o))
    /\ \A r \in Requests : WF_vars(RequestRuns(r)) /\ SF_vars(ExpireAbandoned(r))
    /\ \A u \in Users : SF_vars(\E r \in Requests : BeginCheckout(r, u))

(* The gateway repeats a notification until it is acknowledged, and not     *)
(* every delivery is lost.                                                  *)
DeliveryFairness ==
    /\ \A o \in Orders :
            /\ SF_vars(\E d \in Deliveries, n \in notices :
                    n.order = o /\ ReceiveSuccess(d, n))
            /\ SF_vars(\E d \in Deliveries : dlv[d].order = o /\ CreditOrder(d))
    /\ \A d \in Deliveries :
            WF_vars(CreditOrder(d) \/ RejectOrder(d) \/ LoseDelivery(d))

(* "expired so the user is never permanently locked out by a stuck          *)
(* checkout": whatever was lost on the way, a user who keeps trying gets    *)
(* rid of a PENDING order, without any help from the gateway.               *)
NoPermanentLockout ==
    RetryFairness => \A o \in Orders : status[o] = "PENDING" ~> status[o] # "PENDING"

(* A payment reported at the right amount is turned into coins, or the      *)
(* order was settled otherwise before: it does not stay PENDING.            *)
ReportedPaymentSettles ==
    DeliveryFairness => \A o \in Orders :
        (\E n \in notices : n.order = o /\ n.outcome = "success" /\ AmountMatches(n))
            ~> (credits[o] = 1 \/ status[o] \in {"FAILED", "EXPIRED"})

=============================================================================
