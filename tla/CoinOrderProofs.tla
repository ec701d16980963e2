--------------------------- MODULE CoinOrderProofs ---------------------------
(***************************************************************************)
(* Theorems of CoinOrder, for any number of users, orders, requests and    *)
(* webhook deliveries and any offers and amounts.                          *)
(***************************************************************************)
EXTENDS CoinOrder, Integers, FiniteSetTheorems, WellFoundedInduction, TLAPS

(* What the handlers and the gateway hold refers to rows that exist.        *)
RowsExist ==
    /\ \A o \in Orders : status[o] # "NONE" <=> owner[o] \in Users
    /\ \A r \in Requests :
          /\ req[r].pc # "idle" => req[r].user \in Users
          /\ req[r].pc \in {"expiring", "checkout", "failing", "recording"} =>
                req[r].order \in Orders /\ status[req[r].order] # "NONE"
    /\ \A d \in Deliveries : dlv[d].pc # "idle" =>
          dlv[d].order \in Orders /\ status[dlv[d].order] # "NONE"
    /\ \A o \in opened : status[o] # "NONE"
    /\ \A n \in notices : status[n.order] # "NONE"

(* A delivery about to credit an order was called by a matching notice.     *)
CreditingIsReported ==
    \A d \in Deliveries : dlv[d].pc = "crediting" =>
        \E n \in notices :
            n.order = dlv[d].order /\ n.outcome = "success" /\ n.amount \in {0, price[n.order]}

IInv ==
    /\ TypeOK
    /\ RowsExist
    /\ CreditingIsReported
    /\ OnePendingPerUser
    /\ CreditedOnceWhenPaid
    /\ CreditIsReported

-----------------------------------------------------------------------------
LEMMA InitIInv == Init => IInv
  <1> SUFFICES ASSUME Init PROVE IInv
    OBVIOUS
  <1> USE DEF Init, IdleRequest, IdleDelivery
  <1>1. TypeOK
    BY UsersAssumption, DefaultBalanceAssumption
       DEF TypeOK, Statuses, RequestStates, DeliveryStates
  <1>2. RowsExist
    BY UsersAssumption DEF RowsExist
  <1>3. CreditingIsReported /\ OnePendingPerUser /\ CreditedOnceWhenPaid /\ CreditIsReported
    BY DEF CreditingIsReported, OnePendingPerUser, CreditedOnceWhenPaid, CreditIsReported
  <1> QED
    BY <1>1, <1>2, <1>3 DEF IInv

-----------------------------------------------------------------------------
(* Every step preserves the inductive invariant.  A step that leaves        *)
(* status, owner, price, credits and notices alone, or only adds to         *)
(* notices, cannot disturb the last three conjuncts.                        *)
LEMMA NextIInv == IInv /\ [Next]_vars => IInv'
  <1> SUFFICES ASSUME IInv, [Next]_vars PROVE IInv'
    OBVIOUS
  <1> USE DEF IInv, GoTo, IndexAdmits, MarkFailed, TakesCredit, AddCoins, termVars,
              walletVars, gatewayVars, Statuses, RequestStates,
              DeliveryStates, IdleRequest, IdleDelivery, Notices
  <1>1. ASSUME NEW r \in Requests, NEW u \in Users, BeginCheckout(r, u) PROVE IInv'
    <2> USE <1>1 DEF BeginCheckout, Abandoned, PendingOf
    <2>1. TypeOK'
      BY AmountsAssumption DEF TypeOK, RowsExist
    <2>2. RowsExist'
      BY UsersAssumption DEF TypeOK, RowsExist
    <2>3. CreditingIsReported'
      BY DEF TypeOK, RowsExist, CreditingIsReported
    <2>4. OnePendingPerUser' /\ CreditedOnceWhenPaid' /\ CreditIsReported'
      BY DEF OnePendingPerUser, CreditedOnceWhenPaid, CreditIsReported
    <2> QED
      BY <2>1, <2>2, <2>3, <2>4
  <1>2. ASSUME NEW r \in Requests, ExpireAbandoned(r) PROVE IInv'
    <2> USE <1>2 DEF ExpireAbandoned
    <2>1. TypeOK'
      BY AmountsAssumption DEF TypeOK, RowsExist
    <2>2. RowsExist'
      BY UsersAssumption DEF TypeOK, RowsExist
    <2>3. CreditingIsReported'
      BY DEF TypeOK, RowsExist, CreditingIsReported
    <2>4. OnePendingPerUser'
      BY DEF TypeOK, RowsExist, OnePendingPerUser
    <2>5. CreditedOnceWhenPaid'
      BY DEF TypeOK, RowsExist, CreditedOnceWhenPaid
    <2>6. CreditIsReported'
      BY DEF TypeOK, RowsExist, CreditIsReported, CreditingIsReported,
          CreditedOnceWhenPaid
    <2> QED
      BY <2>1, <2>2, <2>3, <2>4, <2>5, <2>6
  <1>3. ASSUME NEW r \in Requests, SaveOrder(r) PROVE IInv'
    <2> USE <1>3 DEF SaveOrder, PendingOf
    <2>1. TypeOK'
      <3> PICK o \in Orders, offer \in Offers :
              /\ status' = [status EXCEPT ![o] = "PENDING"]
              /\ owner' = [owner EXCEPT ![o] = req[r].user]
              /\ coins' = [coins EXCEPT ![o] = offer.coins]
              /\ price' = [price EXCEPT ![o] = offer.price]
              /\ GoTo(r, "checkout", o)
        OBVIOUS
      <3>1. req[r].user \in Users \cup {NoUser} /\ req' \in [Requests -> RequestStates]
        BY DEF TypeOK
      <3>2. offer.coins \in Nat /\ offer.price \in Nat
        BY OffersAssumption
      <3>3. /\ status' \in [Orders -> Statuses]
            /\ owner' \in [Orders -> Users \cup {NoUser}]
            /\ coins' \in [Orders -> Nat]
            /\ price' \in [Orders -> Nat]
        BY <3>1, <3>2 DEF TypeOK
      <3> QED
        BY <3>1, <3>3 DEF TypeOK
    <2>2. RowsExist'
      BY UsersAssumption DEF TypeOK, RowsExist
    <2>3. CreditingIsReported'
      BY DEF TypeOK, RowsExist, CreditingIsReported
    <2>4. OnePendingPerUser'
      BY DEF TypeOK, RowsExist, OnePendingPerUser
    <2>5. CreditedOnceWhenPaid'
      BY DEF TypeOK, RowsExist, CreditedOnceWhenPaid
    <2>6. CreditIsReported'
      BY DEF TypeOK, RowsExist, CreditIsReported, CreditingIsReported,
          CreditedOnceWhenPaid
    <2> QED
      BY <2>1, <2>2, <2>3, <2>4, <2>5, <2>6
  <1>4. ASSUME NEW r \in Requests, CheckoutOpened(r) PROVE IInv'
    <2> USE <1>4 DEF CheckoutOpened
    <2>1. TypeOK'
      BY AmountsAssumption DEF TypeOK, RowsExist
    <2>2. RowsExist'
      BY UsersAssumption DEF TypeOK, RowsExist
    <2>3. CreditingIsReported'
      BY DEF TypeOK, RowsExist, CreditingIsReported
    <2>4. OnePendingPerUser' /\ CreditedOnceWhenPaid' /\ CreditIsReported'
      BY DEF OnePendingPerUser, CreditedOnceWhenPaid, CreditIsReported
    <2> QED
      BY <2>1, <2>2, <2>3, <2>4
  <1>5. ASSUME NEW r \in Requests, CheckoutFailed(r) PROVE IInv'
    <2> USE <1>5 DEF CheckoutFailed
    <2>1. TypeOK'
      BY AmountsAssumption DEF TypeOK, RowsExist
    <2>2. RowsExist'
      BY UsersAssumption DEF TypeOK, RowsExist
    <2>3. CreditingIsReported'
      BY DEF TypeOK, RowsExist, CreditingIsReported
    <2>4. OnePendingPerUser' /\ CreditedOnceWhenPaid' /\ CreditIsReported'
      BY DEF OnePendingPerUser, CreditedOnceWhenPaid, CreditIsReported
    <2> QED
      BY <2>1, <2>2, <2>3, <2>4
  <1>6. ASSUME NEW r \in Requests, FailOrder(r) PROVE IInv'
    <2> USE <1>6 DEF FailOrder
    <2>1. TypeOK'
      BY AmountsAssumption DEF TypeOK, RowsExist
    <2>2. RowsExist'
      BY UsersAssumption DEF TypeOK, RowsExist
    <2>3. CreditingIsReported'
      BY DEF TypeOK, RowsExist, CreditingIsReported
    <2>4. OnePendingPerUser'
      BY DEF TypeOK, RowsExist, OnePendingPerUser
    <2>5. CreditedOnceWhenPaid'
      BY DEF TypeOK, RowsExist, CreditedOnceWhenPaid
    <2>6. CreditIsReported'
      BY DEF TypeOK, RowsExist, CreditIsReported, CreditingIsReported,
          CreditedOnceWhenPaid
    <2> QED
      BY <2>1, <2>2, <2>3, <2>4, <2>5, <2>6
  <1>7. ASSUME NEW r \in Requests, RecordPaymentInfo(r) PROVE IInv'
    <2> USE <1>7 DEF RecordPaymentInfo
    <2>1. TypeOK'
      BY AmountsAssumption DEF TypeOK, RowsExist
    <2>2. RowsExist'
      BY UsersAssumption DEF TypeOK, RowsExist
    <2>3. CreditingIsReported'
      BY DEF TypeOK, RowsExist, CreditingIsReported
    <2>4. OnePendingPerUser' /\ CreditedOnceWhenPaid' /\ CreditIsReported'
      BY DEF OnePendingPerUser, CreditedOnceWhenPaid, CreditIsReported
    <2> QED
      BY <2>1, <2>2, <2>3, <2>4
  <1>8. ASSUME NEW r \in Requests, AbandonRequest(r) PROVE IInv'
    <2> USE <1>8 DEF AbandonRequest
    <2>1. TypeOK'
      BY AmountsAssumption DEF TypeOK, RowsExist
    <2>2. RowsExist'
      BY UsersAssumption DEF TypeOK, RowsExist
    <2>3. CreditingIsReported'
      BY DEF TypeOK, RowsExist, CreditingIsReported
    <2>4. OnePendingPerUser' /\ CreditedOnceWhenPaid' /\ CreditIsReported'
      BY DEF OnePendingPerUser, CreditedOnceWhenPaid, CreditIsReported
    <2> QED
      BY <2>1, <2>2, <2>3, <2>4
  <1>9. ASSUME NEW d \in Deliveries, NEW n \in notices, ReceiveSuccess(d, n) PROVE IInv'
    <2> USE <1>9 DEF ReceiveSuccess, AmountMatches
    <2>1. TypeOK'
      BY AmountsAssumption DEF TypeOK, RowsExist
    <2>2. RowsExist'
      BY UsersAssumption DEF TypeOK, RowsExist
    <2>3. CreditingIsReported'
      <3>1. n.amount \in {0, price[n.order]}
        <4>1. n \in Notices
          BY DEF TypeOK
        <4>2. n.amount \in Nat
          BY <4>1, AmountsAssumption
        <4> QED
          BY <4>2
      <3>2. dlv'[d].order = n.order /\ \A e \in Deliveries \ {d} : dlv'[e] = dlv[e]
        BY DEF TypeOK
      <3> QED
        BY <3>1, <3>2 DEF CreditingIsReported
    <2>4. OnePendingPerUser' /\ CreditedOnceWhenPaid' /\ CreditIsReported'
      BY DEF OnePendingPerUser, CreditedOnceWhenPaid, CreditIsReported
    <2> QED
      BY <2>1, <2>2, <2>3, <2>4
  <1>10. ASSUME NEW d \in Deliveries, NEW n \in notices, ReceiveFailure(d, n) PROVE IInv'
    <2> USE <1>10 DEF ReceiveFailure
    <2>1. TypeOK'
      BY AmountsAssumption DEF TypeOK, RowsExist
    <2>2. RowsExist'
      BY UsersAssumption DEF TypeOK, RowsExist
    <2>3. CreditingIsReported'
      BY DEF TypeOK, RowsExist, CreditingIsReported
    <2>4. OnePendingPerUser' /\ CreditedOnceWhenPaid' /\ CreditIsReported'
      BY DEF OnePendingPerUser, CreditedOnceWhenPaid, CreditIsReported
    <2> QED
      BY <2>1, <2>2, <2>3, <2>4
  <1>11. ASSUME NEW d \in Deliveries, CreditOrder(d) PROVE IInv'
    <2> USE <1>11 DEF CreditOrder
    <2>0. dlv[d].order \in Orders /\ owner[dlv[d].order] \in Users
      BY DEF RowsExist
    <2>1. TypeOK'
      <3>1. wallets' \subseteq Users /\ dlv' \in [Deliveries -> DeliveryStates]
        BY <2>0 DEF TypeOK
      <3>2. status' \in [Orders -> Statuses]
        BY <2>0 DEF TypeOK
      <3>3. balance' \in [Users -> Nat]
        BY <2>0 DEF TypeOK
      <3>4. credits' \in [Orders -> Nat]
        BY <2>0 DEF TypeOK
      <3> QED
        BY <3>1, <3>2, <3>3, <3>4 DEF TypeOK
    <2>2. RowsExist'
      BY UsersAssumption DEF TypeOK, RowsExist
    <2>3. CreditingIsReported'
      BY DEF TypeOK, RowsExist, CreditingIsReported
    <2>4. OnePendingPerUser'
      BY DEF TypeOK, RowsExist, OnePendingPerUser
    <2>5. CreditedOnceWhenPaid'
      <3> SUFFICES ASSUME NEW o \in Orders
                   PROVE  /\ credits'[o] <= 1
                          /\ status'[o] = "PAID" => credits'[o] = 1
                          /\ credits'[o] = 1 => status'[o] \in {"PAID", "EXPIRED"}
        BY DEF CreditedOnceWhenPaid
      <3>1. CASE o = dlv[d].order /\ status[o] = "PENDING"
        <4>0. credits[o] \in Nat /\ credits[o] <= 1 /\ credits[o] # 1
          BY <3>1 DEF TypeOK, CreditedOnceWhenPaid
        <4>1. credits[o] = 0
          BY <4>0
        <4>2. credits'[o] = 1 /\ status'[o] = "PAID"
          BY <2>0, <3>1, <4>1 DEF TypeOK
        <4> QED
          BY <4>2
      <3>2. CASE ~(o = dlv[d].order /\ status[o] = "PENDING")
        <4>1. credits'[o] = credits[o] /\ status'[o] = status[o]
          BY <2>0, <3>2 DEF TypeOK
        <4> QED
          BY <4>1 DEF CreditedOnceWhenPaid
      <3> QED
        BY <3>1, <3>2
    <2>6. CreditIsReported'
      BY DEF TypeOK, RowsExist, CreditIsReported, CreditingIsReported,
          CreditedOnceWhenPaid
    <2> QED
      BY <2>1, <2>2, <2>3, <2>4, <2>5, <2>6
  <1>12. ASSUME NEW d \in Deliveries, RejectOrder(d) PROVE IInv'
    <2> USE <1>12 DEF RejectOrder
    <2>1. TypeOK'
      BY AmountsAssumption DEF TypeOK, RowsExist
    <2>2. RowsExist'
      BY UsersAssumption DEF TypeOK, RowsExist
    <2>3. CreditingIsReported'
      BY DEF TypeOK, RowsExist, CreditingIsReported
    <2>4. OnePendingPerUser'
      BY DEF TypeOK, RowsExist, OnePendingPerUser
    <2>5. CreditedOnceWhenPaid'
      BY DEF TypeOK, RowsExist, CreditedOnceWhenPaid
    <2>6. CreditIsReported'
      BY DEF TypeOK, RowsExist, CreditIsReported, CreditingIsReported,
          CreditedOnceWhenPaid
    <2> QED
      BY <2>1, <2>2, <2>3, <2>4, <2>5, <2>6
  <1>13. ASSUME NEW d \in Deliveries, LoseDelivery(d) PROVE IInv'
    <2> USE <1>13 DEF LoseDelivery
    <2>1. TypeOK'
      BY AmountsAssumption DEF TypeOK, RowsExist
    <2>2. RowsExist'
      BY UsersAssumption DEF TypeOK, RowsExist
    <2>3. CreditingIsReported'
      BY DEF TypeOK, RowsExist, CreditingIsReported
    <2>4. OnePendingPerUser' /\ CreditedOnceWhenPaid' /\ CreditIsReported'
      BY DEF OnePendingPerUser, CreditedOnceWhenPaid, CreditIsReported
    <2> QED
      BY <2>1, <2>2, <2>3, <2>4
  <1>14. ASSUME NEW o \in Orders, Age(o) PROVE IInv'
    <2> USE <1>14 DEF Age
    <2>1. TypeOK'
      BY AmountsAssumption DEF TypeOK, RowsExist
    <2>2. RowsExist'
      BY UsersAssumption DEF TypeOK, RowsExist
    <2>3. CreditingIsReported'
      BY DEF TypeOK, RowsExist, CreditingIsReported
    <2>4. OnePendingPerUser' /\ CreditedOnceWhenPaid' /\ CreditIsReported'
      BY DEF OnePendingPerUser, CreditedOnceWhenPaid, CreditIsReported
    <2> QED
      BY <2>1, <2>2, <2>3, <2>4
  <1>15. ASSUME NEW o \in Orders, GatewayReports(o) PROVE IInv'
    <2> USE <1>15 DEF GatewayReports
    <2>1. TypeOK'
      BY AmountsAssumption DEF TypeOK, RowsExist
    <2>2. RowsExist'
      BY UsersAssumption DEF TypeOK, RowsExist
    <2>3. CreditingIsReported'
      BY DEF TypeOK, RowsExist, CreditingIsReported
    <2>4. OnePendingPerUser' /\ CreditedOnceWhenPaid' /\ CreditIsReported'
      BY DEF OnePendingPerUser, CreditedOnceWhenPaid, CreditIsReported
    <2> QED
      BY <2>1, <2>2, <2>3, <2>4
  <1>16. ASSUME NEW o \in Orders, SimulateWebhook(o) PROVE IInv'
    <2> USE <1>16 DEF SimulateWebhook
    <2>1. TypeOK'
      BY AmountsAssumption DEF TypeOK, RowsExist, Notices
    <2>2. RowsExist'
      BY UsersAssumption DEF TypeOK, RowsExist
    <2>3. CreditingIsReported'
      BY DEF TypeOK, RowsExist, CreditingIsReported
    <2>4. OnePendingPerUser' /\ CreditedOnceWhenPaid' /\ CreditIsReported'
      BY DEF OnePendingPerUser, CreditedOnceWhenPaid, CreditIsReported
    <2> QED
      BY <2>1, <2>2, <2>3, <2>4
  <1>17. CASE UNCHANGED vars
    BY <1>17 DEF TypeOK, vars, RowsExist, CreditingIsReported, OnePendingPerUser,
        CreditedOnceWhenPaid, CreditIsReported
  <1> QED
    BY <1>1, <1>2, <1>3, <1>4, <1>5, <1>6, <1>7, <1>8, <1>9, <1>10, <1>11, <1>12, <1>13, <1>14, <1>15, <1>16,
       <1>17
       DEF Next, Checkout, Webhook

THEOREM Invariance == Spec => []IInv
  <1> QED
    BY InitIInv, NextIInv, PTL DEF Spec

-----------------------------------------------------------------------------
(* The tables and the handlers' variables keep their types.                 *)
THEOREM TypeCorrect == Spec => []TypeOK
  <1>1. IInv => TypeOK
    BY DEF IInv
  <1> QED
    BY <1>1, Invariance, PTL

(* No interleaving of checkouts, expiries and webhooks leaves a user with   *)
(* two PENDING orders.                                                      *)
THEOREM OnePending == Spec => []OnePendingPerUser
  <1>1. IInv => OnePendingPerUser
    BY DEF IInv
  <1> QED
    BY <1>1, Invariance, PTL

(* An order has at most one TOPUP row, and has one when it is PAID.         *)
THEOREM CreditedOnce == Spec => []CreditedOnceWhenPaid
  <1>1. IInv => CreditedOnceWhenPaid
    BY DEF IInv
  <1> QED
    BY <1>1, Invariance, PTL

(* A TOPUP row answers a notification that the order was paid at its price. *)
THEOREM CreditReported == Spec => []CreditIsReported
  <1>1. IInv => CreditIsReported
    BY DEF IInv
  <1> QED
    BY <1>1, Invariance, PTL

(* PAID, FAILED and EXPIRED orders keep their status, or become EXPIRED.    *)
THEOREM Settled == Spec => SettledForGood
  <1>1. IInv /\ [Next]_vars =>
            [\A o \in Orders : status[o] \in {"PAID", "FAILED", "EXPIRED"} =>
                status'[o] \in {status[o], "EXPIRED"}]_vars
    <2> SUFFICES ASSUME IInv, [Next]_vars, NEW o \in Orders,
                        status[o] \in {"PAID", "FAILED", "EXPIRED"}
                 PROVE  status'[o] \in {status[o], "EXPIRED"}
      BY DEF SettledForGood
    <2>1. CASE UNCHANGED status
      BY <2>1
    <2>2. ASSUME NEW r \in Requests, ExpireAbandoned(r) \/ SaveOrder(r) \/ FailOrder(r)
          PROVE  status'[o] \in {status[o], "EXPIRED"}
      BY <2>2 DEF IInv, TypeOK, ExpireAbandoned, SaveOrder, FailOrder, MarkFailed
    <2>3. ASSUME NEW d \in Deliveries, CreditOrder(d) \/ RejectOrder(d)
          PROVE  status'[o] \in {status[o], "EXPIRED"}
      BY <2>3 DEF IInv, TypeOK, CreditOrder, RejectOrder, TakesCredit, MarkFailed
    <2> QED
      BY <2>1, <2>2, <2>3 DEF Next, Checkout, Webhook, vars, BeginCheckout,
          CheckoutOpened, CheckoutFailed, RecordPaymentInfo, AbandonRequest,
          ReceiveSuccess, ReceiveFailure, LoseDelivery, Age, GatewayReports,
          SimulateWebhook
  <1> QED
    BY <1>1, Invariance, PTL DEF Spec, SettledForGood

-----------------------------------------------------------------------------
(* Sums over finite sets, for the theorem on balances below.  The fold of   *)
(* the community modules is a CHOOSE of a function that adds up; that one   *)
(* exists, and what it yields, follows by induction over finite sets.       *)

Pick(s) == CHOOSE x \in s : TRUE
Sum(f, S) == SumFunctionOnSet(f, S)

(* g adds up f over the subsets of S, one element after the other.          *)
AddsUp(f, S, g) ==
    g = [s \in SUBSET S |-> IF s = {} THEN 0 ELSE f[Pick(s)] + g[s \ {Pick(s)}]]

LEMMA SumIsChosen ==
  ASSUME NEW f, NEW S
  PROVE  Sum(f, S) = (CHOOSE g : AddsUp(f, S, g))[S]
  BY DEF Sum, SumFunctionOnSet, FoldFunctionOnSet, MapThenFoldSet, AddsUp, Pick

(* Induction over the subsets of a finite set: what is not true of all of   *)
(* them is not true of a least one.                                         *)
LEMMA LeastSubset ==
  ASSUME NEW S, IsFiniteSet(S), NEW T \in SUBSET (SUBSET S), T # {}
  PROVE  \E t \in T : \A u \in T : u \subseteq t => u = t
  <1>1. PICK t \in T : \A u \in T : ~ (<<u, t>> \in StrictSubsetOrdering(S))
    BY FS_StrictSubsetOrderingWellFounded, FS_FiniteSubsetsOfFinite, WFMin
  <1> QED
    BY <1>1 DEF StrictSubsetOrdering

LEMMA AddsUpAlike ==
  ASSUME NEW f, NEW A, NEW B, IsFiniteSet(A), NEW g, NEW h, AddsUp(f, A, g), AddsUp(f, B, h)
  PROVE  \A s \in SUBSET (A \cap B) : g[s] = h[s]
  <1> DEFINE T == {s \in SUBSET (A \cap B) : g[s] # h[s]}
  <1> SUFFICES ASSUME T # {} PROVE FALSE
    OBVIOUS
  <1>1. PICK t \in T : \A u \in T : u \subseteq t => u = t
    <2>1. T \in SUBSET (SUBSET A)
      OBVIOUS
    <2> HIDE DEF T
    <2> QED
      BY <2>1, LeastSubset
  <1>2. CASE t = {}
    BY <1>2 DEF AddsUp
  <1>3. CASE t # {}
    <2>1. Pick(t) \in t
      BY <1>3 DEF Pick
    <2>2. g[t \ {Pick(t)}] = h[t \ {Pick(t)}]
      BY <1>1, <2>1
    <2>3. g[t] = f[Pick(t)] + g[t \ {Pick(t)}]
      BY <1>3 DEF AddsUp
    <2>4. h[t] = f[Pick(t)] + h[t \ {Pick(t)}]
      BY <1>3 DEF AddsUp
    <2> QED
      BY <2>2, <2>3, <2>4
  <1> QED
    BY <1>2, <1>3

LEMMA SumOfSubset ==
  ASSUME NEW f, NEW S, IsFiniteSet(S), NEW g, AddsUp(f, S, g), NEW s \in SUBSET S,
         \E h : AddsUp(f, s, h)
  PROVE  Sum(f, s) = g[s]
  <1> DEFINE h == CHOOSE h : AddsUp(f, s, h)
  <1>1. AddsUp(f, s, h)
    OBVIOUS
  <1>2. Sum(f, s) = h[s]
    BY SumIsChosen
  <1> HIDE DEF h
  <1> QED
    BY <1>1, <1>2, AddsUpAlike

(* The sum of a finite set is well defined.                                 *)
LEMMA SumsExist ==
  ASSUME NEW f, NEW S, IsFiniteSet(S)
  PROVE  \E g : AddsUp(f, S, g)
  <1> DEFINE T == {s \in SUBSET S : ~ \E g : AddsUp(f, s, g)}
  <1> SUFFICES ASSUME T # {} PROVE FALSE
    OBVIOUS
  <1>1. PICK t \in T : \A u \in T : u \subseteq t => u = t
    <2>1. T \in SUBSET (SUBSET S)
      OBVIOUS
    <2> HIDE DEF T
    <2> QED
      BY <2>1, LeastSubset
  <1>2. IsFiniteSet(t)
    BY FS_Subset
  <1> DEFINE c == Pick(t)
             g == [s \in SUBSET t |->
                      IF s = {} THEN 0
                      ELSE IF s = t THEN f[c] + Sum(f, t \ {c}) ELSE Sum(f, s)]
  <1>3. Sum(f, {}) = 0
    <2> DEFINE z == [s \in SUBSET {} |-> 0]
    <2>1. AddsUp(f, {}, z)
      BY DEF AddsUp
    <2> HIDE DEF z
    <2>2. Sum(f, {}) = z[{}]
      BY <2>1, FS_EmptySet, SumOfSubset
    <2> QED
      BY <2>2 DEF z
  <1>4. t # {} => c \in t
    BY DEF Pick
  <1>5. ASSUME NEW s \in SUBSET t, s # {}
        PROVE  g[s] = f[Pick(s)] + g[s \ {Pick(s)}]
    <2>1. Pick(s) \in s
      BY <1>5 DEF Pick
    <2> DEFINE r == s \ {Pick(s)}
    <2>2. g[r] = Sum(f, r)
      BY <1>3, <2>1
    <2>3. CASE s = t
      BY <1>5, <2>2, <2>3
    <2>4. CASE s # t
      <3>1. PICK h : AddsUp(f, s, h)
        BY <1>1, <2>4
      <3>2. \E k : AddsUp(f, r, k)
        BY <1>1, <2>1
      <3>3. IsFiniteSet(s)
        BY <1>2, FS_Subset
      <3>4. Sum(f, s) = h[s] /\ Sum(f, r) = h[r]
        BY <3>1, <3>2, <3>3, SumOfSubset
      <3>5. h[s] = f[Pick(s)] + h[r]
        BY <3>1, <1>5 DEF AddsUp
      <3> QED
        BY <1>5, <2>2, <2>4, <3>4, <3>5
    <2> QED
      BY <2>3, <2>4
  <1>6. g = [s \in SUBSET t |-> IF s = {} THEN 0 ELSE f[Pick(s)] + g[s \ {Pick(s)}]]
    <2> DEFINE k == [s \in SUBSET t |-> IF s = {} THEN 0 ELSE f[Pick(s)] + g[s \ {Pick(s)}]]
    <2>1. ASSUME NEW s \in SUBSET t PROVE g[s] = k[s]
      BY <1>5
    <2> QED
      BY <2>1
  <1> HIDE DEF g
  <1>7. AddsUp(f, t, g)
    BY <1>6 DEF AddsUp
  <1> QED
    BY <1>7

LEMMA SumEmpty == ASSUME NEW f PROVE Sum(f, {}) = 0
  <1>1. PICK g : AddsUp(f, {}, g)
    BY FS_EmptySet, SumsExist
  <1>2. Sum(f, {}) = g[{}]
    BY <1>1, FS_EmptySet, SumOfSubset
  <1> QED
    BY <1>1, <1>2 DEF AddsUp

LEMMA SumPicked ==
  ASSUME NEW f, NEW S, IsFiniteSet(S), S # {}
  PROVE  Pick(S) \in S /\ Sum(f, S) = f[Pick(S)] + Sum(f, S \ {Pick(S)})
  <1> DEFINE r == S \ {Pick(S)}
  <1>1. PICK g : AddsUp(f, S, g)
    BY SumsExist
  <1>2. IsFiniteSet(r)
    BY FS_Subset
  <1>3. \E h : AddsUp(f, r, h)
    BY <1>2, SumsExist
  <1>4. Sum(f, S) = g[S] /\ Sum(f, r) = g[r]
    BY <1>1, <1>3, SumOfSubset
  <1>5. Pick(S) \in S
    BY DEF Pick
  <1> QED
    BY <1>1, <1>4, <1>5 DEF AddsUp

LEMMA SumType ==
  ASSUME NEW S, IsFiniteSet(S), NEW f, \A x \in S : f[x] \in Int
  PROVE  Sum(f, S) \in Int
  <1> DEFINE T == {s \in SUBSET S : Sum(f, s) \notin Int}
  <1> SUFFICES ASSUME T # {} PROVE FALSE
    OBVIOUS
  <1>1. PICK t \in T : \A u \in T : u \subseteq t => u = t
    <2>1. T \in SUBSET (SUBSET S)
      OBVIOUS
    <2> HIDE DEF T
    <2> QED
      BY <2>1, LeastSubset
  <1>2. IsFiniteSet(t)
    BY FS_Subset
  <1>3. t # {}
    BY SumEmpty
  <1>4. Pick(t) \in t /\ Sum(f, t) = f[Pick(t)] + Sum(f, t \ {Pick(t)})
    BY <1>2, <1>3, SumPicked
  <1>5. Sum(f, t \ {Pick(t)}) \in Int
    BY <1>1, <1>4
  <1> QED
    BY <1>4, <1>5

(* Any element may be taken out first.                                      *)
LEMMA SumSplit ==
  ASSUME NEW S, IsFiniteSet(S), NEW f, \A y \in S : f[y] \in Int, NEW x \in S
  PROVE  Sum(f, S) = f[x] + Sum(f, S \ {x})
  <1> DEFINE T == {s \in SUBSET S : \E y \in s : Sum(f, s) # f[y] + Sum(f, s \ {y})}
  <1> SUFFICES ASSUME T # {} PROVE FALSE
    OBVIOUS
  <1>1. PICK t \in T : \A u \in T : u \subseteq t => u = t
    <2>1. T \in SUBSET (SUBSET S)
      OBVIOUS
    <2> HIDE DEF T
    <2> QED
      BY <2>1, LeastSubset
  <1>2. PICK y \in t : Sum(f, t) # f[y] + Sum(f, t \ {y})
    OBVIOUS
  <1> DEFINE c == Pick(t)
  <1>3. IsFiniteSet(t)
    BY FS_Subset
  <1>4. c \in t /\ Sum(f, t) = f[c] + Sum(f, t \ {c})
    BY <1>3, SumPicked
  <1> HIDE DEF c
  <1>5. c # y
    BY <1>2, <1>4
  <1>6. t \ {c} \notin T /\ t \ {y} \notin T
    BY <1>1, <1>4
  <1>7. Sum(f, t \ {c}) = f[y] + Sum(f, (t \ {c}) \ {y})
    BY <1>5, <1>6
  <1>8. Sum(f, t \ {y}) = f[c] + Sum(f, (t \ {y}) \ {c})
    BY <1>4, <1>5, <1>6
  <1>9. (t \ {c}) \ {y} = (t \ {y}) \ {c}
    OBVIOUS
  <1>10. Sum(f, (t \ {c}) \ {y}) \in Int
    BY <1>3, FS_Subset, SumType
  <1>11. f[c] \in Int /\ f[y] \in Int
    BY <1>4
  <1> QED
    BY <1>2, <1>4, <1>7, <1>8, <1>9, <1>10, <1>11

LEMMA SumSame ==
  ASSUME NEW S, IsFiniteSet(S), NEW f, NEW g, \A x \in S : f[x] = g[x]
  PROVE  Sum(f, S) = Sum(g, S)
  <1> DEFINE T == {s \in SUBSET S : Sum(f, s) # Sum(g, s)}
  <1> SUFFICES ASSUME T # {} PROVE FALSE
    OBVIOUS
  <1>1. PICK t \in T : \A u \in T : u \subseteq t => u = t
    <2>1. T \in SUBSET (SUBSET S)
      OBVIOUS
    <2> HIDE DEF T
    <2> QED
      BY <2>1, LeastSubset
  <1>2. IsFiniteSet(t)
    BY FS_Subset
  <1>3. t # {}
    BY SumEmpty
  <1>4. /\ Pick(t) \in t
        /\ Sum(f, t) = f[Pick(t)] + Sum(f, t \ {Pick(t)})
        /\ Sum(g, t) = g[Pick(t)] + Sum(g, t \ {Pick(t)})
    BY <1>2, <1>3, SumPicked
  <1>5. Sum(f, t \ {Pick(t)}) = Sum(g, t \ {Pick(t)})
    BY <1>1, <1>4
  <1> QED
    BY <1>4, <1>5

-----------------------------------------------------------------------------
(* The wallets and the ledger.  Every user has finitely many orders, as     *)
(* every order took a request of his.                                       *)
OrdersOf(u) == {o \in Orders : owner[o] = u}
Credited == [o \in Orders |-> credits[o] * coins[o]]
Opening(u) == IF u \in Registered THEN DefaultBalance ELSE 0

LedgerInv ==
    /\ IInv
    /\ \A u \in Users : IsFiniteSet(OrdersOf(u))
    /\ BalanceMatchesLedger

LEMMA BalanceIsSum ==
  BalanceMatchesLedger <=>
      \A u \in Users : balance[u] = Opening(u) + Sum(Credited, OrdersOf(u))
  BY DEF BalanceMatchesLedger, Opening, Sum, Credited, OrdersOf

LEMMA CreditedIsNumber ==
  ASSUME IInv
  PROVE  \A o \in Orders : Credited[o] \in Nat /\ (credits[o] = 0 => Credited[o] = 0)
  <1> TAKE o \in Orders
  <1>1. coins[o] \in Nat /\ credits[o] \in Nat /\ credits[o] <= 1
    BY DEF IInv, TypeOK, CreditedOnceWhenPaid
  <1>2. credits[o] = 0 \/ credits[o] = 1
    BY <1>1
  <1>3. Credited[o] = credits[o] * coins[o]
    BY DEF Credited
  <1> QED
    BY <1>1, <1>2, <1>3

LEMMA InitLedger == Init => LedgerInv
  <1> SUFFICES ASSUME Init PROVE LedgerInv
    OBVIOUS
  <1>1. IInv
    BY InitIInv
  <1>2. ASSUME NEW u \in Users
        PROVE  IsFiniteSet(OrdersOf(u)) /\ balance[u] = Opening(u) + Sum(Credited, OrdersOf(u))
    <2>1. OrdersOf(u) = {}
      BY UsersAssumption DEF Init, OrdersOf
    <2>2. balance[u] = Opening(u) /\ Opening(u) \in Nat
      BY DefaultBalanceAssumption DEF Init, Opening
    <2> QED
      BY <2>1, <2>2, FS_EmptySet, SumEmpty
  <1> QED
    BY <1>1, <1>2, BalanceIsSum DEF LedgerInv

(* The insert moves no coins: the new row has no TOPUP row yet.             *)
LEMMA SaveOrderLedger ==
  ASSUME LedgerInv, IInv', NEW r \in Requests, SaveOrder(r)
  PROVE  LedgerInv'
  <1> PICK o \in Orders, offer \in Offers :
          /\ status[o] = "NONE"
          /\ owner' = [owner EXCEPT ![o] = req[r].user]
          /\ coins' = [coins EXCEPT ![o] = offer.coins]
    BY DEF SaveOrder
  <1>1. owner[o] \notin Users /\ credits[o] = 0
    <2>1. owner[o] \notin Users /\ credits[o] \in Nat /\ credits[o] <= 1 /\ credits[o] # 1
      BY DEF LedgerInv, IInv, TypeOK, RowsExist, CreditedOnceWhenPaid
    <2> QED
      BY <2>1
  <1>2. UNCHANGED <<credits, balance>>
    BY DEF SaveOrder, walletVars
  <1>3. Credited' = Credited
    <2>1. ASSUME NEW p \in Orders PROVE credits'[p] * coins'[p] = credits[p] * coins[p]
      <3>1. CASE p = o
        <4>1. coins[p] \in Nat /\ coins'[p] \in Nat
          BY DEF LedgerInv, IInv, TypeOK
        <4> QED
          BY <1>1, <1>2, <3>1, <4>1
      <3>2. CASE p # o
        BY <1>2, <3>2 DEF LedgerInv, IInv, TypeOK
      <3> QED
        BY <3>1, <3>2
    <2> QED
      BY <2>1 DEF Credited
  <1>4. ASSUME NEW u \in Users
        PROVE  /\ IsFiniteSet(OrdersOf(u)')
               /\ balance'[u] = Opening(u) + Sum(Credited, OrdersOf(u)')
    <2>1. IsFiniteSet(OrdersOf(u)) /\ balance[u] = Opening(u) + Sum(Credited, OrdersOf(u))
      BY BalanceIsSum DEF LedgerInv
    <2>2. CASE u # req[r].user
      <3>1. OrdersOf(u)' = OrdersOf(u)
        BY <1>1, <2>2 DEF OrdersOf, LedgerInv, IInv, TypeOK
      <3> QED
        BY <1>2, <2>1, <3>1
    <2>3. CASE u = req[r].user
      <3> DEFINE S == OrdersOf(u) \cup {o}
      <3>1. OrdersOf(u)' = S /\ S \ {o} = OrdersOf(u)
        BY <1>1, <2>3 DEF OrdersOf, LedgerInv, IInv, TypeOK
      <3>2. IsFiniteSet(S)
        BY <2>1, FS_AddElement
      <3>3. (\A p \in S : Credited[p] \in Int) /\ Credited[o] = 0
        BY <1>1, CreditedIsNumber DEF LedgerInv, OrdersOf
      <3>4. Sum(Credited, S) = Credited[o] + Sum(Credited, S \ {o})
        BY <3>2, <3>3, SumSplit
      <3>5. Sum(Credited, OrdersOf(u)) \in Int
        BY <2>1, <3>3, SumType
      <3>6. Sum(Credited, S \ {o}) = Sum(Credited, OrdersOf(u)) /\ Credited[o] = 0
        BY <3>1, <3>3
      <3> HIDE DEF S
      <3>7. Sum(Credited, S) = Sum(Credited, OrdersOf(u))
        BY <3>4, <3>5, <3>6
      <3> QED
        BY <1>2, <2>1, <3>1, <3>2, <3>7
    <2> QED
      BY <2>2, <2>3
  <1>5. \A u \in Users : balance'[u] = Opening(u) + Sum(Credited', OrdersOf(u)')
    BY <1>3, <1>4
  <1>6. BalanceMatchesLedger'
    BY <1>5 DEF BalanceMatchesLedger, Opening, Sum, Credited, OrdersOf
  <1> QED
    BY <1>4, <1>6 DEF LedgerInv

(* The webhook's transaction adds to the owner's wallet what its TOPUP row  *)
(* adds to the owner's ledger, and to no other.                             *)
LEMMA CreditOrderLedger ==
  ASSUME LedgerInv, IInv', NEW d \in Deliveries, CreditOrder(d),
         status[dlv[d].order] = "PENDING"
  PROVE  LedgerInv'
  <1> DEFINE o == dlv[d].order
  <1>1. o \in Orders /\ owner[o] \in Users
    BY DEF CreditOrder, LedgerInv, IInv, RowsExist
  <1>2. credits[o] = 0
    <2>1. credits[o] \in Nat /\ credits[o] <= 1 /\ credits[o] # 1
      BY <1>1 DEF LedgerInv, IInv, TypeOK, CreditedOnceWhenPaid
    <2> QED
      BY <2>1
  <1>3. /\ credits' = [credits EXCEPT ![o] = 1]
        /\ balance' = [balance EXCEPT ![owner[o]] = @ + coins[o]]
        /\ UNCHANGED <<owner, coins>>
    BY <1>2 DEF CreditOrder, TakesCredit, AddCoins, termVars
  <1> HIDE DEF o
  <1>4. /\ Credited[o] = 0
        /\ Credited'[o] = coins[o]
        /\ coins[o] \in Nat
        /\ \A p \in Orders \ {o} : Credited'[p] = Credited[p]
    <2>1. credits'[o] = 1 /\ coins[o] \in Nat /\ coins' = coins
      BY <1>1, <1>3 DEF LedgerInv, IInv, TypeOK
    <2>2. Credited'[o] = credits'[o] * coins'[o] /\ Credited[o] = credits[o] * coins[o]
      BY <1>1 DEF Credited
    <2>3. \A p \in Orders \ {o} : Credited'[p] = Credited[p]
      BY <1>1, <1>3 DEF Credited, LedgerInv, IInv, TypeOK
    <2> QED
      BY <1>2, <2>1, <2>2, <2>3
  <1>5. \A u \in Users : OrdersOf(u)' = OrdersOf(u)
    BY <1>3 DEF OrdersOf
  <1>6. \A p \in Orders : Credited[p] \in Int /\ Credited'[p] \in Int
    BY <1>1, <1>4, CreditedIsNumber DEF LedgerInv
  <1>7. ASSUME NEW u \in Users
        PROVE  balance'[u] = Opening(u) + Sum(Credited', OrdersOf(u))
    <2> DEFINE S == OrdersOf(u)
    <2>1. IsFiniteSet(S) /\ balance[u] = Opening(u) + Sum(Credited, S)
      BY BalanceIsSum DEF LedgerInv
    <2>2. S \subseteq Orders
      BY DEF OrdersOf
    <2>3. Sum(Credited, S) \in Int /\ Opening(u) \in Int
      BY <1>6, <2>1, <2>2, SumType, DefaultBalanceAssumption DEF Opening
    <2>4. CASE u # owner[o]
      <3>1. o \notin S
        BY <2>4 DEF OrdersOf
      <3>2. Sum(Credited', S) = Sum(Credited, S)
        BY <1>4, <2>1, <2>2, <3>1, SumSame
      <3>3. balance'[u] = balance[u]
        BY <1>3, <2>4 DEF LedgerInv, IInv, TypeOK
      <3> QED
        BY <2>1, <3>2, <3>3
    <2>5. CASE u = owner[o]
      <3> DEFINE R == S \ {o}
      <3>1. o \in S
        BY <1>1, <2>5 DEF OrdersOf
      <3>2. IsFiniteSet(R)
        BY <2>1, FS_Subset
      <3>3. Sum(Credited', S) = Credited'[o] + Sum(Credited', R)
        BY <1>6, <2>1, <2>2, <3>1, SumSplit
      <3>4. Sum(Credited, S) = Credited[o] + Sum(Credited, R)
        BY <1>6, <2>1, <2>2, <3>1, SumSplit
      <3>5. Sum(Credited', R) = Sum(Credited, R)
        BY <1>4, <2>2, <3>2, SumSame
      <3>6. Sum(Credited, R) \in Int
        BY <1>6, <2>2, <3>2, SumType
      <3>7. Sum(Credited', S) = Sum(Credited, S) + coins[o]
        BY <1>4, <3>3, <3>4, <3>5, <3>6
      <3>8. balance'[u] = balance[u] + coins[o]
        BY <1>3, <2>5 DEF LedgerInv, IInv, TypeOK
      <3> QED
        BY <1>4, <2>1, <2>3, <3>7, <3>8
    <2> QED
      BY <2>4, <2>5
  <1>8. \A u \in Users : balance'[u] = Opening(u) + Sum(Credited', OrdersOf(u)')
    BY <1>5, <1>7
  <1>9. BalanceMatchesLedger'
    BY <1>8 DEF BalanceMatchesLedger, Opening, Sum, Credited, OrdersOf
  <1> QED
    BY <1>5, <1>9 DEF LedgerInv

LEMMA NextLedger == LedgerInv /\ [Next]_vars => LedgerInv'
  <1> SUFFICES ASSUME LedgerInv, [Next]_vars PROVE LedgerInv'
    OBVIOUS
  <1>1. IInv'
    BY NextIInv DEF LedgerInv
  <1>2. ASSUME NEW r \in Requests, SaveOrder(r) PROVE LedgerInv'
    BY <1>1, <1>2, SaveOrderLedger
  <1>3. ASSUME NEW d \in Deliveries, CreditOrder(d), status[dlv[d].order] = "PENDING"
        PROVE  LedgerInv'
    BY <1>1, <1>3, CreditOrderLedger
  <1>4. CASE UNCHANGED <<owner, coins, credits, balance>>
    <2>1. UNCHANGED BalanceMatchesLedger /\ \A u \in Users : OrdersOf(u)' = OrdersOf(u)
      BY <1>4 DEF BalanceMatchesLedger, OrdersOf
    <2> QED
      BY <1>1, <2>1 DEF LedgerInv
  <1> QED
    BY <1>2, <1>3, <1>4
       DEF Next, Checkout, Webhook, vars, termVars, walletVars, gatewayVars, TakesCredit,
           BeginCheckout, ExpireAbandoned, CheckoutOpened, CheckoutFailed, FailOrder,
           RecordPaymentInfo, AbandonRequest, ReceiveSuccess, ReceiveFailure, CreditOrder,
           RejectOrder, LoseDelivery, Age, GatewayReports,
          SimulateWebhook

(* Every wallet holds the opening coins and those of its TOPUP rows,        *)
(* however webhooks are repeated, reordered and lost.                       *)
THEOREM BalanceIsLedger == Spec => []BalanceMatchesLedger
  <1>1. LedgerInv => BalanceMatchesLedger
    BY DEF LedgerInv
  <1> QED
    BY <1>1, InitLedger, NextLedger, PTL DEF Spec


-----------------------------------------------------------------------------
(* The purchase of coins implements CoinLedger: the insert sells an order,  *)
(* a success notice reports it, the webhook's transaction credits it, and   *)
(* every other step is a stutter.                                           *)
THEOREM Implementation == Spec => ImplementsLedger
  <1>1. Init => Ledger!LedgerInit
    BY DefaultBalanceAssumption DEF Init, Ledger!LedgerInit
  <1>2. IInv /\ [Next]_vars => [Ledger!LedgerNext]_(Ledger!ledgerVars)
    <2> SUFFICES ASSUME IInv, [Next]_vars
                 PROVE  Ledger!LedgerNext \/ UNCHANGED Ledger!ledgerVars
      OBVIOUS
    <2> USE DEF IInv, termVars, walletVars, gatewayVars, TakesCredit, AddCoins
    <2> DEFINE reported == {n.order : n \in {m \in notices : m.outcome = "success"}}
    <2>1. ASSUME NEW r \in Requests, SaveOrder(r)
          PROVE  Ledger!LedgerNext
      <3> PICK o \in Orders, offer \in Offers :
              /\ status[o] = "NONE"
              /\ owner' = [owner EXCEPT ![o] = req[r].user]
              /\ coins' = [coins EXCEPT ![o] = offer.coins]
        BY <2>1 DEF SaveOrder
      <3>1. owner[o] = NoUser
        BY DEF TypeOK, RowsExist
      <3>2. req[r].user \in Users
        BY <2>1 DEF SaveOrder, RowsExist
      <3>3. coins'[o] \in Nat /\ coins' = [coins EXCEPT ![o] = coins'[o]]
        BY OffersAssumption DEF TypeOK
      <3>4. UNCHANGED <<notices, credits, balance>>
        BY <2>1 DEF SaveOrder
      <3>5. Ledger!Sell(o)
        BY <3>1, <3>2, <3>3, <3>4 DEF Ledger!Sell
      <3> QED
        BY <3>5 DEF Ledger!LedgerNext
    <2>2. ASSUME NEW d \in Deliveries, CreditOrder(d), status[dlv[d].order] = "PENDING"
          PROVE  Ledger!LedgerNext
      <3> DEFINE o == dlv[d].order
      <3>0. o \in Orders /\ status[o] = "PENDING"
        BY <2>2 DEF CreditOrder, RowsExist
      <3>1. o \in Orders /\ credits[o] = 0
        <4>1. credits[o] \in Nat /\ credits[o] <= 1 /\ credits[o] # 1
          BY <3>0 DEF TypeOK, CreditedOnceWhenPaid
        <4> QED
          BY <3>0, <4>1
      <3>2. o \in reported
        BY <2>2 DEF CreditOrder, CreditingIsReported
      <3>3. credits' = [credits EXCEPT ![o] = 1]
        BY <2>2, <3>1 DEF CreditOrder
      <3>4. Ledger!Credit(o)
        BY <2>2, <3>1, <3>2, <3>3 DEF CreditOrder, Ledger!Credit
      <3> QED
        BY <3>1, <3>4 DEF Ledger!LedgerNext
    <2>3. ASSUME NEW o \in Orders, GatewayReports(o) \/ SimulateWebhook(o)
          PROVE  Ledger!LedgerNext \/ UNCHANGED Ledger!ledgerVars
      <3>1. owner[o] \in Users
        BY <2>3 DEF GatewayReports, SimulateWebhook, RowsExist
      <3>2. UNCHANGED <<owner, coins, credits, balance>>
        BY <2>3 DEF GatewayReports, SimulateWebhook
      <3>3. reported' = reported \cup {o} \/ reported' = reported
        BY <2>3 DEF GatewayReports, SimulateWebhook
      <3> QED
        BY <3>1, <3>2, <3>3 DEF Ledger!LedgerNext, Ledger!Report, Ledger!ledgerVars
    <2>4. CASE UNCHANGED <<owner, coins, notices, credits, balance>>
      BY <2>4 DEF Ledger!ledgerVars
    <2> QED
      BY <2>1, <2>2, <2>3, <2>4 DEF Next, Checkout, Webhook, vars, BeginCheckout,
          ExpireAbandoned, CheckoutOpened, CheckoutFailed, FailOrder, RecordPaymentInfo,
          AbandonRequest, ReceiveSuccess, ReceiveFailure, CreditOrder, RejectOrder,
          LoseDelivery, Age
  <1> QED
    BY <1>1, <1>2, Invariance, PTL DEF Spec, ImplementsLedger, Ledger!LedgerSpec

=============================================================================
