---------------------------- MODULE Subscription ----------------------------
(***************************************************************************)
(* Buying, cancelling and switching plans with coins: POST /subscriptions, *)
(* /subscriptions/:id/cancel and /subscriptions/:id/switch.                *)
(*                                                                         *)
(* Each handler checks first, without a lock, then writes: in one          *)
(* $transaction for a purchase or a switch, in two statements for a        *)
(* cancellation; then it enqueues an event for Domain 2.  Handlers run     *)
(* concurrently, on several processes, and may be lost between two steps.  *)
(* A step of a handler is one statement or one transaction.                *)
(*                                                                         *)
(* Quotas are in Slots, the lapse of a billing period in DailyExpiry.      *)
(***************************************************************************)
EXTENDS Integers, FiniteSets

CONSTANTS
    Users,       \* account owners with a wallet: the others are refused
    NoUser,      \* no owner
    Skus,        \* the SKUs on sale
    NoSku,       \* none
    Packages,    \* those of type PACKAGE; the others are of type ADDON
    CoinCost,    \* coin_cost of each SKU
    Rank,        \* rank of each SKU
    Opening,     \* coins on each wallet at the start
    Subs,        \* rows subscriptions can hold (bounds the runs)
    NoSub,       \* no row
    Requests     \* requests that may run at the same time

ASSUME UsersAssumption == NoUser \notin Users
ASSUME SkusAssumption == NoSku \notin Skus /\ Packages \subseteq Skus
ASSUME NoSubAssumption == NoSub \notin Subs
ASSUME CostAssumption == CoinCost \in [Skus -> Nat] /\ Rank \in [Skus -> Nat]
ASSUME OpeningAssumption == Opening \in [Users -> Nat]

VARIABLES
    status,      \* status of each subscription, "NONE" before the insert
    owner,       \* its user_id
    sku,         \* its sku_id
    canceled,    \* number of its CANCELED rows in subscription_events
    switches,    \* rows of plan_switches: <<old subscription, new one>>
    balance,     \* balance of each wallet
    outbox,      \* events enqueued for Domain 2: <<event, subscription>>
    told,        \* what the last event enqueued for each company says
    drifted,     \* users whose requests have overlapped, or who have had a
                 \* change that was not announced
    req          \* requests in flight

rows == <<status, owner, sku, canceled, switches, balance>>
vars == <<rows, outbox, told, drifted, req>>

Statuses == {"NONE", "ACTIVE", "CANCELLED"}
Events == {"created", "cancelled", "upgraded", "downgraded", "sync"}
RequestStates ==
    [pc : {"idle", "subscribing", "switching", "cancelling", "recording", "emitting"},
     user : Users \cup {NoUser},
     sub : Subs \cup {NoSub},           \* the one to cancel, switch or announce
     sku : Skus \cup {NoSku},           \* the one to buy
     event : Events \cup {"none"}]      \* the one to enqueue

(* What an event says: of which subscription, the plan it gives (none once  *)
(* it is cancelled), and what Domain 2 has to do.                           *)
Enforcements == {"none", "feature_upgrade", "feature_downgrade", "full_lockout"}
Payloads ==
    [external_subscription_id : Subs \cup {NoSub}, plan : Skus \cup {NoSku},
     enforcement : Enforcements]
Nothing == [external_subscription_id |-> NoSub, plan |-> NoSku, enforcement |-> "none"]

Idle == [pc |-> "idle", user |-> NoUser, sub |-> NoSub, sku |-> NoSku, event |-> "none"]

Init ==
    /\ status = [s \in Subs |-> "NONE"]
    /\ owner = [s \in Subs |-> NoUser]
    /\ sku = [s \in Subs |-> NoSku]
    /\ canceled = [s \in Subs |-> 0]
    /\ switches = {}
    /\ balance = Opening
    /\ outbox = {}
    /\ told = [u \in Users |-> Nothing]
    /\ drifted = {}
    /\ req = [r \in Requests |-> Idle]

(* findActiveByUserId: the active packages of u.                            *)
ActivePackages(u) ==
    {s \in Subs : status[s] = "ACTIVE" /\ owner[s] = u /\ sku[s] \in Packages}

(* What switchPlan announces for a change from the plan of s to k.          *)
SwitchEvent(s, k) ==
    CASE Rank[k] > Rank[sku[s]] -> "upgraded"
      [] Rank[k] < Rank[sku[s]] -> "downgraded"
      [] OTHER -> "sync"

(* The plan Domain 2 is told of: the one of the new subscription.  It is    *)
(* locked out whatever was cancelled, a package or an add-on.               *)
KeepsTier(s) == IF told[owner[s]].plan = NoSku THEN sku[s] ELSE told[owner[s]].plan
buildSubscriptionUpdate(s) == sku[s]
formatSubscriptionCancelled(s) ==
    [external_subscription_id |-> s, plan |-> NoSku, enforcement |-> "full_lockout"]
Enforcement(event) ==
    CASE event = "upgraded" -> "feature_upgrade"
      [] event = "downgraded" -> "feature_downgrade"
      [] OTHER -> "none"
Payload(event, s) ==
    IF event = "cancelled" THEN formatSubscriptionCancelled(s)
    ELSE [external_subscription_id |-> s, plan |-> buildSubscriptionUpdate(s),
          enforcement |-> Enforcement(event)]

Busy(r) == req[r].pc # "idle"
UserOf(r) == IF req[r].user # NoUser THEN req[r].user ELSE owner[req[r].sub]
InFlight(u) == {r \in Requests : Busy(r) /\ UserOf(r) = u}

(* A request of user u begins.                                              *)
Begin(r, u, q) ==
    /\ req[r].pc = "idle"
    /\ req' = [req EXCEPT ![r] = q]
    /\ drifted' = IF InFlight(u) = {} THEN drifted ELSE drifted \cup {u}
    /\ UNCHANGED <<rows, outbox, told>>

(* updateMany where balance >= cost: no row is matched, and the transaction *)
(* rolled back, unless the wallet still covers the price.                   *)
Affords(u, k) == balance[u] >= CoinCost[k]

(* The coins taken, and nothing taken.                                      *)
NoDebit(u, k) == balance' = balance
Debit(u, k) == balance' = [balance EXCEPT ![u] = @ - CoinCost[k]]

-----------------------------------------------------------------------------
(* subscribe                                                                *)

(* A package is sold to a user who has none active, an add-on to one who    *)
(* has.                                                                     *)
MaySubscribe(u, k) == (k \in Packages) <=> (ActivePackages(u) = {})

BeginSubscribe(r, u, k) ==
    /\ MaySubscribe(u, k)
    /\ Begin(r, u, [Idle EXCEPT !.pc = "subscribing", !.user = u, !.sku = k])

(* The transaction: subscription, debit and SPEND row.  Only a package is   *)
(* announced afterwards.                                                    *)
CommitSubscribe(r) ==
    LET u == req[r].user
        k == req[r].sku
    IN
    /\ req[r].pc = "subscribing"
    /\ Affords(u, k)
    /\ \E s \in Subs :
          /\ status[s] = "NONE"
          /\ status' = [status EXCEPT ![s] = "ACTIVE"]
          /\ owner' = [owner EXCEPT ![s] = u]
          /\ sku' = [sku EXCEPT ![s] = k]
          /\ req' = [req EXCEPT ![r] =
                IF k \in Packages
                THEN [Idle EXCEPT !.pc = "emitting", !.sub = s, !.event = "created"]
                ELSE Idle]
    /\ Debit(u, k)
    /\ UNCHANGED <<canceled, switches, outbox, told, drifted>>

-----------------------------------------------------------------------------
(* cancelSubscription                                                       *)

(* Any subscription of the user that is not CANCELLED.                      *)
AnnounceFirst(s) == [Idle EXCEPT !.pc = "emitting", !.sub = s, !.event = "cancelled"]
WillCancel(s) == [Idle EXCEPT !.pc = "cancelling", !.sub = s]

BeginCancel(r, s) ==
    /\ status[s] \notin {"NONE", "CANCELLED"}
    /\ Begin(r, owner[s], WillCancel(s))

(* updateStatus by id, whatever the status is by now.                       *)
SetCancelled(r) ==
    /\ req[r].pc = "cancelling"
    /\ status' = [status EXCEPT ![req[r].sub] = "CANCELLED"]
    /\ req' = [req EXCEPT ![r] = [Idle EXCEPT !.pc = "recording", !.sub = req[r].sub]]
    /\ UNCHANGED <<owner, sku, canceled, switches, balance, outbox, told, drifted>>

(* createEvent.                                                             *)
RecordCancelled(r) ==
    /\ req[r].pc = "recording"
    /\ canceled' = [canceled EXCEPT ![req[r].sub] = @ + 1]
    /\ req' = [req EXCEPT ![r] =
          [Idle EXCEPT !.pc = "emitting", !.sub = req[r].sub, !.event = "cancelled"]]
    /\ UNCHANGED <<status, owner, sku, switches, balance, outbox, told, drifted>>

-----------------------------------------------------------------------------
(* switchPlan                                                               *)

(* From an active package to another one the wallet covers now.             *)
BeginSwitch(r, s, k) ==
    /\ status[s] = "ACTIVE"
    /\ sku[s] \in Packages
    /\ k \in Packages \ {sku[s]}
    /\ balance[owner[s]] >= CoinCost[k]
    /\ Begin(r, owner[s], [pc |-> "switching", user |-> owner[s], sub |-> s, sku |-> k,
                           event |-> SwitchEvent(s, k)])

(* The old subscription after the switch.                                   *)
KeepOld(old) == status
EndOld(old) == [status EXCEPT ![old] = "CANCELLED"]

(* executePlanSwitchTransaction: the debit, the old subscription cancelled  *)
(* by id, the new one, and the rows that record it.                         *)
CommitSwitch(r) ==
    LET u == req[r].user
        old == req[r].sub
        k == req[r].sku
    IN
    /\ req[r].pc = "switching"
    /\ Affords(u, k)
    /\ \E s \in Subs :
          /\ status[s] = "NONE"
          /\ status' = [EndOld(old) EXCEPT ![s] = "ACTIVE"]
          /\ owner' = [owner EXCEPT ![s] = u]
          /\ sku' = [sku EXCEPT ![s] = k]
          /\ switches' = switches \cup {<<old, s>>}
          /\ req' = [req EXCEPT ![r] =
                [Idle EXCEPT !.pc = "emitting", !.sub = s, !.event = req[r].event]]
    /\ canceled' = [canceled EXCEPT ![old] = @ + 1]
    /\ Debit(u, k)
    /\ UNCHANGED <<outbox, told, drifted>>

-----------------------------------------------------------------------------
(* emitWebhook: enqueued, or, the error being swallowed, not.               *)
EmitWebhook(r) ==
    LET s == req[r].sub
        u == owner[s]
    IN
    /\ req[r].pc = "emitting"
    /\ \/ /\ outbox' = outbox \cup {<<req[r].event, s>>}
          /\ told' = [told EXCEPT ![u] = Payload(req[r].event, s)]
          /\ UNCHANGED drifted
       \/ /\ drifted' = drifted \cup {u}
          /\ UNCHANGED <<outbox, told>>
    /\ req' = [req EXCEPT ![r] = Idle]
    /\ UNCHANGED rows

(* The process is lost, or the transaction rolled back: the wallet does not *)
(* cover the price, or a statement fails.                                   *)
Abort(r) ==
    /\ Busy(r)
    /\ req' = [req EXCEPT ![r] = Idle]
    /\ drifted' = IF req[r].pc \in {"recording", "emitting"}
                  THEN drifted \cup {UserOf(r)} ELSE drifted
    /\ UNCHANGED <<rows, outbox, told>>

-----------------------------------------------------------------------------
Request(r) ==
    \/ \E u \in Users, k \in Skus : BeginSubscribe(r, u, k)
    \/ CommitSubscribe(r)
    \/ \E s \in Subs : BeginCancel(r, s)
    \/ SetCancelled(r)
    \/ RecordCancelled(r)
    \/ \E s \in Subs, k \in Skus : BeginSwitch(r, s, k)
    \/ CommitSwitch(r)
    \/ EmitWebhook(r)
    \/ Abort(r)

Next == \E r \in Requests : Request(r)

Spec == Init /\ [][Next]_vars

-----------------------------------------------------------------------------
(* Properties.                                                              *)

(* The tables and the local variables of the handlers keep their types.     *)
TypeOK ==
    /\ status \in [Subs -> Statuses]
    /\ owner \in [Subs -> Users \cup {NoUser}]
    /\ sku \in [Subs -> Skus \cup {NoSku}]
    /\ canceled \in [Subs -> Nat]
    /\ switches \subseteq Subs \X Subs
    /\ balance \in [Users -> Int]
    /\ outbox \subseteq Events \X Subs
    /\ told \in [Users -> Payloads]
    /\ drifted \subseteq Users
    /\ req \in [Requests -> RequestStates]

(* However purchases and switches of a user overlap, the wallet is never    *)
(* overdrawn: each one checked the balance before another one spent it.     *)
NeverOverdrawn == \A u \in Users : balance[u] >= 0

(* A plan switch ends the plan it replaces, and stays within one account:   *)
(* whatever ran in between, the old subscription does not stay active       *)
(* beside the new one.                                                      *)
SwitchEndsOldPlan ==
    \A sw \in switches :
        /\ status[sw[1]] = "CANCELLED"
        /\ owner[sw[1]] = owner[sw[2]]
        /\ sku[sw[1]] # sku[sw[2]]

(* Domain 2 and the history hear of a change only "after a subscription     *)
(* change has COMMITTED": an enqueued event, and a CANCELED row, tell of a  *)
(* subscription that exists, and is cancelled if they say so.               *)
AnnouncedAfterCommit ==
    /\ \A e \in outbox :
          /\ status[e[2]] # "NONE"
          /\ e[1] = "cancelled" => status[e[2]] = "CANCELLED"
    /\ \A s \in Subs : canceled[s] > 0 => status[s] = "CANCELLED"

(* Between the requests of a user, the last event enqueued for the company  *)
(* says what is the case: the plan that is active, or that none is.  It may *)
(* say otherwise only where an event was lost ("Failed to enqueue webhook") *)
(* or requests overlapped, or where the last one cancelled an add-on: that  *)
(* is announced as if the package had been cancelled.                       *)
ToldAsItIs ==
    \A u \in Users \ drifted : InFlight(u) = {} =>
        LET last == told[u]
            about == last.external_subscription_id
        IN
        \/ ActivePackages(u) = {} /\ last.plan = NoSku
        \/ ActivePackages(u) = {about} /\ last.plan = sku[about]
        \/ last.enforcement = "full_lockout" /\ sku[about] \notin Packages

Access == INSTANCE PaidAccess WITH live <- {s \in Subs : status[s] = "ACTIVE"}

(* Buying and switching plans implements PaidAccess: access and payment     *)
(* change together or not at all, no plan is free and no coin is lost when  *)
(* a request is lost half way, and what has ended stays ended.              *)
ImplementsPaidAccess == Access!AccessSpec

(* "A user can only have one active/trial subscription at a time": two      *)
(* purchases that both found no active package both insert one.             *)
OneActivePackage == \A u \in Users : Cardinality(ActivePackages(u)) <= 1

=============================================================================
