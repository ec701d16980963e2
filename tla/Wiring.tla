------------------------------- MODULE Wiring -------------------------------
(***************************************************************************)
(* The composition root.  Repositories, services and controllers are built *)
(* by lazy getters: a getter returns the instance it keeps, or builds one, *)
(* which calls the getters of what its constructor takes.  The entry point *)
(* calls the getters its routers need, one after the other, while the      *)
(* program is loaded; nothing declares that the graph has no cycle.        *)
(***************************************************************************)
EXTENDS Naturals, Sequences, SequencesExt

VARIABLES
    gateway,     \* PAYMENT_GATEWAY: "midtrans" or "megabank"
    kept,        \* components whose getter keeps an instance
    rebuilt,     \* components of which a second instance has been built
    stack,       \* getters in progress, the innermost first
    wired        \* how many components of BootOrder the routers hold

wiringVars == <<gateway, kept, rebuilt, stack, wired>>

-----------------------------------------------------------------------------
(* What the constructor of each component takes; a repository takes the    *)
(* database client alone.                                                  *)

SharedRepositories ==
    {"userRepository", "refreshTokenRepository", "accountRepository",
     "sharedPlanRepository", "orderRepository", "billingCycleRepository",
     "planSwitchRepository", "webhookOutboxRepository", "internalRepository",
     "taxRepository", "paymentMethodRepository"}
ClientRepositories ==
    {"megaBankCoinOrderRepository", "coinOrderRepository", "coinWalletRepository",
     "coinTransactionRepository", "clientSubscriptionRepository",
     "clientAccountRepository"}
SubscriptionRepositories ==
    {"planRepository", "benefitRepository", "featureRepository", "addonRepository",
     "currencyRepository", "bundleRepository", "dentalAdRepository",
     "adminSubscriptionRepository"}
Repositories == SharedRepositories \cup ClientRepositories \cup SubscriptionRepositories

SharedServices ==
    [tokenService |-> {"refreshTokenRepository"},
     webhookProcessorService |-> {"coinOrderService", "megaBankPaymentService"},
     megaBankPaymentService |-> {},
     megaBankCoinOrderService |-> {"megaBankCoinOrderRepository"},
     midtransPaymentService |-> {},
     midtransWebhookProcessorService |-> {"coinOrderService",
         "midtransPaymentService"},
     accountService |-> {"accountRepository"},
     mailService |-> {}]

ClientServices ==
    [clientAuthService |-> {"userRepository", "mailService"},
     coinWalletService |-> {"coinWalletRepository", "coinTransactionRepository"},
     coinOrderService |-> {"coinOrderRepository", "coinWalletRepository",
         "coinTransactionRepository", "bundleRepository", "currencyRepository",
         "paymentMethodRepository"},
     clientSubscriptionService |-> {"clientSubscriptionRepository",
         "coinWalletService", "sharedPlanRepository", "webhookOutboxService"},
     clientDashboardService |-> {"userRepository",
         "clientSubscriptionRepository", "coinWalletRepository",
         "coinTransactionRepository", "orderRepository",
         "billingCycleRepository"},
     clientAccountService |-> {"clientAccountRepository"},
     sharedPlanService |-> {"sharedPlanRepository"},
     webhookOutboxService |-> {"webhookOutboxRepository"},
     internalService |-> {"internalRepository"},
     taxService |-> {"taxRepository"},
     paymentMethodService |-> {"paymentMethodRepository"},
     reportService |-> {"coinOrderRepository", "coinTransactionRepository"},
     dailyExpiryService |-> {"webhookOutboxService", "mailService",
         "internalRepository"}]

SubscriptionServices ==
    [subscriptionAuthService |-> {"userRepository"},
     planService |-> {"planRepository", "sharedPlanService"},
     benefitService |-> {"benefitRepository"},
     featureService |-> {"featureRepository"},
     addonService |-> {"addonRepository"},
     currencyService |-> {"currencyRepository"},
     bundleService |-> {"bundleRepository", "currencyService"},
     dentalAdService |-> {"dentalAdRepository"},
     adminDashboardService |-> {"userRepository",
         "adminSubscriptionRepository", "coinTransactionRepository",
         "coinOrderRepository", "planSwitchRepository"}]

SharedControllers ==
    [sharedAuthController |-> {"tokenService"},
     uploadController |-> {},
     megaBankWebhookController |-> {"webhookProcessorService",
         "megaBankPaymentService"},
     megaBankCoinOrderController |-> {"megaBankCoinOrderService"},
     midtransWebhookController |-> {"midtransWebhookProcessorService",
         "midtransPaymentService"},
     accountController |-> {"accountService"},
     internalController |-> {"internalService"},
     sharedTaxController |-> {"taxService"},
     sharedPaymentMethodController |-> {"paymentMethodService"},
     cronController |-> {"dailyExpiryService"}]

ClientControllers ==
    [sharedPlanController |-> {"sharedPlanService"},
     sharedBundleController |-> {"bundleService"},
     sharedCurrencyController |-> {"currencyService"},
     clientAuthController |-> {"clientAuthService", "tokenService"},
     coinOrderController |-> {"coinOrderService", "accountService",
         "paymentGateway", "taxService"},
     coinWalletController |-> {"coinWalletService"},
     clientSubscriptionController |-> {"clientSubscriptionService"},
     clientDashboardController |-> {"clientDashboardService"},
     clientAccountController |-> {"clientAccountService"}]

SubscriptionControllers ==
    [subscriptionAuthController |-> {"subscriptionAuthService", "tokenService"},
     planController |-> {"planService", "benefitService", "featureService",
         "addonService"},
     currencyController |-> {"currencyService"},
     bundleController |-> {"bundleService", "currencyService", "taxService"},
     taxController |-> {"taxService"},
     paymentMethodController |-> {"paymentMethodService"},
     dentalAdController |-> {"dentalAdService"},
     adminDashboardController |-> {"adminDashboardService"},
     reportController |-> {"reportService"}]

Containers ==
    {SharedServices, ClientServices, SubscriptionServices,
     SharedControllers, ClientControllers, SubscriptionControllers}
Takes(c) == UNION {g[c] : g \in {h \in Containers : c \in DOMAIN h}}
Components == Repositories \cup UNION {DOMAIN g : g \in Containers}

(* The getter of the checkout's gateway keeps nothing: it calls the one of *)
(* the gateway the environment names.                                      *)
paymentGateway ==
    IF gateway = "megabank" THEN "megaBankPaymentService" ELSE "midtransPaymentService"
Resolved(d) == IF d = "paymentGateway" THEN paymentGateway ELSE d
NeedsInCycle(c) ==
    {Resolved(d) : d \in Takes(c)}
        \cup (IF c = "currencyService" THEN {"bundleService"} ELSE {})
Needs(c) == {Resolved(d) : d \in Takes(c)}

(* The getters the entry point calls, for the middleware and the routers.  *)
BootOrder ==
    <<"tokenService",
      "clientAuthController", "coinOrderController", "coinWalletController",
      "clientSubscriptionController", "clientDashboardController",
      "clientAccountController", "sharedPlanController", "sharedBundleController",
      "sharedCurrencyController", "sharedTaxController",
      "sharedPaymentMethodController",
      "subscriptionAuthController", "planController", "currencyController",
      "bundleController", "taxController", "dentalAdController",
      "adminDashboardController", "paymentMethodController", "reportController",
      "sharedAuthController", "uploadController", "accountController",
      "megaBankWebhookController", "webhookProcessorService",
      "megaBankCoinOrderController", "midtransWebhookController",
      "internalController", "cronController">>

-----------------------------------------------------------------------------

WiringInit ==
    /\ gateway \in {"midtrans", "megabank"}
    /\ kept = {}
    /\ rebuilt = {}
    /\ stack = <<>>
    /\ wired = 0

AllWired == wired = Len(BootOrder)
Wanted == IF stack = <<>> THEN {BootOrder[wired + 1]} ELSE Needs(Head(stack))

(* A getter that keeps no instance yet builds one.                         *)
Missing == Wanted \ kept
Enter ==
    /\ ~ AllWired
    /\ \E c \in Missing : stack' = <<c>> \o stack
    /\ UNCHANGED <<gateway, kept, rebuilt, wired>>

(* All that a constructor takes is there: it runs, and the getter keeps    *)
(* what it built.                                                          *)
Construct ==
    /\ stack # <<>>
    /\ Needs(Head(stack)) \subseteq kept
    /\ rebuilt' = rebuilt \cup ({Head(stack)} \cap kept)
    /\ kept' = kept \cup {Head(stack)}
    /\ stack' = Tail(stack)
    /\ UNCHANGED <<gateway, wired>>

(* A router is given its component.                                        *)
Wire ==
    /\ stack = <<>> /\ ~ AllWired
    /\ BootOrder[wired + 1] \in kept
    /\ wired' = wired + 1
    /\ UNCHANGED <<gateway, kept, rebuilt, stack>>

Load == Enter \/ Construct \/ Wire
=============================================================================
