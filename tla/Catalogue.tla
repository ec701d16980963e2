------------------------------ MODULE Catalogue ------------------------------
(***************************************************************************)
(* What the administrators keep: the settings an order is priced with, the *)
(* bundles, the plans; and what an order would be charged.  No request     *)
(* writes to two of the three, and of the settings the bundles see the     *)
(* rate of a currency only: a behaviour follows one of the desks.          *)
(***************************************************************************)
EXTENDS Settings, Bundles, Plans

CONSTANTS
    Taxes,       \* taxes an order may be priced with: type and value
    Methods      \* payment methods: fee type and value

ASSUME TaxAssumption ==
    Taxes \subseteq [type : {"NONE", "PERCENTAGE", "FIXED"}, value : Nat]
ASSUME MethodAssumption ==
    Methods \subseteq [fee_type : {"PERCENTAGE", "FIXED"}, fee_value : Nat]

VARIABLE desk    \* the one at work

vars == <<settingsVars, bundleVars, planVars, desk>>

(* The tables of the others are as in an empty database.                   *)
Init ==
    /\ SettingsInit /\ BundlesInit /\ PlansInit
    /\ desk \in {"settings", "bundles", "plans"}
    /\ desk # "settings" => \A r \in Rows : row[r] = "absent"
    /\ desk # "bundles" => \A c \in Currencies : rate[c] = CHOOSE r \in Rates : TRUE
    /\ desk # "plans" => \A p \in PlanIds : plan[p].status = "absent"

Next ==
    /\ \/ desk = "settings" /\ SettingsNext /\ UNCHANGED <<bundleVars, planVars>>
       \/ desk = "bundles" /\ BundlesNext /\ UNCHANGED <<settingsVars, planVars>>
       \/ desk = "plans" /\ PlansNext /\ UNCHANGED <<settingsVars, bundleVars>>
    /\ UNCHANGED desk

Spec == Init /\ [][Next]_vars

-----------------------------------------------------------------------------
(* Rows and requests have the shapes the code gives them.                   *)
TypeOK == SettingsTypeOK /\ BundlesTypeOK /\ PlansTypeOK

(* Whatever the bundle, the tax and the payment method, the whole amount    *)
(* the gateway is asked for is within one unit of price, tax and fee added  *)
(* up, although the fee and then the total are rounded; an order for coins  *)
(* by number likewise.                                                      *)
ChargedWithinOneUnit ==
    \A tax \in Taxes, m \in Methods :
        /\ \A b \in Offered : Within(Unit, prepareBundleOrder(bundle[b], tax, m), m)
        /\ \A n \in CoinAmounts, c \in Currencies :
              Within(Unit, prepareCustomOrder(n, rate[c], tax, m), m)
=============================================================================
