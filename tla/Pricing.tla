------------------------------- MODULE Pricing -------------------------------
(***************************************************************************)
(* The price of a coin order: prepareCustomOrder for coins by number,      *)
(* prepareBundleOrder for a bundle.  Prices are in hundredths of the       *)
(* currency and rates in ten-thousandths, as the catalogue keeps them;     *)
(* taxes and fees are computed in millionths, which is exact for whole     *)
(* percentages (the code computes in floating point), and the gateway is   *)
(* asked for whole units.                                                  *)
(***************************************************************************)
EXTENDS Integers

Unit == 1000000
Cent == 10000
TenThousandth == 100
NoDiscount == -1

(* Math.round of what is not negative.                                      *)
Truncate(x) == x \div Unit
Round(x) == (x + Unit \div 2) \div Unit

Percentage(x, v) == (x * v) \div 100

(* A bundle's tax is a percentage whatever its type; a custom order's may   *)
(* be a fixed amount.                                                       *)
BundleTax(base, tax) == IF tax.type = "NONE" THEN 0 ELSE Percentage(base, tax.value)
CustomTax(base, tax) ==
    IF tax.type = "FIXED" THEN tax.value * Unit ELSE BundleTax(base, tax)

(* The gateway's fee, on price and tax, is rounded before it is added.      *)
ExactFee(x, method) ==
    IF method.fee_type = "PERCENTAGE" THEN Percentage(x, method.fee_value)
    ELSE method.fee_value * Unit
Receipt(base, taxAmount, method) ==
    LET fee == Round(ExactFee(base + taxAmount, method)) IN
    [basePrice |-> base, taxAmount |-> taxAmount, gatewayFee |-> fee,
     totalPrice |-> Round(base + taxAmount + fee * Unit)]

(* A bundle costs its discounted price, if it has one.                      *)
prepareBundleOrder(bundle, tax, method) ==
    LET base == (IF bundle.discount = NoDiscount THEN bundle.price ELSE bundle.discount) * Cent
    IN Receipt(base, BundleTax(base, tax), method)

(* Coins by number are priced at the active currency's rate, in whole units.*)
prepareCustomOrder(coins, rate, tax, method) ==
    LET base == Round(coins * rate * TenThousandth) * Unit
    IN Receipt(base, CustomTax(base, tax), method)

(* What is charged and what its parts add up to before any rounding.        *)
Within(n, receipt, method) ==
    LET exact == receipt.basePrice + receipt.taxAmount
                     + ExactFee(receipt.basePrice + receipt.taxAmount, method)
        charged == receipt.totalPrice * Unit IN
    charged - exact <= n /\ exact - charged <= n
=============================================================================
