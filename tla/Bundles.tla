------------------------------- MODULE Bundles -------------------------------
(***************************************************************************)
(* Coin bundles.  A bundle's price is its coins at the conversion rate of  *)
(* its currency when it was last edited; a discounted price must be less.  *)
(* An edit is a sequence of awaits without a transaction: it reads the     *)
(* bundle, then the currency, checks, verifies again, and writes the       *)
(* fields that were sent, and the price, by id.                            *)
(*                                                                         *)
(* A rate has four decimals, and so has the price an edit computes; the    *)
(* columns of the bundle have two, and round what they are given.  Amounts *)
(* in a request are in ten-thousandths, those in a row in hundredths.  (A  *)
(* discount with more decimals compares and rounds as the first four do.)  *)
(***************************************************************************)
EXTENDS Pricing, FiniteSets

CONSTANTS
    BundleIds,   \* rows of coin_bundles
    Currencies,  \* currencies of the catalogue
    NoCurrency,  \* none
    Rates,       \* conversion rates they may have, in ten-thousandths
    CoinAmounts, \* coin_amount an administrator may send
    Discounts,   \* discounted_price one may send, in ten-thousandths
    Editors,     \* requests on bundles that may be in progress at once
    NoBundle     \* none

Keep == -2       \* a field that is not sent

ASSUME BundleAssumption ==
    /\ Rates \subseteq Nat /\ CoinAmounts \subseteq Nat /\ Discounts \subseteq Nat
    /\ NoCurrency # Keep /\ {NoCurrency, Keep} \cap Currencies = {}
    /\ NoBundle \notin BundleIds

VARIABLES
    rate,        \* conversion rate of each currency
    bundle,      \* the rows
    edit,        \* the requests
    crossed      \* bundles on which edits have overlapped, and no edit has had
                 \* the bundle to itself since

bundleVars == <<rate, bundle, edit, crossed>>

BundleRows ==
    [status : {"absent", "live", "deleted"}, coins : CoinAmounts \cup {0},
     currency : Currencies \cup {NoCurrency}, price : Nat,
     discount : Nat \cup {NoDiscount}]
NoRow == [status |-> "absent", coins |-> 0, currency |-> NoCurrency, price |-> 0,
          discount |-> NoDiscount]

EditStates ==
    [pc : {"idle", "reading", "pricing", "verifying", "storing", "removing"},
     bundle : BundleIds \cup {NoBundle}, new : BOOLEAN,
     coins : CoinAmounts \cup {0, Keep}, currency : Currencies \cup {NoCurrency, Keep},
     discount : Discounts \cup {NoDiscount, Keep},
     was : BundleRows, price : Nat, alone : BOOLEAN]
NoEdit ==
    [pc |-> "idle", bundle |-> NoBundle, new |-> FALSE, coins |-> Keep, currency |-> Keep,
     discount |-> Keep, was |-> NoRow, price |-> 0, alone |-> TRUE]

BundlesInit ==
    /\ rate \in [Currencies -> Rates]
    /\ bundle = [b \in BundleIds |-> NoRow]
    /\ edit = [e \in Editors |-> NoEdit]
    /\ crossed = {}

Sent(value, old) == IF value = Keep THEN old ELSE value

-----------------------------------------------------------------------------
(* The currency is edited meanwhile.                                        *)
UpdateCurrency(c) ==
    /\ \E r \in Rates \ {rate[c]} : rate' = [rate EXCEPT ![c] = r]
    /\ UNCHANGED <<bundle, edit, crossed>>

(* A request on bundle b is received, to go on at pc.                       *)
Receive(e, b, pc, new) ==
    LET others == {f \in Editors : edit[f].bundle = b} IN
    /\ edit[e].pc = "idle"
    /\ edit' = [f \in Editors |->
          IF f = e
          THEN [NoEdit EXCEPT !.pc = pc, !.bundle = b, !.new = new, !.alone = others = {}]
          ELSE [edit[f] EXCEPT !.alone = @ /\ f \notin others]]
    /\ crossed' = IF others = {} THEN crossed ELSE crossed \cup {b}
    /\ UNCHANGED <<rate, bundle>>

(* A new row has an id of its own.                                          *)
createBundle(e, b) ==
    /\ bundle[b].status = "absent"
    /\ \A f \in Editors : edit[f].bundle # b
    /\ Receive(e, b, "pricing", TRUE)

updateBundle(e, b) ==
    /\ bundle[b].status # "absent"
    /\ Receive(e, b, "reading", FALSE)

removeBundle(e, b) ==
    /\ bundle[b].status # "absent"
    /\ Receive(e, b, "removing", FALSE)

(* What an edit leaves behind.                                              *)
Refuse(e) ==
    /\ edit' = [edit EXCEPT ![e] = NoEdit]
    /\ UNCHANGED <<rate, bundle, crossed>>
Proceed(e, next) ==
    /\ edit' = [edit EXCEPT ![e] = next]
    /\ UNCHANGED <<rate, bundle, crossed>>

(* getBundleById: 404 for a deleted one.                                    *)
ReadBundle(e) ==
    LET b == edit[e].bundle IN
    /\ edit[e].pc = "reading"
    /\ IF bundle[b].status # "live" THEN Refuse(e)
       ELSE Proceed(e, [edit[e] EXCEPT !.pc = "pricing", !.was = bundle[b]])

(* What a column keeps of a price, and what it is compared as.              *)
Cents(x) == IF x = NoDiscount THEN NoDiscount ELSE (x + 50) \div 100
Fine(cents) == IF cents = NoDiscount THEN NoDiscount ELSE 100 * cents

(* The discount that is checked: the one that was sent, else the row's.     *)
SentDiscount(q) == IF q.discount = Keep THEN NoDiscount ELSE q.discount
newDiscountedPrice(q) == Sent(q.discount, Fine(q.was.discount))

(* The fields that may be sent: here is where they are first looked at.     *)
(* (A discounted price of null is no discount.)                             *)
Body(new) ==
    LET optional == IF new THEN {} ELSE {Keep} IN
    [coins : CoinAmounts \cup optional, currency : Currencies \cup optional,
     discount : Discounts \cup {NoDiscount} \cup optional]

(* getCurrencyById, the price, and the check.  (The currency may be gone,   *)
(* or not be active, by then.)                                              *)
PriceBundle(e) ==
    /\ edit[e].pc = "pricing"
    /\ \/ Refuse(e)
       \/ \E body \in Body(edit[e].new) :
             LET q == [edit[e] EXCEPT !.coins = body.coins, !.currency = body.currency,
                                      !.discount = body.discount]
                 calculatedPrice ==
                     Sent(q.coins, q.was.coins) * rate[Sent(q.currency, q.was.currency)]
             IN
             /\ newDiscountedPrice(q) < calculatedPrice
             /\ Proceed(e, [q EXCEPT !.pc = IF q.new THEN "storing" ELSE "verifying",
                                     !.was = NoRow, !.price = calculatedPrice])

(* BundleService.updateBundle looks the bundle up again.                    *)
VerifyBundle(e) ==
    /\ edit[e].pc = "verifying"
    /\ IF bundle[edit[e].bundle].status # "live" THEN Refuse(e)
       ELSE Proceed(e, [edit[e] EXCEPT !.pc = "storing"])

(* The row, by id, deleted by now or not: the fields that were sent.        *)
Fields(q, row, price) ==
    [status |-> IF q.new THEN "live" ELSE row.status,
     coins |-> Sent(q.coins, row.coins),
     currency |-> Sent(q.currency, row.currency),
     price |-> Cents(price),
     discount |-> IF q.discount = Keep THEN row.discount ELSE Cents(q.discount)]
StoredRow(q, row) == Fields(q, row, q.price)

StoreBundle(e) ==
    LET q == edit[e] IN
    /\ q.pc = "storing"
    /\ bundle' = [bundle EXCEPT ![q.bundle] = StoredRow(q, bundle[q.bundle])]
    /\ crossed' = IF q.alone THEN crossed \ {q.bundle} ELSE crossed
    /\ edit' = [edit EXCEPT ![e] = NoEdit]
    /\ UNCHANGED rate

(* BundleService.removeBundle: the look-up, then the soft delete.           *)
RemoveBundle(e) ==
    LET b == edit[e].bundle IN
    /\ edit[e].pc = "removing"
    /\ bundle' = IF bundle[b].status = "live"
                 THEN [bundle EXCEPT ![b].status = "deleted"] ELSE bundle
    /\ edit' = [edit EXCEPT ![e] = NoEdit]
    /\ UNCHANGED <<rate, crossed>>

BundlesNext ==
    \/ \E c \in Currencies : UpdateCurrency(c)
    \/ \E e \in Editors :
          \/ \E b \in BundleIds : createBundle(e, b) \/ updateBundle(e, b) \/ removeBundle(e, b)
          \/ ReadBundle(e) \/ PriceBundle(e) \/ VerifyBundle(e) \/ StoreBundle(e)
          \/ RemoveBundle(e)

-----------------------------------------------------------------------------
BundlesTypeOK ==
    /\ rate \in [Currencies -> Rates]
    /\ bundle \in [BundleIds -> BundleRows]
    /\ edit \in [Editors -> EditStates]
    /\ crossed \subseteq BundleIds

Offered == {b \in BundleIds : bundle[b].status = "live"}

(* No bundle is on offer at a discounted price above its price, also when  *)
(* an edit sends the coins and leaves the discount, or the other way round *)
(* (rounding may make the two equal); and a bundle costs what its coins    *)
(* come to at a rate of the catalogue, rounded as its column does: no edit *)
(* leaves new coins at the old price.  Unless edits of one bundle have     *)
(* overlapped, each with the row as it was; then the next edit, alone, is  *)
(* refused or makes it good.                                               *)
PricesHold ==
    \A b \in Offered \ crossed :
        /\ bundle[b].discount <= bundle[b].price
        /\ \E r \in Rates : bundle[b].price = Cents(bundle[b].coins * r)
=============================================================================
