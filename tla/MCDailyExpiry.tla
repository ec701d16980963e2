--------------------------- MODULE MCDailyExpiry ---------------------------
(***************************************************************************)
(* A package, an add-on that ends with it and one that ends a day later;   *)
(* a grace period of two days, a warning on the day before.                *)
(***************************************************************************)
EXTENDS DailyExpiry

CONSTANTS p, a, b

MCBillEnd == [s \in Subs |-> IF s = b THEN 2 ELSE 1]

=============================================================================
