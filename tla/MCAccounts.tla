------------------------------ MODULE MCAccounts ------------------------------
(* One owner and two requests at a time.  Three links are what it takes for *)
(* a reset link to be issued while another one is being used; two tokens    *)
(* for an exchange and for two logins.  (The theorems hold for any number.) *)
EXTENDS Accounts, TLC

Symmetry ==
    Permutations(Tokens) \cup Permutations(Handlers) \cup Permutations(Links)
    \cup Permutations(Passwords)
=============================================================================
