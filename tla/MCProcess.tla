------------------------------ MODULE MCProcess ------------------------------
(* Two clients, two attempts each, and both gateways.  A token lives three *)
(* ticks, 90 seconds: as short as the refresh buffer allows, so that it    *)
(* runs out during the calls.                                              *)
EXTENDS Process

=============================================================================
