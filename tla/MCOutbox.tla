------------------------------ MODULE MCOutbox ------------------------------
(***************************************************************************)
(* Two server processes, two events that fit in one batch, two attempts.   *)
(***************************************************************************)
EXTENDS Outbox, TLC

(* Events are interchangeable: what holds of one of them holds of each.     *)
OneSettles == Settles(CHOOSE e \in Events : TRUE)

Symmetry == Permutations(Events) \cup Permutations(Workers)

=============================================================================
