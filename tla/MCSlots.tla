------------------------------- MODULE MCSlots -------------------------------
(***************************************************************************)
(* A small account: package 1 and add-on 11, of one slot each.  A plan may *)
(* be edited to give none, or to give slots without a limit.               *)
(***************************************************************************)
EXTENDS SlotViews, TLC

MCCapacity == [s \in Subs |-> 1]
MCEdits == [s \in Subs |-> {[capacity |-> 0, unlimited |-> s \in Addons]}]

Symmetry ==
    Permutations(SlotIds) \cup Permutations(Refs) \cup Permutations(Assigners)
        \cup Permutations(Releasers) \cup Permutations(Sweepers)

=============================================================================
