------------------------------ MODULE Delivery ------------------------------
(***************************************************************************)
(* What the webhook outbox promises, without saying how: an event that was *)
(* enqueued is kept until it is either delivered, and then Domain 2 has    *)
(* accepted it, or given up; and that is final.  Outbox implements this    *)
(* specification.                                                          *)
(***************************************************************************)
CONSTANT Events    \* logical events, one per idempotency key

VARIABLES
    open,          \* events enqueued and not yet settled
    accepted,      \* events Domain 2 has accepted, maybe more than once
    completed,     \* events settled as delivered
    failed         \* events given up

deliveryVars == <<open, accepted, completed, failed>>

DeliveryInit == open = {} /\ accepted = {} /\ completed = {} /\ failed = {}

Enqueue(e) ==
    /\ e \notin open \cup completed \cup failed
    /\ open' = open \cup {e}
    /\ UNCHANGED <<accepted, completed, failed>>

Accept(e) ==
    /\ e \in open
    /\ accepted' = accepted \cup {e}
    /\ UNCHANGED <<open, completed, failed>>

Complete(e) ==
    /\ e \in open \cap accepted
    /\ open' = open \ {e}
    /\ completed' = completed \cup {e}
    /\ UNCHANGED <<accepted, failed>>

GiveUp(e) ==
    /\ e \in open
    /\ open' = open \ {e}
    /\ failed' = failed \cup {e}
    /\ UNCHANGED <<accepted, completed>>

DeliveryNext == \E e \in Events : Enqueue(e) \/ Accept(e) \/ Complete(e) \/ GiveUp(e)

DeliverySpec == DeliveryInit /\ [][DeliveryNext]_deliveryVars

=============================================================================
