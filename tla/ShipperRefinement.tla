-------------------------- MODULE ShipperRefinement --------------------------
(* The shipper implements Delivery. *)
EXTENDS Shipper

\* An event a batch of which the receiver took before its answer was lost
\* counts as taken, whatever the agent does with its copy of the batch.
Abstract ==
    INSTANCE Delivery WITH
        offered <- arrived,
        held    <- (InMemory \cup Stored) \ Delivered,
        taken   <- {[id |-> r.id, evs |-> Range(r.evs)] : r \in received},
        lost    <- Lost \ Delivered

\* Every behaviour of the shipper, with its retries, replays, faults and
\* crashes, is a behaviour of Delivery.
ImplementsDelivery == Abstract!Spec
=============================================================================
