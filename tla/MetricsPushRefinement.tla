------------------------ MODULE MetricsPushRefinement ------------------------
(* The metrics pusher and the package collector implement Telemetry. *)
EXTENDS MetricsPush

\* An item that the receiver took before its answer was lost counts as taken,
\* whatever becomes of the copy that is spooled or sent again.
Abstract ==
    INSTANCE Telemetry WITH
        scanned <- scans,
        waiting <- pending,
        owed    <- (InHand \cup outgoing \cup Stored) \ received,
        taken   <- received,
        lost    <- Dropped \ received

\* Every behaviour of the pusher and the collector, with failing disks, replays,
\* crashes and scans in between, is a behaviour of Telemetry.
ImplementsTelemetry == Abstract!Spec
=============================================================================
