---------------------------- MODULE MCMetricsPush ----------------------------
(***************************************************************************)
(* Small instances of the metrics pusher: the sets its cfg files name.     *)
(***************************************************************************)
EXTENDS MetricsPushRefinement

OneManager  == {1}
NoPoison    == {}
FirstSample == {<<1, 0>>}
OrderFaults == {"write", "remove", "gather", "read"}
LossFaults  == {"write", "read", "scan"}
=============================================================================
