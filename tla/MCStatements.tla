----------------------------- MODULE MCStatements -----------------------------
(***************************************************************************)
(* A small instance of the statements phase: two databases run the same    *)
(* statement, which is fast or slow.                                       *)
(***************************************************************************)
EXTENDS Statements, TLC

CONSTANTS scrape, push, db1, db2, none

TwoGatherers == {scrape, push}
TwoKeys      == {db1, db2}
OneQueryId   == [k \in TwoKeys |-> "q"]
TwoDims      == {"calls", "time"}
FastAndSlow  == {[calls |-> 1, time |-> 1], [calls |-> 1, time |-> 4]}
FourBuckets  == {0, 1, 2, 4}
AllFaults    == FaultKinds
NoFaults     == {}

Interchangeable == Permutations(TwoGatherers) \cup Permutations(TwoKeys)
=============================================================================
