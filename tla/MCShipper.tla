------------------------------ MODULE MCShipper ------------------------------
(***************************************************************************)
(* Small instances of the shipper.  The cfg files give the sizes; the sets *)
(* of faults and of special events they choose from are named here.        *)
(***************************************************************************)
EXTENDS ShipperRefinement

NoFaults  == {}
AllFaults == FaultKinds
\* a disk that deletes what it is told to, in a directory of our own
TidyFaults == FaultKinds \ {"remove", "foreign"}
FullDisk  == {"reject", "write"}

NoEvents    == {}
FirstEvent  == {1}
SecondEvent == {2}
=============================================================================
