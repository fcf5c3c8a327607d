------------------------------ MODULE Telemetry ------------------------------
(***************************************************************************)
(* What the metrics pusher and the package collector promise, without      *)
(* spool, requests, retries or crashes.  A sample is owed to the receiver  *)
(* from the moment it is gathered.  A snapshot waits for a push that       *)
(* claims all there are, and is owed from then on; the next scan replaces  *)
(* those that still wait.  What is owed is taken or lost, and neither      *)
(* comes back: no replay sends what was given up, no push claims what was  *)
(* replaced, and nothing that waits has been sent.                         *)
(***************************************************************************)
EXTENDS Naturals

CONSTANTS Managers, MaxSamples, MaxScans

VARIABLES
    scanned,  \* scans so far
    waiting,  \* snapshots of the last scan that no push claimed
    owed,     \* samples and claimed snapshots on their way
    taken,    \* what the receiver has
    lost      \* what was given up before the receiver had it

vars == <<scanned, waiting, owed, taken, lost>>

Known == waiting \cup owed \cup taken \cup lost

Init == scanned = 0 /\ waiting = {} /\ owed = {} /\ taken = {} /\ lost = {}

\* samples are numbered in the order they are gathered
Sample ==
    /\ \E n \in 1..MaxSamples :
          /\ <<n, 0>> \notin Known /\ (n = 1 \/ <<n - 1, 0>> \in Known)
          /\ owed' = owed \cup {<<n, 0>>}
    /\ UNCHANGED <<scanned, waiting, taken, lost>>

Scan ==
    /\ scanned < MaxScans
    /\ scanned' = scanned + 1
    /\ \E found \in SUBSET Managers : waiting' = {scanned + 1} \X found
    /\ lost' = lost \cup waiting
    /\ UNCHANGED <<owed, taken>>

Claim ==
    /\ waiting # {}
    /\ owed' = owed \cup waiting
    /\ waiting' = {}
    /\ UNCHANGED <<scanned, taken, lost>>

Take(i) ==
    /\ taken' = taken \cup {i}
    /\ owed' = owed \ {i}
    /\ UNCHANGED <<scanned, waiting, lost>>

Lose(S) ==
    /\ owed' = owed \ S
    /\ waiting' = waiting \ S
    /\ lost' = lost \cup S
    /\ UNCHANGED <<scanned, taken>>

Next == \/ Sample \/ Scan \/ Claim
        \/ \E i \in owed : Take(i)
        \/ \E S \in SUBSET (owed \cup waiting) : Lose(S)

Spec == Init /\ [][Next]_vars
=============================================================================
