------------------------------ MODULE Delivery ------------------------------
(***************************************************************************)
(* What the event shipper promises, without queue, batches in progress,    *)
(* spool, retries or crashes.  An offered event is held until it is taken  *)
(* by the receiver in one batch of bounded size under a batch id of its    *)
(* own, or lost.  Taken and lost events never change again, so a batch the *)
(* receiver sees several times is the same batch.                          *)
(***************************************************************************)
EXTENDS Naturals, FiniteSets

CONSTANTS BatchSize, MaxEvents

VARIABLES
    offered,  \* number of events offered
    held,     \* events the agent still owes
    taken,    \* batches the receiver has
    lost      \* events given up before the receiver had them

vars == <<offered, held, taken, lost>>

Init == offered = 0 /\ held = {} /\ taken = {} /\ lost = {}

Offer ==
    /\ offered < MaxEvents
    /\ offered' = offered + 1
    /\ \/ held' = held \cup {offered + 1} /\ UNCHANGED lost
       \/ lost' = lost \cup {offered + 1} /\ UNCHANGED held
    /\ UNCHANGED taken

Take(i, S) ==
    /\ S # {} /\ Cardinality(S) <= BatchSize
    /\ \A t \in taken : t.id # i
    /\ taken' = taken \cup {[id |-> i, evs |-> S]}
    /\ held' = held \ S
    /\ UNCHANGED <<offered, lost>>

Lose(S) ==
    /\ S # {}
    /\ held' = held \ S
    /\ lost' = lost \cup S
    /\ UNCHANGED <<offered, taken>>

Next == \/ Offer
        \/ \E S \in SUBSET held : Lose(S) \/ \E i \in 1..MaxEvents : Take(i, S)

Spec == Init /\ [][Next]_vars
=============================================================================
