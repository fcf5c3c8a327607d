---------------------------- MODULE ShipperProofs ----------------------------
(***************************************************************************)
(* Safety of the shipper for every batch size, budget, fault set and       *)
(* bound: type correctness, the inductive invariant behind NothingVanishes,*)
(* GoneForGood, OneBatchPerEvent and OnlyWholeBatches, the refinement of   *)
(* Delivery, and the budget of the spool.                                  *)
(***************************************************************************)
EXTENDS ShipperRefinement, Sums

-----------------------------------------------------------------------------
(* Sequences and the bookkeeping of losses *)

\* Append adds one element to the range of a sequence.
LEMMA RangeOfAppend ==
    ASSUME NEW s \in Seq(Nat), NEW e \in Nat
    PROVE  Range(Append(s, e)) = Range(s) \cup {e}
<1>1. /\ Len(Append(s, e)) = Len(s) + 1 /\ Len(s) \in Nat
      /\ DOMAIN s = 1..Len(s) /\ DOMAIN Append(s, e) = 1..(Len(s) + 1)
      /\ Append(s, e)[Len(s) + 1] = e
      /\ \A i \in 1..Len(s) : Append(s, e)[i] = s[i]
  OBVIOUS
<1>2. 1..(Len(s) + 1) = 1..Len(s) \cup {Len(s) + 1}
  BY <1>1
<1> QED BY <1>1, <1>2 DEF Range

\* A nonempty sequence holds its head and what its tail holds.
LEMMA RangeOfTail ==
    ASSUME NEW s \in Seq(Nat), s # <<>>
    PROVE  /\ Head(s) \in Nat /\ Tail(s) \in Seq(Nat)
           /\ Range(s) = Range(Tail(s)) \cup {Head(s)}
<1>1. Head(s) = s[1] /\ Tail(s) \in Seq(Nat) /\ Len(s) \in Nat \ {0}
  OBVIOUS
<1>2. \A i \in 1..Len(Tail(s)) : Tail(s)[i] = s[i + 1]
  OBVIOUS
<1>3. Len(Tail(s)) = Len(s) - 1
  OBVIOUS
<1>4. ASSUME NEW x PROVE x \in Range(s) <=> x \in Range(Tail(s)) \cup {Head(s)}
  <2>1. x \in Range(s) <=> \E i \in 1..Len(s) : x = s[i]
    <3>1. DOMAIN s = 1..Len(s)
      OBVIOUS
    <3> QED BY <3>1 DEF Range
  <2>2. x \in Range(Tail(s)) <=> \E i \in 1..Len(Tail(s)) : x = Tail(s)[i]
    <3>1. DOMAIN Tail(s) = 1..Len(Tail(s))
      BY <1>1
    <3> QED BY <3>1 DEF Range
  <2>3. x \in Range(Tail(s)) <=> \E i \in 2..Len(s) : x = s[i]
    <3>1. ASSUME NEW i \in 2..Len(s), x = s[i]
          PROVE  \E j \in 1..Len(Tail(s)) : x = Tail(s)[j]
      <4>1. i - 1 \in 1..Len(Tail(s)) /\ x = Tail(s)[i - 1]
        BY <1>1, <1>2, <1>3, <3>1
      <4> QED BY <4>1
    <3>2. ASSUME NEW i \in 1..Len(Tail(s)), x = Tail(s)[i]
          PROVE  \E j \in 2..Len(s) : x = s[j]
      <4>1. i + 1 \in 2..Len(s) /\ x = s[i + 1]
        BY <1>1, <1>2, <1>3, <3>2
      <4> QED BY <4>1
    <3> QED BY <2>2, <3>1, <3>2
  <2>4. x \in Range(s) <=> x = s[1] \/ \E i \in 2..Len(s) : x = s[i]
    BY <1>1, <2>1
  <2> QED BY <1>1, <2>3, <2>4
<1> QED BY <1>1, <1>4

\* No event twice: what dequeuing relies on.
Distinct(s) == \A i, j \in 1..Len(s) : s[i] = s[j] => i = j

\* A new element at the end leaves a sequence distinct.
LEMMA DistinctAppend ==
    ASSUME NEW s \in Seq(Nat), NEW e \in Nat, Distinct(s), e \notin Range(s)
    PROVE  Distinct(Append(s, e))
  BY DEF Distinct, Range

\* Without its head a sequence stays distinct, and the head is gone from it.
LEMMA DistinctTail ==
    ASSUME NEW s \in Seq(Nat), s # <<>>, Distinct(s)
    PROVE  Distinct(Tail(s)) /\ Head(s) \notin Range(Tail(s))
<1>1. Head(s) = s[1] /\ Len(s) \in Nat \ {0} /\ Len(Tail(s)) = Len(s) - 1
  OBVIOUS
<1>2. \A i \in 1..Len(Tail(s)) : i + 1 \in 1..Len(s) /\ Tail(s)[i] = s[i + 1]
  BY <1>1
<1>3. Distinct(Tail(s))
  <2> SUFFICES ASSUME NEW i \in 1..Len(Tail(s)), NEW j \in 1..Len(Tail(s)),
                      Tail(s)[i] = Tail(s)[j]
               PROVE  i = j
    BY DEF Distinct
  <2>1. i + 1 = j + 1
    BY <1>2 DEF Distinct
  <2> QED BY <2>1, <1>1
<1>4. ASSUME NEW i \in 1..Len(Tail(s)), Tail(s)[i] = Head(s) PROVE FALSE
  <2>1. i + 1 = 1
    BY <1>1, <1>2, <1>4 DEF Distinct
  <2> QED BY <2>1, <1>1
<1> QED BY <1>3, <1>4 DEF Range

\* Give adds exactly the events it is given to the lost ones.
LEMMA GiveAdds ==
    ASSUME gone \in [Fates -> SUBSET Nat], NEW why \in Fates,
           NEW evs \in SUBSET Nat, Give(why, evs)
    PROVE  /\ gone' \in [Fates -> SUBSET Nat]
           /\ Lost' = Lost \cup evs
           /\ \A r \in Fates : gone'[r] = IF r = why THEN gone[r] \cup evs
                                                     ELSE gone[r]
<1>1. \A r \in Fates : gone'[r] = IF r = why THEN gone[r] \cup evs ELSE gone[r]
  BY DEF Give
<1>2. gone' \in [Fates -> SUBSET Nat]
  BY DEF Give
<1>3. Lost' = Lost \cup evs
  BY <1>1, Zenon DEF Lost
<1> QED BY <1>1, <1>2, <1>3

-----------------------------------------------------------------------------
(* Types *)

FlushPcs == {"send", "backoff", "resend", "spool", "write", "rename"}

\* TypeOK is not inductive alone: a replayed file is in the spool, and no
\* longer among those the pass has yet to visit, until its answer is handled,
\* and the pass may still fail.
TypeInv ==
    /\ TypeOK
    /\ pc = "replaySend" => cur \in spool \ todo /\ fails < MaxTransient

\* Everything is typed at first.
LEMMA TypeInit == Init => TypeInv
<1> SUFFICES ASSUME Init PROVE TypeInv
  OBVIOUS
<1>1. ForeignFile \in File /\ NoFile \in File
  BY DEF ForeignFile, NoFile, File
<1>2. spool \subseteq File
  BY <1>1 DEF Init
<1>3. fails \in 0..MaxTransient
  BY ConstantsAssumption DEF Init
<1>4. queue \in Seq(Nat) /\ batch \in Seq(Nat)
  BY DEF Init
<1>5. gone \in [Fates -> SUBSET Nat]
  BY DEF Init
<1> QED BY <1>1, <1>2, <1>3, <1>4, <1>5 DEF Init, TypeInv, TypeOK

\* What removing a file of the spool leaves of it.
LEMMA RemoveTyped ==
    ASSUME TypeOK, NEW f, RemoveFile(f), todo' \subseteq todo \ {f}
    PROVE  spool' \subseteq File /\ todo' \subseteq spool' /\ spool' \subseteq spool
  BY DEF TypeOK, RemoveFile

\* A sequence of numbers holds numbers.
LEMMA RangeOfNats == ASSUME NEW s \in Seq(Nat) PROVE Range(s) \subseteq Nat
<1>1. DOMAIN s = 1..Len(s) /\ \A i \in 1..Len(s) : s[i] \in Nat
  OBVIOUS
<1> QED BY <1>1 DEF Range

\* Every step keeps the types.
LEMMA TypeStep == TypeInv /\ [Next]_vars => TypeInv'
<1> SUFFICES ASSUME TypeInv, [Next]_vars PROVE TypeInv'
  OBVIOUS
<1> USE ConstantsAssumption DEF TypeInv
<1>a. NoFile \in File /\ cur.evs \in Seq(Nat) /\ cur.kind \in {"ours", "torn", "foreign"}
  BY DEF TypeOK, NoFile, File
<1>b. Caller \in {"select", "drain"}
  BY DEF Caller
<1>c. Torn(cur) \in File
  BY <1>a DEF Torn, File, TypeOK
<1>d. Range(cur.evs) \subseteq Nat /\ Range(batch) \subseteq Nat /\ Range(queue) \subseteq Nat
  BY <1>a, RangeOfNats DEF TypeOK
<1>e. InMemory \subseteq Nat
  BY <1>d DEF InMemory
<1>f. \A f \in spool : Range(f.evs) \subseteq Nat
  BY RangeOfNats DEF TypeOK, File
<1>1. CASE Enqueue
  <2>1. queue' \in Seq(Nat)
    <3>1. queue' = queue \/ queue' = Append(queue, arrived + 1)
      BY <1>1 DEF Enqueue
    <3>2. queue \in Seq(Nat) /\ arrived + 1 \in Nat
      BY DEF TypeOK
    <3> QED BY <3>1, <3>2
  <2>2. gone' \in [Fates -> SUBSET Nat]
    <3>1. "queue_full" \in Fates /\ {arrived + 1} \in SUBSET Nat
      BY DEF Fates, TypeOK
    <3> QED BY <1>1, <3>1, GiveAdds DEF Enqueue, TypeOK
  <2> QED BY <1>1, <2>1, <2>2 DEF Enqueue, TypeOK, life, loop, disk
<1>2. CASE TakeEvent
  BY <1>2, RangeOfTail DEF TakeEvent, TypeOK, life, loop, disk, history, world
<1>3. CASE DrainEvent
  BY <1>3, RangeOfTail DEF DrainEvent, TypeOK, life, loop, disk, history, world
<1>4. CASE Boot \/ Tick \/ BeginDrain \/ PassEnds
  <2>1. CASE Boot
    BY <2>1 DEF Boot, RemoveTmp, TypeOK, memory, life, history, world
  <2>2. CASE Tick
    BY <2>2 DEF Tick, TypeOK, memory, life, disk, history, world
  <2>3. CASE BeginDrain
    BY <2>3 DEF BeginDrain, TypeOK, memory, loop, disk, history, world
  <2>4. CASE PassEnds
    <3>1. pc' \in {"select", "flush"}
      BY <2>4 DEF PassEnds
    <3> QED BY <2>4, <3>1 DEF PassEnds, TypeOK, memory, life, disk, history, world
  <2> QED BY <1>4, <2>1, <2>2, <2>3, <2>4
<1>5. CASE DiscardForeign
  <2>1. PICK f \in Oldest(todo) : todo' = todo \ {f} /\ RemoveFile(f)
    BY <1>5 DEF DiscardForeign
  <2> QED BY <1>5, <2>1, RemoveTyped DEF DiscardForeign, Visiting, TypeOK, memory, life, history, world
<1>6. CASE DiscardUnreadable
  <2>1. PICK f \in Oldest(todo) :
            todo' = todo \ {f} /\ RemoveFile(f) /\ GiveIfRemoved("unreported", f)
    BY <1>6 DEF DiscardUnreadable
  <2>2. gone' \in [Fates -> SUBSET Nat]
    <3>1. "unreported" \in Fates /\ Range(f.evs) \in SUBSET Nat
      BY <1>f DEF Fates, Oldest, TypeOK
    <3> QED BY <2>1, <3>1, GiveAdds DEF GiveIfRemoved, TypeOK
  <2> QED BY <1>6, <2>1, <2>2, RemoveTyped DEF DiscardUnreadable, Visiting, TypeOK, memory, life, world
<1>7. CASE Replay
  <2>1. PICK f \in Oldest(todo) :
            /\ todo' = todo \ {f}
            /\ IF cancelled THEN fails' = fails + 1 /\ UNCHANGED <<pc, cur>>
                 ELSE cur' = f /\ pc' = "replaySend" /\ UNCHANGED fails
    BY <1>7 DEF Replay
  <2>2. f \in spool /\ f \in File /\ f \in todo
    BY DEF Oldest, TypeOK
  <2>3. fails + 1 \in 0..MaxTransient
    BY <1>7 DEF Replay, Visiting, PassOver, TypeOK
  <2>4. pc = "retrySpool" /\ fails < MaxTransient
    BY <1>7 DEF Replay, Visiting, PassOver, TypeOK
  <2> QED BY <1>7, <2>1, <2>2, <2>3, <2>4 DEF Replay, TypeOK, memory, life, disk, history, world
<1>8. CASE ReplayAcked
  <2>1. RemoveFile(cur) /\ todo' = todo /\ cur \notin todo
    BY <1>8 DEF ReplayAcked, loop
  <2> QED BY <1>8, <1>a, <2>1, RemoveTyped DEF ReplayAcked, TypeOK, memory, life, loop, history, world
<1>9. CASE ReplayRejected
  <2>1. RemoveFile(cur) /\ todo' = todo /\ cur \notin todo
    BY <1>9 DEF ReplayRejected, loop
  <2>2. gone' \in [Fates -> SUBSET Nat]
    <3>1. "unreported" \in Fates
      BY DEF Fates
    <3> QED BY <1>9, <3>1, <1>d, GiveAdds DEF ReplayRejected, GiveIfRemoved, TypeOK
  <2> QED BY <1>9, <1>a, <2>1, <2>2, RemoveTyped DEF ReplayRejected, TypeOK, memory, life, loop, world
<1>10. CASE ReplayFailed
  <2>1. fails + 1 \in 0..MaxTransient
    BY <1>10 DEF ReplayFailed, TypeOK
  <2> QED BY <1>10, <1>a, <2>1 DEF ReplayFailed, TypeOK, memory, life, loop, disk, history, world
<1>11. CASE EncodeFailed
  <2>1. gone' \in [Fates -> SUBSET Nat]
    <3>1. "unreported" \in Fates
      BY DEF Fates
    <3> QED BY <1>11, <3>1, <1>d, <1>e, GiveAdds DEF EncodeFailed, TypeOK
  <2> QED BY <1>11, <1>a, <1>b, <2>1 DEF EncodeFailed, TypeOK, life, loop, disk, world
<1>12. CASE Encode
  <2>1. PICK i \in NewIds : /\ cur' = [id |-> i, evs |-> batch, kind |-> "ours"]
                           /\ issued' = issued \cup {i}
    BY <1>12 DEF Encode
  <2>2. i \in Nat
    BY DEF NewIds
  <2>3. cur' \in File /\ issued' \subseteq Nat
    BY <2>1, <2>2 DEF File, TypeOK
  <2>4. batch' \in Seq(Nat)
    BY <1>12 DEF Encode
  <2> QED BY <1>12, <2>3, <2>4 DEF Encode, TypeOK, life, loop, disk, world
<1>13. CASE Acked
  BY <1>13, <1>a, <1>b DEF Acked, TypeOK, memory, life, loop, disk, history, world
<1>14. CASE Rejected
  <2>1. gone' \in [Fates -> SUBSET Nat]
    <3>1. "permanent" \in Fates
      BY DEF Fates
    <3> QED BY <1>14, <3>1, <1>d, <1>e, GiveAdds DEF Rejected, TypeOK
  <2> QED BY <1>14, <1>a, <1>b, <2>1 DEF Rejected, TypeOK, memory, life, loop, disk, world
<1>15. CASE Failed \/ Backoff
  BY <1>15, <1>b DEF Failed, RetryOrSpool, Backoff, RetrySame, TypeOK, memory, life, loop, disk, history, world
<1>16. CASE SpoolRefused
  <2>1. gone' \in [Fates -> SUBSET Nat]
    <3>1. "spool_write" \in Fates
      BY DEF Fates
    <3> QED BY <1>16, <3>1, <1>d, <1>e, GiveAdds DEF SpoolRefused, TypeOK
  <2> QED BY <1>16, <1>a, <1>b, <2>1 DEF SpoolRefused, TypeOK, memory, life, loop, disk, world
<1>17. CASE SpoolCreate
  BY <1>17, <1>c DEF SpoolCreate, CreateTmp, TypeOK, memory, life, loop, history, world
<1>18. CASE WriteFailed
  <2>1. gone' \in [Fates -> SUBSET Nat]
    <3>1. "spool_write" \in Fates
      BY DEF Fates
    <3> QED BY <1>18, <3>1, <1>d, <1>e, GiveAdds DEF WriteFailed, TypeOK
  <2> QED BY <1>18, <1>a, <1>b, <2>1 DEF WriteFailed, TypeOK, memory, life, loop, disk, world
<1>19. CASE Written
  BY <1>19 DEF Written, TypeOK, memory, life, loop, history, world
<1>20. CASE RenameFailed
  <2>1. gone' \in [Fates -> SUBSET Nat]
    <3>1. "spool_write" \in Fates
      BY DEF Fates
    <3> QED BY <1>20, <3>1, <1>d, <1>e, GiveAdds DEF RenameFailed, TypeOK
  <2> QED BY <1>20, <1>a, <1>b, <2>1 DEF RenameFailed, RemoveTmp, TypeOK, memory, life, loop, world
<1>21. CASE Renamed
  BY <1>21, <1>a DEF Renamed, TypeOK, memory, life, history, world
<1>22. CASE TrimOldest
  <2>1. PICK f \in Oldest(todo) :
            todo' = todo \ {f} /\ RemoveFile(f) /\ GiveIfRemoved("spool_evict", f)
    BY <1>22 DEF TrimOldest
  <2>2. gone' \in [Fates -> SUBSET Nat]
    <3>1. "spool_evict" \in Fates /\ Range(f.evs) \in SUBSET Nat
      BY <1>f DEF Fates, Oldest, TypeOK
    <3> QED BY <2>1, <3>1, GiveAdds DEF GiveIfRemoved, TypeOK
  <2> QED BY <1>22, <2>1, <2>2, RemoveTyped DEF TrimOldest, TypeOK, memory, life, world
<1>23. CASE TrimEnds
  BY <1>23, <1>b DEF TrimEnds, TypeOK, memory, life, disk, history, world
<1>24. CASE DrainChunk \/ Stop
  <2>1. CASE DrainChunk
    BY <2>1 DEF DrainChunk, life, TypeOK, memory, loop, disk, history, world
  <2>2. CASE Stop
    BY <2>2 DEF Stop, TypeOK, memory, life, loop, disk, history, world
  <2> QED BY <1>24, <2>1, <2>2
<1>25. CASE ReceiverTakes
  BY <1>25 DEF ReceiverTakes, TypeOK, memory, life, loop, disk
<1>26. CASE CollectorStops \/ Cancel \/ BudgetElapses
  BY <1>26 DEF CollectorStops, Cancel, BudgetElapses, TypeOK, memory, life, loop, disk, history, world
<1>27. CASE ProcessEnds
  <2>1. gone' \in [Fates -> SUBSET Nat]
    <3>1. "exit" \in Fates
      BY DEF Fates
    <3> QED BY <1>27, <3>1, <1>d, <1>e, GiveAdds DEF ProcessEnds, TypeOK
  <2>2. queue' \in Seq(Nat) /\ batch' \in Seq(Nat) /\ fails' \in 0..MaxTransient
    BY <1>27 DEF ProcessEnds
  <2> QED BY <1>27, <1>a, <2>1, <2>2 DEF ProcessEnds, TypeOK, life, disk, world
<1>28. CASE Restart
  <2>1. restarts' \in Nat
    BY <1>28 DEF Restart, TypeOK
  <2>2. queue' \in Seq(Nat) /\ batch' \in Seq(Nat)
    BY <1>28 DEF Restart, TypeOK, memory
  <2> QED BY <1>28, <2>1, <2>2 DEF Restart, TypeOK, loop, disk
<1>29. CASE UNCHANGED vars
  BY <1>29 DEF vars, TypeOK, memory, life, loop, disk, history, world
<1> QED
  BY <1>1, <1>2, <1>3, <1>4, <1>5, <1>6, <1>7, <1>8, <1>9, <1>10, <1>11, <1>12, <1>13, <1>14, <1>15, <1>16, <1>17, <1>18, <1>19, <1>20, <1>21, <1>22, <1>23, <1>24, <1>25, <1>26, <1>27, <1>28, <1>29
     DEF Next, Run, Environment, Continue, RetrySpool, Flush, Spool, Drain

\* Every variable of the shipper keeps its type.
THEOREM TypeCorrect == Spec => []TypeOK
<1>1. TypeInv => TypeOK
  BY DEF TypeInv
<1> QED BY <1>1, TypeInit, TypeStep, PTL DEF Spec

-----------------------------------------------------------------------------
(* The inductive invariant *)

\* The batches the agent has made and that still exist somewhere: taken by the
\* receiver, in the spool, or in the memory of flush.
Flying == IF Flushing THEN {cur} ELSE {}
Whole(S) == {f \in S : f.kind = "ours"}
Made == received \cup Whole(spool) \cup Flying

\* Where Run has an empty batch, a batch with room, or one to flush.
BatchFits ==
    /\ Len(batch) <= BatchSize
    /\ pc \in {"boot", "select", "retrySpool", "replaySend", "dead"}
          => Len(batch) < BatchSize
    /\ pc = "flush" => batch # <<>>
    /\ pc \in FlushPcs \cup {"trim"} => batch = <<>>

\* The spool holds whole batches and foreign files, which hold no event; every
\* batch made has a size, and an id that was issued.
WholeBatches ==
    /\ \A f \in spool : f.kind = "ours" \/ (f.kind = "foreign" /\ f.evs = <<>>)
    /\ pc = "replaySend" => cur.kind = "ours"
    /\ \A f \in Made : /\ f.kind = "ours"
                       /\ Len(f.evs) \in 1..BatchSize
                       /\ f.id \in issued

\* No event and no id is in two batches.
UniqueBatches ==
    \A f, g \in Made :
        f.id = g.id \/ Range(f.evs) \cap Range(g.evs) # {} => f = g

\* An event the agent holds is in one place: the queue, the batch being
\* filled, the batch being flushed, or one file of the spool.
OnePlace ==
    /\ Distinct(queue)
    /\ Range(queue) \cap Range(batch) = {}
    /\ \A f \in Made : Range(f.evs) \cap (Range(queue) \cup Range(batch)) = {}
    /\ Flushing => cur \notin spool

SafeInv ==
    /\ TypeInv
    /\ BatchFits
    /\ WholeBatches
    /\ UniqueBatches
    /\ OnePlace
    /\ NothingVanishes
    /\ GoneForGood

\* The inductive invariant holds when the agent is installed.
LEMMA SafeInit == Init => SafeInv
<1> SUFFICES ASSUME Init PROVE SafeInv
  OBVIOUS
<1>1. TypeInv
  BY TypeInit
<1>2. queue = <<>> /\ batch = <<>> /\ received = {} /\ pc = "boot" /\ arrived = 0
  BY DEF Init
<1>3. \A f \in spool : f = ForeignFile
  BY DEF Init
<1>4. Range(<<>>) = {} /\ Len(<<>>) = 0
  BY DEF Range
<1>5. Flying = {} /\ Whole(spool) = {} /\ Made = {}
  BY <1>2, <1>3 DEF Flying, Flushing, Whole, Made, ForeignFile
<1>6. BatchFits
  BY <1>2, <1>4, ConstantsAssumption DEF BatchFits, FlushPcs
<1>7. WholeBatches /\ UniqueBatches
  BY <1>2, <1>3, <1>5 DEF WholeBatches, UniqueBatches, ForeignFile
<1>8. OnePlace
  BY <1>2, <1>4, <1>5 DEF OnePlace, Distinct, Flushing
<1>9. InMemory = {} /\ Stored = {} /\ Delivered = {}
  BY <1>2, <1>3, <1>4 DEF InMemory, Stored, Delivered, EventsOf, Flushing, ForeignFile
<1>10. \A r \in Fates : gone[r] = {}
  BY DEF Init
<1>11. Lost = {}
  BY <1>10 DEF Lost
<1>12. NothingVanishes /\ GoneForGood
  BY <1>2, <1>9, <1>10, <1>11 DEF NothingVanishes, GoneForGood
<1> QED BY <1>1, <1>6, <1>7, <1>8, <1>12 DEF SafeInv

-----------------------------------------------------------------------------
(* The batch being filled *)

\* Run flushes a batch before it takes more events than fit.
LEMMA FitsStep == SafeInv /\ TypeInv' /\ [Next]_vars => BatchFits'
<1> SUFFICES ASSUME SafeInv, TypeInv', [Next]_vars PROVE BatchFits'
  OBVIOUS
<1> USE ConstantsAssumption DEF BatchFits, FlushPcs
<1>a. BatchFits /\ batch \in Seq(Nat) /\ Len(batch) \in Nat /\ Len(<<>>) = 0
  BY DEF SafeInv, TypeInv, TypeOK
<1>b. Caller \in {"select", "drain"}
  BY DEF Caller
<1>c. pc' \in {"boot", "select", "retrySpool", "replaySend", "flush", "send",
               "backoff", "resend", "spool", "write", "rename", "trim",
               "drain", "stopped", "dead"}
  BY DEF TypeInv, TypeOK
<1>d. batch = <<>> <=> Len(batch) = 0
  BY <1>a
<1>1. CASE TakeEvent
  <2>1. Len(batch') = Len(batch) + 1 /\ batch' # <<>>
    <3>1. batch' = Append(batch, Head(queue)) /\ Head(queue) \in Nat
      BY <1>1, RangeOfTail DEF TakeEvent, SafeInv, TypeInv, TypeOK
    <3> QED BY <3>1, <1>a
  <2> QED BY <1>1, <1>a, <2>1 DEF TakeEvent
<1>2. CASE DrainEvent
  <2>1. Len(batch') = Len(batch) + 1
    <3>1. batch' = Append(batch, Head(queue)) /\ Head(queue) \in Nat
      BY <1>2, RangeOfTail DEF DrainEvent, SafeInv, TypeInv, TypeOK
    <3> QED BY <3>1, <1>a
  <2> QED BY <1>2, <1>a, <2>1 DEF DrainEvent, Full
<1>3. CASE EncodeFailed \/ Encode \/ ProcessEnds
  BY <1>3, <1>a, <1>b DEF EncodeFailed, Encode, ProcessEnds
<1>4. CASE Boot \/ Tick \/ BeginDrain \/ PassEnds \/ ReplayFailed \/ DrainChunk
             \/ Stop \/ Restart
  BY <1>4, <1>a DEF Boot, Tick, BeginDrain, PassEnds, ReplayFailed, DrainChunk,
                    Chunk, Stop, Restart, memory
<1>5. CASE DiscardForeign \/ DiscardUnreadable \/ Replay \/ ReplayAcked
             \/ ReplayRejected
  BY <1>5, <1>a DEF DiscardForeign, DiscardUnreadable, Replay, ReplayAcked,
                    ReplayRejected, Visiting, memory
<1>6. CASE Acked \/ Rejected \/ SpoolRefused \/ WriteFailed \/ RenameFailed
             \/ TrimEnds
  BY <1>6, <1>a, <1>b DEF Acked, Rejected, SpoolRefused, WriteFailed,
                          RenameFailed, TrimEnds, Sending, memory
<1>7. CASE Failed \/ Backoff \/ SpoolCreate \/ Written \/ Renamed \/ TrimOldest
  BY <1>7, <1>a, <1>b DEF Failed, RetryOrSpool, Backoff, SpoolCreate, Written,
                          Renamed, TrimOldest, Sending, memory
<1>8. CASE Enqueue \/ CollectorStops \/ ReceiverTakes \/ Cancel \/ BudgetElapses
             \/ UNCHANGED vars
  BY <1>8, <1>a DEF Enqueue, CollectorStops, ReceiverTakes, Cancel,
                    BudgetElapses, vars, memory
<1> QED
  BY <1>1, <1>2, <1>3, <1>4, <1>5, <1>6, <1>7, <1>8
     DEF Next, Run, Environment, Continue, RetrySpool, Flush, Spool, Drain

-----------------------------------------------------------------------------
(* The batches made *)

\* Removing a file removes at most a whole batch from those made.
LEMMA RemoveShrinks ==
    ASSUME NEW f, RemoveFile(f)
    PROVE  spool' \subseteq spool /\ Whole(spool)' \subseteq Whole(spool)
  BY DEF RemoveFile, Whole

\* Only Encode makes a batch, and the spool gains only the batch of Renamed.
LEMMA MadeStep ==
    ASSUME SafeInv, [Next]_vars, ~Encode
    PROVE  /\ Made' \subseteq Made /\ issued' = issued
           /\ spool' \subseteq spool \cup (IF Renamed THEN {cur} ELSE {})
           /\ Flushing' => Flushing /\ cur' = cur
<1> DEFINE Goal == /\ Made' \subseteq Made /\ issued' = issued
                   /\ spool' \subseteq spool \cup (IF Renamed THEN {cur} ELSE {})
                   /\ Flushing' => Flushing /\ cur' = cur
<1> USE DEF Flushing
<1>a. Caller \in {"select", "drain"}
  BY DEF Caller
<1>b. ASSUME received' = received, issued' = issued, spool' = spool,
             Flushing' => Flushing /\ cur' = cur
      PROVE  Goal
  BY <1>b DEF Made, Whole, Flying
<1>c. ASSUME received' = received, issued' = issued, Flushing' => Flushing /\ cur' = cur,
             spool' \subseteq spool
      PROVE  Goal
  BY <1>c DEF Made, Whole, Flying
<1>1. CASE Enqueue \/ CollectorStops \/ Cancel \/ BudgetElapses \/ UNCHANGED vars
  BY <1>1, <1>b DEF Enqueue, CollectorStops, Cancel, BudgetElapses, vars, disk,
                    history, world
<1>2. CASE Boot \/ TakeEvent \/ Tick \/ BeginDrain \/ PassEnds \/ Replay \/ ReplayFailed
  <2>1. pc \notin FlushPcs /\ pc' \notin FlushPcs
    BY <1>2 DEF FlushPcs, Boot, TakeEvent, Tick, BeginDrain, PassEnds, Replay,
                ReplayFailed, Visiting
  <2>2. received' = received /\ issued' = issued /\ spool' = spool
    BY <1>2 DEF Boot, TakeEvent, Tick, BeginDrain, PassEnds, Replay,
                ReplayFailed, disk, history, world
  <2> QED BY <2>1, <2>2, <1>b DEF FlushPcs
<1>3. CASE DiscardForeign \/ DiscardUnreadable \/ TrimOldest
  <2>1. PICK f : RemoveFile(f)
    BY <1>3 DEF DiscardForeign, DiscardUnreadable, TrimOldest
  <2>2. pc \notin FlushPcs /\ pc' = pc /\ received' = received /\ issued' = issued
    BY <1>3 DEF DiscardForeign, DiscardUnreadable, TrimOldest, Visiting, FlushPcs,
                history, world
  <2> QED BY <2>1, <2>2, <1>c, RemoveShrinks DEF FlushPcs
<1>4. CASE ReplayAcked \/ ReplayRejected
  <2>1. RemoveFile(cur) /\ pc' = "retrySpool" /\ received' = received /\ issued' = issued
    BY <1>4 DEF ReplayAcked, ReplayRejected, history, world
  <2> QED BY <2>1, <1>c, RemoveShrinks
<1>5. CASE EncodeFailed \/ Acked \/ Rejected \/ SpoolRefused \/ WriteFailed
             \/ RenameFailed \/ TrimEnds
  <2>1. pc' = Caller
    BY <1>5 DEF EncodeFailed, Acked, Rejected, SpoolRefused, WriteFailed,
                RenameFailed, TrimEnds
  <2>2. received' = received /\ issued' = issued /\ spool' = spool
    BY <1>5 DEF EncodeFailed, Acked, Rejected, SpoolRefused, WriteFailed,
                RenameFailed, TrimEnds, disk, history, world
  <2> QED BY <2>1, <2>2, <1>a, <1>b
<1>6. CASE Failed \/ Backoff \/ SpoolCreate \/ Written
  <2>1. pc \in FlushPcs /\ cur' = cur
    BY <1>6 DEF Failed, Backoff, SpoolCreate, Written, Sending, FlushPcs, RetrySame
  <2>2. received' = received /\ issued' = issued /\ spool' = spool
    BY <1>6 DEF Failed, Backoff, SpoolCreate, CreateTmp, Written, RetrySame,
                disk, history, world
  <2> QED BY <2>1, <2>2, <1>b DEF FlushPcs
<1>7. CASE Renamed
  <2>1. /\ received' = received /\ issued' = issued /\ spool' = spool \cup {cur}
        /\ pc = "rename" /\ pc' = "trim"
    BY <1>7 DEF Renamed, history, world
  <2>2. cur.kind = "ours"
    BY <2>1 DEF SafeInv, WholeBatches, Made, Flying
  <2> QED BY <1>7, <2>1, <2>2 DEF Made, Whole, Flying
<1>8. CASE DrainEvent \/ DrainChunk \/ Stop \/ ProcessEnds \/ Restart
  <2>1. pc' \notin FlushPcs
    BY <1>8 DEF DrainEvent, DrainChunk, Stop, ProcessEnds, Restart, FlushPcs
  <2>2. received' = received /\ issued' = issued /\ spool' = spool
    BY <1>8 DEF DrainEvent, DrainChunk, Stop, ProcessEnds, Restart, disk,
                history, world
  <2> QED BY <2>1, <2>2, <1>b DEF FlushPcs
<1>9. CASE ReceiverTakes
  <2>1. /\ received' = received \cup {cur} /\ spool' = spool /\ issued' = issued
        /\ pc' = pc /\ cur' = cur /\ pc \in {"send", "resend", "replaySend"}
    BY <1>9 DEF ReceiverTakes, disk
  <2>2. cur \in Made
    BY <2>1 DEF SafeInv, TypeInv, WholeBatches, Made, Flying, Whole
  <2> QED BY <2>1, <2>2 DEF Made, Whole, Flying
<1> QED
  BY <1>1, <1>2, <1>3, <1>4, <1>5, <1>6, <1>7, <1>8, <1>9
     DEF Next, Run, Environment, Continue, RetrySpool, Flush, Spool, Drain

\* The steps that move events in memory.
LEMMA MemoryMoves ==
    ASSUME [Next]_vars
    PROVE  TakeEvent \/ DrainEvent \/ Enqueue \/ EncodeFailed \/ Encode \/ ProcessEnds
             \/ (queue' = queue /\ batch' = batch)
  BY DEF Next, Run, Environment, Continue, RetrySpool, Flush, Spool, Drain, vars,
         Boot, Tick, BeginDrain, PassEnds, DiscardForeign, DiscardUnreadable,
         Replay, ReplayAcked, ReplayRejected, ReplayFailed, Acked, Rejected, Failed,
         Backoff, SpoolRefused, SpoolCreate, WriteFailed, Written, RenameFailed,
         Renamed, TrimOldest, TrimEnds, DrainChunk, Stop, CollectorStops,
         ReceiverTakes, Cancel, BudgetElapses, Restart, memory

\* The sequences of memory: what dequeuing and enqueuing do to them.
LEMMA QueueStep ==
    ASSUME SafeInv, [Next]_vars
    PROVE  /\ Distinct(queue)'
           /\ (Range(queue) \cap Range(batch) = {})'
           /\ Range(queue)' \cup Range(batch)'
                 \subseteq Range(queue) \cup Range(batch)
                             \cup (IF Enqueue THEN {arrived + 1} ELSE {})
<1>a. /\ queue \in Seq(Nat) /\ batch \in Seq(Nat) /\ arrived \in Nat
      /\ Distinct(queue) /\ Range(queue) \cap Range(batch) = {}
  BY DEF SafeInv, TypeInv, TypeOK, OnePlace
<1>b. Range(queue) \cup Range(batch) \subseteq 1..arrived
  BY DEF SafeInv, NothingVanishes, InMemory
<1>c. Range(<<>>) = {} /\ Distinct(<<>>)
  BY DEF Range, Distinct
<1>1. CASE TakeEvent \/ DrainEvent
  <2>1. queue # <<>> /\ batch' = Append(batch, Head(queue)) /\ queue' = Tail(queue)
    BY <1>1 DEF TakeEvent, DrainEvent
  <2>2. /\ Head(queue) \in Nat /\ Head(queue) \notin Range(Tail(queue))
        /\ Range(queue) = Range(Tail(queue)) \cup {Head(queue)}
        /\ Distinct(Tail(queue))
    BY <1>a, <2>1, RangeOfTail, DistinctTail
  <2>3. Range(batch') = Range(batch) \cup {Head(queue)}
    BY <1>a, <2>1, <2>2, RangeOfAppend
  <2> QED BY <1>a, <2>1, <2>2, <2>3
<1>2. CASE Enqueue
  <2>1. batch' = batch /\ (queue' = queue \/ queue' = Append(queue, arrived + 1))
    BY <1>2 DEF Enqueue
  <2>2. CASE queue' = queue
    BY <1>2, <1>a, <2>1, <2>2
  <2>3. CASE queue' = Append(queue, arrived + 1)
    <3>1. arrived + 1 \in Nat /\ arrived + 1 \notin 1..arrived
      BY <1>a
    <3>2. Range(queue') = Range(queue) \cup {arrived + 1} /\ Distinct(queue')
      BY <1>a, <1>b, <2>3, <3>1, RangeOfAppend, DistinctAppend
    <3> QED BY <1>2, <1>a, <1>b, <2>1, <3>1, <3>2
  <2> QED BY <2>1, <2>2, <2>3
<1>3. CASE EncodeFailed \/ Encode \/ ProcessEnds
  <2>1. batch' = <<>> /\ (queue' = queue \/ queue' = <<>>)
    BY <1>3 DEF EncodeFailed, Encode, ProcessEnds
  <2> QED BY <1>a, <1>c, <2>1
<1>4. CASE queue' = queue /\ batch' = batch
  BY <1>a, <1>4
<1> QED BY <1>1, <1>2, <1>3, <1>4, MemoryMoves

\* A batch that Encode makes is new: its id was never issued, and its events
\* were in no other batch.
LEMMA EncodeNew ==
    ASSUME SafeInv, Encode
    PROVE  /\ cur'.kind = "ours" /\ cur'.evs = batch /\ batch # <<>>
           /\ Len(batch) \in 1..BatchSize
           /\ cur'.id \in issued' /\ issued \subseteq issued'
           /\ \A f \in Made : f.id # cur'.id
                                /\ Range(f.evs) \cap Range(cur'.evs) = {}
           /\ Made' = Made \cup {cur'} /\ cur' \notin spool
           /\ batch' = <<>> /\ queue' = queue /\ spool' = spool
<1>1. PICK i \in NewIds : /\ cur' = [id |-> i, evs |-> batch, kind |-> "ours"]
                          /\ issued' = issued \cup {i}
  BY DEF Encode
<1>2. i \notin issued
  BY DEF NewIds
<1>3. /\ pc = "flush" /\ pc' \in {"spool", "send"} /\ received' = received
      /\ batch' = <<>> /\ queue' = queue /\ spool' = spool
  BY DEF Encode, disk, world
<1>4. Made' = Made \cup {cur'}
  BY <1>3 DEF Made, Flying, Flushing, Whole
<1>5. \A f \in Made : f.id \in issued /\ Range(f.evs) \cap Range(batch) = {}
  BY DEF SafeInv, WholeBatches, OnePlace
<1>6. cur' \notin spool
  <2>1. \A f \in spool : f.kind = "ours" => f \in Made
    BY DEF Made, Whole
  <2> QED BY <1>1, <1>2, <1>5, <2>1
<1>7. batch # <<>> /\ Len(batch) \in 1..BatchSize
  <2>1. batch # <<>> /\ Len(batch) <= BatchSize /\ batch \in Seq(Nat)
    BY <1>3 DEF SafeInv, BatchFits, TypeInv, TypeOK
  <2> QED BY <2>1, ConstantsAssumption
<1> QED BY <1>1, <1>2, <1>3, <1>4, <1>5, <1>6, <1>7

\* No step makes two batches of one id or one event, or a torn file that is sent.
LEMMA BatchesStep ==
    ASSUME SafeInv, [Next]_vars
    PROVE  WholeBatches' /\ UniqueBatches' /\ OnePlace'
<1>a. /\ WholeBatches /\ UniqueBatches /\ OnePlace /\ TypeInv
  BY DEF SafeInv
<1>b. \A f \in Made : Range(f.evs) \subseteq 1..arrived
  BY DEF SafeInv, WholeBatches, Made, Whole, Flying, NothingVanishes, InMemory,
         Stored, Delivered, EventsOf
<1>1. CASE Encode
  <2>1. WholeBatches'
    <3>1. pc' # "replaySend"
      BY <1>1 DEF Encode
    <3> QED BY <1>1, <1>a, <3>1, EncodeNew DEF WholeBatches
  <2>2. UniqueBatches'
    <3>1. /\ Made' = Made \cup {cur'}
          /\ \A f \in Made : f.id # cur'.id /\ Range(f.evs) \cap Range(cur'.evs) = {}
      BY <1>1, EncodeNew
    <3> SUFFICES ASSUME NEW f \in Made', NEW g \in Made',
                        f.id = g.id \/ Range(f.evs) \cap Range(g.evs) # {}
                 PROVE  f = g
      BY DEF UniqueBatches
    <3>2. CASE f \in Made /\ g \in Made
      BY <1>a, <3>2 DEF UniqueBatches
    <3>3. CASE f = cur' /\ g \in Made
      BY <3>1, <3>3
    <3>4. CASE f \in Made /\ g = cur'
      BY <3>1, <3>4
    <3> QED
      BY <3>1, <3>2, <3>3, <3>4
  <2>3. OnePlace'
    <3>1. Range(<<>>) = {} /\ Range(queue) \cap Range(batch) = {}
      BY <1>a DEF Range, OnePlace
    <3>2. Distinct(queue)'
      BY QueueStep
    <3> QED BY <1>1, <1>a, <3>1, <3>2, EncodeNew DEF OnePlace
  <2> QED BY <2>1, <2>2, <2>3
<1>2. CASE ~Encode
  <2>1. /\ Made' \subseteq Made /\ issued' = issued
        /\ spool' \subseteq spool \cup (IF Renamed THEN {cur} ELSE {})
        /\ Flushing' => Flushing /\ cur' = cur
    BY <1>2, MadeStep
  <2>2. WholeBatches'
    <3>1. Renamed => cur.kind = "ours"
      BY <1>a DEF Renamed, WholeBatches, Made, Flying, Flushing
    <3>2. \A f \in spool' : f.kind = "ours" \/ (f.kind = "foreign" /\ f.evs = <<>>)
      BY <1>a, <2>1, <3>1 DEF WholeBatches
    <3>3. pc' = "replaySend" => cur'.kind = "ours"
      <4>1. CASE Replay
        <5>1. PICK f \in Oldest(todo) : f.kind # "foreign" /\ (cur' = f \/ UNCHANGED <<pc, cur>>)
          BY <4>1 DEF Replay
        <5>2. f \in spool
          BY <1>a DEF Oldest, TypeInv, TypeOK
        <5> QED BY <1>a, <5>1, <5>2 DEF WholeBatches
      <4>2. CASE ~Replay
        <5>1. pc' = "replaySend" => pc = "replaySend" /\ cur' = cur
          BY <1>2, <4>2
             DEF Next, Run, Environment, Continue, RetrySpool, Flush, Spool, Drain,
                 vars, Boot, TakeEvent, Tick, BeginDrain, PassEnds, DiscardForeign,
                 DiscardUnreadable, ReplayAcked, ReplayRejected, ReplayFailed,
                 EncodeFailed, Acked, Rejected, Failed, RetryOrSpool, Backoff,
                 SpoolRefused, SpoolCreate, WriteFailed, Written, RenameFailed,
                 Renamed, TrimOldest, TrimEnds, DrainEvent, DrainChunk, Stop,
                 Enqueue, CollectorStops, ReceiverTakes, Cancel, BudgetElapses,
                 ProcessEnds, Restart, Caller
        <5> QED BY <1>a, <5>1 DEF WholeBatches
      <4> QED BY <4>1, <4>2
    <3> QED BY <1>a, <2>1, <3>2, <3>3 DEF WholeBatches
  <2>3. UniqueBatches'
    BY <1>a, <2>1 DEF UniqueBatches
  <2>4. OnePlace'
    <3>1. \A f \in Made' : Range(f.evs) \cap (Range(queue)' \cup Range(batch)') = {}
      <4>1. \A f \in Made : Range(f.evs) \cap {arrived + 1} = {}
        <5>1. arrived + 1 \notin 1..arrived
          BY <1>a DEF TypeInv, TypeOK
        <5> QED BY <1>b, <5>1
      <4>2. \A f \in Made : Range(f.evs) \cap (Range(queue) \cup Range(batch)) = {}
        BY <1>a DEF OnePlace
      <4> QED BY <2>1, <4>1, <4>2, QueueStep
    <3>2. Flushing' => cur' \notin spool'
      <4>1. Renamed => ~Flushing'
        BY DEF Renamed, Flushing
      <4> QED BY <1>a, <2>1, <4>1 DEF OnePlace
    <3> QED BY <3>1, <3>2, QueueStep DEF OnePlace
  <2> QED BY <2>2, <2>3, <2>4
<1> QED BY <1>1, <1>2

-----------------------------------------------------------------------------
(* Where the events are *)

\* The events the agent still holds.
Held == InMemory \cup Stored

\* The events the agent holds, place by place, before and after a step.
LEMMA HeldPlaces ==
    /\ InMemory = Range(queue) \cup Range(batch) \cup EventsOf(Flying)
    /\ Held = Range(queue) \cup Range(batch) \cup EventsOf(Flying) \cup EventsOf(spool)
    /\ InMemory' = Range(queue)' \cup Range(batch)' \cup EventsOf(Flying)'
    /\ Held' = Range(queue)' \cup Range(batch)' \cup EventsOf(Flying)' \cup EventsOf(spool)'
<1>1. EventsOf(Flying) = IF Flushing THEN Range(cur.evs) ELSE {}
  BY DEF EventsOf, Flying
<1>2. EventsOf(Flying)' = IF Flushing' THEN Range(cur'.evs) ELSE {}
  BY DEF EventsOf, Flying
<1> QED BY <1>1, <1>2 DEF InMemory, Held, Stored

\* The events of one batch.
LEMMA EventsOfOne == ASSUME NEW f PROVE EventsOf({f}) = Range(f.evs)
  BY DEF EventsOf

\* No batch, no events.
LEMMA EventsOfNone == EventsOf({}) = {}
  BY DEF EventsOf

\* Without the file f the spool holds every event it held but those of f.
LEMMA WithoutFile ==
    ASSUME SafeInv, NEW f \in spool, f.kind = "ours"
    PROVE  EventsOf(spool \ {f}) = EventsOf(spool) \ Range(f.evs)
<1>1. Range(<<>>) = {}
  BY DEF Range
<1>2. ASSUME NEW g \in spool \ {f} PROVE Range(g.evs) \cap Range(f.evs) = {}
  <2>1. CASE g.kind = "ours"
    BY <1>2, <2>1 DEF SafeInv, UniqueBatches, Made, Whole
  <2>2. CASE g.evs = <<>>
    BY <1>1, <2>2
  <2> QED BY <2>1, <2>2 DEF SafeInv, WholeBatches
<1> QED BY <1>2 DEF EventsOf

\* A foreign file holds no event: its removal changes nothing.
LEMMA WithoutForeign ==
    ASSUME SafeInv, NEW f \in spool, f.kind = "foreign"
    PROVE  EventsOf(spool \ {f}) = EventsOf(spool)
<1>1. Range(f.evs) = {}
  BY DEF SafeInv, WholeBatches, Range
<1> QED BY <1>1 DEF EventsOf

\* The four places are disjoint.
LEMMA PlacesDisjoint ==
    ASSUME SafeInv
    PROVE  /\ (Range(queue) \cup Range(batch))
                  \cap (EventsOf(Flying) \cup EventsOf(spool)) = {}
           /\ EventsOf(Flying) \cap EventsOf(spool) = {}
<1>1. Range(<<>>) = {}
  BY DEF Range
<1>2. \A f \in spool : Range(f.evs) # {} => f \in Made
  BY <1>1 DEF SafeInv, WholeBatches, Made, Whole
<1>3. \A f \in Flying : f \in Made /\ f \notin spool
  BY DEF SafeInv, OnePlace, Made, Flying
<1>4. EventsOf(Flying) \cap EventsOf(spool) = {}
  BY <1>2, <1>3 DEF EventsOf, SafeInv, UniqueBatches
<1>5. (Range(queue) \cup Range(batch)) \cap (EventsOf(Flying) \cup EventsOf(spool)) = {}
  BY <1>2, <1>3 DEF EventsOf, SafeInv, OnePlace
<1> QED BY <1>4, <1>5

\* A step that moves events about, or that leaves some with the receiver only,
\* keeps the account of them.
LEMMA KeptAccount ==
    ASSUME SafeInv, arrived' = arrived, gone' = gone,
           Held' \subseteq Held, Delivered \subseteq Delivered',
           Delivered' \subseteq Delivered \cup Held,
           Held \subseteq Held' \cup Delivered'
    PROVE  NothingVanishes' /\ GoneForGood'
<1>1. Lost' = Lost
  BY DEF Lost
<1>2. 1..arrived = Held \cup Delivered \cup Lost /\ Lost \cap Held = {}
  BY DEF SafeInv, NothingVanishes, GoneForGood, Held
<1>3. \A r, s \in Fates : r # s => gone'[r] \cap gone'[s] = {}
  BY DEF SafeInv, GoneForGood
<1> QED BY <1>1, <1>2, <1>3 DEF NothingVanishes, GoneForGood, Held

\* So does a step that gives up events the agent held.
LEMMA GivenAccount ==
    ASSUME SafeInv, arrived' = arrived, Delivered' = Delivered,
           NEW why \in Fates, NEW evs, evs \subseteq Held,
           Give(why, evs), Held' = Held \ evs
    PROVE  NothingVanishes' /\ GoneForGood'
<1>1. 1..arrived = Held \cup Delivered \cup Lost /\ Lost \cap Held = {}
  BY DEF SafeInv, NothingVanishes, GoneForGood, Held
<1>2. /\ Lost' = Lost \cup evs
      /\ \A r \in Fates : gone'[r] = IF r = why THEN gone[r] \cup evs ELSE gone[r]
  <2>1. evs \in SUBSET Nat
    <3>1. arrived \in Nat
      BY DEF SafeInv, TypeInv, TypeOK
    <3> QED BY <1>1, <3>1
  <2> QED BY <2>1, GiveAdds DEF SafeInv, TypeInv, TypeOK
<1>3. \A r, s \in Fates : r # s => gone'[r] \cap gone'[s] = {}
  <2>1. \A r \in Fates : gone[r] \cap evs = {}
    BY <1>1 DEF Lost
  <2>2. \A r, s \in Fates : r # s => gone[r] \cap gone[s] = {}
    BY DEF SafeInv, GoneForGood
  <2> QED BY <1>2, <2>1, <2>2
<1> QED BY <1>1, <1>2, <1>3 DEF NothingVanishes, GoneForGood, Held

\* And the removal of a spool file whose loss is recorded if it succeeds.
LEMMA RemovedAccount ==
    ASSUME SafeInv, NEW f \in spool, f.kind = "ours", NEW why \in Fates,
           RemoveFile(f), GiveIfRemoved(why, f), arrived' = arrived,
           received' = received, InMemory' = InMemory,
           InMemory \cap Range(f.evs) = {}
    PROVE  NothingVanishes' /\ GoneForGood'
<1>1. Delivered' = Delivered
  BY DEF Delivered
<1>2. CASE spool' = spool
  <2>1. gone' = gone
    BY <1>2 DEF GiveIfRemoved
  <2>2. Held' = Held
    BY <1>2 DEF Held, Stored
  <2> QED BY <1>1, <2>1, <2>2, KeptAccount
<1>3. CASE spool' # spool
  <2>1. spool' = spool \ {f} /\ Give(why, Range(f.evs))
    BY <1>3 DEF RemoveFile, GiveIfRemoved
  <2>2. Stored' = Stored \ Range(f.evs)
    BY <2>1, WithoutFile DEF Stored
  <2>3. Range(f.evs) \subseteq Stored
    BY DEF Stored, EventsOf
  <2>4. Held' = Held \ Range(f.evs) /\ Range(f.evs) \subseteq Held
    BY <2>2, <2>3 DEF Held
  <2> QED BY <1>1, <2>1, <2>4, GivenAccount
<1> QED BY <1>2, <1>3

\* Every step keeps the account: what leaves memory and spool is delivered or given up.
LEMMA AccountStep ==
    ASSUME SafeInv, TypeInv', [Next]_vars
    PROVE  NothingVanishes' /\ GoneForGood'
<1> DEFINE Goal == NothingVanishes' /\ GoneForGood'
<1>a. /\ TypeInv /\ WholeBatches /\ OnePlace /\ BatchFits
      /\ queue \in Seq(Nat) /\ batch \in Seq(Nat) /\ arrived \in Nat
  BY DEF SafeInv, TypeInv, TypeOK
<1>b. Caller \in {"select", "drain"}
  BY DEF Caller
<1>c. Range(<<>>) = {}
  BY DEF Range
<1>d. \A w \in {"queue_full", "permanent", "spool_write", "spool_evict",
                "unreported", "exit"} : w \in Fates
  BY DEF Fates
\* Steps that touch no event at all.
<1>1. ASSUME queue' = queue, batch' = batch, Flying' = Flying,
             EventsOf(spool)' = EventsOf(spool),
             received' = received, gone' = gone, arrived' = arrived
      PROVE  Goal
  <2>1. EventsOf(Flying)' = EventsOf(Flying)
    BY <1>1 DEF EventsOf
  <2>2. Held' = Held /\ Delivered' = Delivered
    BY <1>1, <2>1, HeldPlaces DEF Delivered
  <2> QED BY <1>1, <2>2, KeptAccount
<1>2. CASE CollectorStops \/ Cancel \/ BudgetElapses \/ UNCHANGED vars
  BY <1>2, <1>1 DEF CollectorStops, Cancel, BudgetElapses, vars, Flying, Flushing,
                    memory, disk, history, world
<1>3. CASE Boot \/ Tick \/ BeginDrain \/ PassEnds \/ Replay \/ ReplayFailed
             \/ DrainChunk \/ Stop \/ TrimEnds \/ Restart
  <2>1. pc \notin FlushPcs /\ pc' \notin FlushPcs
    BY <1>3, <1>b DEF FlushPcs, Boot, Tick, BeginDrain, PassEnds, Replay, ReplayFailed,
                DrainChunk, Stop, TrimEnds, Restart, Visiting
  <2>2. Flying' = Flying
    BY <2>1 DEF Flying, Flushing, FlushPcs
  <2>3. UNCHANGED <<memory, spool, received, gone, arrived>>
    BY <1>3 DEF Boot, Tick, BeginDrain, PassEnds, Replay, ReplayFailed, DrainChunk,
                Stop, TrimEnds, Restart, disk, history, world
  <2> QED BY <1>1, <2>2, <2>3 DEF memory
<1>4. CASE Failed \/ Backoff \/ SpoolCreate \/ Written
  <2>1. pc \in FlushPcs /\ pc' \in FlushPcs \cup {"select", "drain"} /\ cur' = cur
    BY <1>4, <1>b DEF FlushPcs, Failed, RetryOrSpool, Backoff, RetrySame, SpoolCreate,
                      Written, Sending
  <2>2. pc' \in FlushPcs
    BY <1>4 DEF FlushPcs, Failed, RetryOrSpool, Backoff, SpoolCreate, Written
  <2>3. Flying' = Flying
    BY <2>1, <2>2 DEF Flying, Flushing, FlushPcs
  <2>4. UNCHANGED <<memory, spool, received, gone, arrived>>
    BY <1>4 DEF Failed, Backoff, RetrySame, SpoolCreate, CreateTmp, Written, disk,
                history, world
  <2> QED BY <1>1, <2>3, <2>4 DEF memory
<1>5. CASE DiscardForeign
  <2>1. PICK f \in Oldest(todo) : f.kind = "foreign" /\ RemoveFile(f)
    BY <1>5 DEF DiscardForeign
  <2>2. f \in spool
    BY <1>a DEF Oldest, TypeInv, TypeOK
  <2>3. EventsOf(spool)' = EventsOf(spool)
    BY <2>1, <2>2, WithoutForeign DEF RemoveFile
  <2>4. Flying' = Flying
    BY <1>5 DEF DiscardForeign, Visiting, Flying, Flushing
  <2> QED BY <1>5, <1>1, <2>3, <2>4 DEF DiscardForeign, memory, history, world
\* Steps that move events from place to place.
<1>6. CASE TakeEvent \/ DrainEvent
  <2>1. /\ queue # <<>> /\ batch' = Append(batch, Head(queue)) /\ queue' = Tail(queue)
    BY <1>6 DEF TakeEvent, DrainEvent
  <2>2. Flying' = {} /\ Flying = {}
    BY <1>6 DEF TakeEvent, DrainEvent, Flying, Flushing
  <2>3. Range(queue)' \cup Range(batch)' = Range(queue) \cup Range(batch)
    <3>1. /\ Head(queue) \in Nat
          /\ Range(queue) = Range(Tail(queue)) \cup {Head(queue)}
      BY <1>a, <2>1, RangeOfTail
    <3>2. Range(batch') = Range(batch) \cup {Head(queue)}
      BY <1>a, <2>1, <3>1, RangeOfAppend
    <3> QED BY <2>1, <3>1, <3>2
  <2>4. UNCHANGED <<spool, received, gone, arrived>>
    BY <1>6 DEF TakeEvent, DrainEvent, disk, history, world
  <2>5. EventsOf(spool)' = EventsOf(spool) /\ EventsOf(Flying)' = EventsOf(Flying)
    BY <2>2, <2>4 DEF EventsOf
  <2>6. Held' = Held /\ Delivered' = Delivered
    BY <2>3, <2>4, <2>5, HeldPlaces DEF Delivered
  <2> QED BY <2>4, <2>6, KeptAccount
<1>7. CASE Encode
  <2>1. Flying = {} /\ Flying' = {cur'}
    BY <1>7 DEF Encode, Flying, Flushing
  <2>2. EventsOf(Flying) = {} /\ EventsOf(Flying)' = Range(batch)
    <3>1. EventsOf(Flying)' = Range(cur'.evs)
      BY <2>1 DEF EventsOf
    <3> QED BY <1>7, <2>1, <3>1, EncodeNew, EventsOfNone
  <2>3. Range(batch)' = {} /\ Range(queue)' = Range(queue)
    BY <1>7, <1>c, EncodeNew
  <2>4. UNCHANGED <<spool, received, gone, arrived>>
    BY <1>7 DEF Encode, disk, world
  <2>5. Held' = Held /\ Delivered' = Delivered
    BY <2>2, <2>3, <2>4, HeldPlaces DEF EventsOf, Delivered
  <2> QED BY <2>4, <2>5, KeptAccount
<1>8. CASE Renamed
  <2>1. /\ pc = "rename" /\ pc' = "trim" /\ spool' = spool \cup {cur}
        /\ UNCHANGED <<queue, batch, received, gone, arrived>>
    BY <1>8 DEF Renamed, memory, history, world
  <2>2. EventsOf(Flying) = Range(cur.evs) /\ EventsOf(Flying)' = {}
    BY <2>1, EventsOfOne DEF Flying, Flushing, EventsOf
  <2>3. EventsOf(spool)' = EventsOf(spool) \cup Range(cur.evs)
    BY <2>1 DEF EventsOf
  <2>4. Held' = Held /\ Delivered' = Delivered
    BY <2>1, <2>2, <2>3, HeldPlaces DEF Delivered
  <2> QED BY <2>1, <2>4, KeptAccount
\* Steps of the receiver, and the end of a batch it has taken.
<1>9. CASE ReceiverTakes
  <2>1. /\ pc \in {"send", "resend", "replaySend"} /\ received' = received \cup {cur}
        /\ UNCHANGED <<pc, cur, queue, batch, spool, gone, arrived>>
    BY <1>9 DEF ReceiverTakes, memory, disk
  <2>2. Range(cur.evs) \subseteq Held
    <3>1. CASE pc = "replaySend"
      BY <1>a, <3>1 DEF TypeInv, Held, Stored, EventsOf
    <3>2. CASE pc # "replaySend"
      BY <2>1, <3>2 DEF Held, InMemory, Flushing
    <3> QED BY <3>1, <3>2
  <2>3. Delivered' = Delivered \cup Range(cur.evs)
    BY <2>1 DEF Delivered, EventsOf
  <2>4. Held' = Held
    BY <2>1 DEF Held, Stored, InMemory, Flushing
  <2> QED BY <2>1, <2>2, <2>3, <2>4, KeptAccount
<1>10. CASE Acked
  <2>1. /\ pc \in {"send", "resend"} /\ pc' = Caller /\ cur \in received
        /\ UNCHANGED <<queue, batch, spool, received, gone, arrived>>
    BY <1>10 DEF Acked, Sending, Answered, memory, disk, history, world
  <2>2. EventsOf(Flying)' = {}
    BY <1>b, <2>1, EventsOfNone DEF Flying, Flushing, EventsOf
  <2>3. EventsOf(Flying) = Range(cur.evs) /\ Range(cur.evs) \subseteq Delivered
    BY <2>1 DEF Flying, Flushing, EventsOf, Delivered
  <2>4. EventsOf(spool)' = EventsOf(spool) /\ Delivered' = Delivered
    BY <2>1 DEF EventsOf, Delivered
  <2>5. Held' \subseteq Held /\ Held \subseteq Held' \cup Delivered'
    BY <2>1, <2>2, <2>3, <2>4, HeldPlaces
  <2> QED BY <2>1, <2>4, <2>5, KeptAccount
<1>11. CASE ReplayAcked
  <2>1. /\ pc = "replaySend" /\ pc' = "retrySpool" /\ cur \in received
        /\ RemoveFile(cur) /\ UNCHANGED <<queue, batch, received, gone, arrived>>
    BY <1>11 DEF ReplayAcked, Answered, memory, history, world
  <2>2. Flying' = Flying
    BY <2>1 DEF Flying, Flushing
  <2>3. EventsOf(spool)' \subseteq EventsOf(spool)
          /\ EventsOf(spool) \subseteq EventsOf(spool)' \cup Range(cur.evs)
    BY <2>1 DEF RemoveFile, EventsOf
  <2>4. Range(cur.evs) \subseteq Delivered /\ Delivered' = Delivered
    BY <2>1 DEF EventsOf, Delivered
  <2>5. EventsOf(Flying)' = EventsOf(Flying)
    BY <2>2 DEF EventsOf
  <2>6. Held' \subseteq Held /\ Held \subseteq Held' \cup Delivered'
    BY <2>1, <2>3, <2>4, <2>5, HeldPlaces
  <2> QED BY <2>1, <2>4, <2>6, KeptAccount
\* Steps that give events up.
<1>12. CASE EncodeFailed
  <2>1. /\ Give("unreported", Range(batch)) /\ batch' = <<>>
        /\ UNCHANGED <<queue, spool, received, arrived>>
    BY <1>12 DEF EncodeFailed, disk, world
  <2>2. Flying = {} /\ Flying' = {}
    BY <1>12, <1>b DEF EncodeFailed, Flying, Flushing
  <2>3. Held' = Held \ Range(batch) /\ Range(batch) \subseteq Held
    <3>1. EventsOf(spool)' = EventsOf(spool) /\ EventsOf(Flying)' = {}
      BY <2>1, <2>2, EventsOfNone DEF EventsOf
    <3> QED BY <1>a, <1>c, <2>1, <2>2, <3>1, HeldPlaces, PlacesDisjoint, EventsOfNone
            DEF OnePlace
  <2>4. Delivered' = Delivered
    BY <2>1 DEF Delivered
  <2> QED BY <1>d, <2>1, <2>3, <2>4, GivenAccount
<1>13. CASE Rejected \/ SpoolRefused \/ WriteFailed \/ RenameFailed
  <2>1. PICK why \in Fates : Give(why, Range(cur.evs))
    BY <1>13, <1>d DEF Rejected, SpoolRefused, WriteFailed, RenameFailed
  <2>2. /\ pc \in FlushPcs /\ pc' = Caller
        /\ UNCHANGED <<queue, batch, spool, received, arrived>>
    BY <1>13 DEF Rejected, SpoolRefused, WriteFailed, RenameFailed, Sending,
                 FlushPcs, memory, disk, world
  <2>3. EventsOf(Flying) = Range(cur.evs) /\ EventsOf(Flying)' = {}
    BY <1>b, <2>2, EventsOfNone DEF Flying, Flushing, EventsOf, FlushPcs
  <2>4. Held' = Held \ Range(cur.evs) /\ Range(cur.evs) \subseteq Held
    <3>1. EventsOf(spool)' = EventsOf(spool)
      BY <2>2 DEF EventsOf
    <3> QED BY <2>2, <2>3, <3>1, HeldPlaces, PlacesDisjoint
  <2>5. Delivered' = Delivered
    BY <2>2 DEF Delivered
  <2> QED BY <2>1, <2>2, <2>4, <2>5, GivenAccount
<1>14. CASE DiscardUnreadable \/ TrimOldest
  <2>1. PICK f \in Oldest(todo), why \in Fates :
            RemoveFile(f) /\ GiveIfRemoved(why, f) /\ (f.kind # "foreign" \/ TrimOldest)
    BY <1>14, <1>d DEF DiscardUnreadable, TrimOldest
  <2>2. f \in spool /\ f \in todo
    BY <1>a DEF Oldest, TypeInv, TypeOK
  <2>3. /\ pc \notin FlushPcs /\ pc' = pc
        /\ UNCHANGED <<queue, batch, received, arrived>>
    BY <1>14 DEF DiscardUnreadable, TrimOldest, Visiting, FlushPcs, memory, world
  <2>4. Flying = {} /\ Flying' = {}
    BY <2>3 DEF Flying, Flushing, FlushPcs
  <2>5. InMemory' = InMemory
    BY <2>3, <2>4, HeldPlaces, EventsOfNone DEF EventsOf
  <2>6. CASE f.kind = "ours"
    <3>1. InMemory \cap Range(f.evs) = {}
      <4>1. Range(f.evs) \subseteq EventsOf(spool)
        BY <2>2 DEF EventsOf
      <4> QED BY <4>1, HeldPlaces, PlacesDisjoint
    <3> QED BY <2>1, <2>2, <2>3, <2>5, <2>6, <3>1, RemovedAccount
  <2>7. CASE f.kind = "foreign"
    <3>1. Range(f.evs) = {}
      BY <1>a, <1>c, <2>2, <2>7 DEF WholeBatches
    <3>2. gone' = gone
      <4>1. ASSUME Give(why, {}) PROVE gone' = gone
        BY <1>a, <4>1 DEF Give, TypeInv, TypeOK
      <4> QED BY <2>1, <3>1, <4>1 DEF GiveIfRemoved
    <3>3. EventsOf(spool)' = EventsOf(spool)
      BY <2>1, <2>2, <2>7, WithoutForeign DEF RemoveFile
    <3> QED BY <1>1, <2>3, <2>4, <3>2, <3>3
  <2> QED BY <1>a, <2>2, <2>6, <2>7 DEF WholeBatches
<1>15. CASE ReplayRejected
  <2>1. /\ pc = "replaySend" /\ pc' = "retrySpool" /\ RemoveFile(cur)
        /\ GiveIfRemoved("unreported", cur)
        /\ UNCHANGED <<queue, batch, received, arrived>>
    BY <1>15 DEF ReplayRejected, memory, world
  <2>2. cur \in spool /\ cur.kind = "ours"
    BY <1>a, <2>1 DEF TypeInv, WholeBatches
  <2>3. Flying = {} /\ Flying' = {}
    BY <2>1 DEF Flying, Flushing
  <2>4. InMemory' = InMemory
    BY <2>1, <2>3, HeldPlaces, EventsOfNone DEF EventsOf
  <2>5. InMemory \cap Range(cur.evs) = {}
    <3>1. Range(cur.evs) \subseteq EventsOf(spool)
      BY <2>2 DEF EventsOf
    <3> QED BY <3>1, HeldPlaces, PlacesDisjoint
  <2> QED BY <1>d, <2>1, <2>2, <2>4, <2>5, RemovedAccount
<1>16. CASE ProcessEnds
  <2>1. /\ Give("exit", InMemory) /\ queue' = <<>> /\ batch' = <<>> /\ pc' = "dead"
        /\ UNCHANGED <<spool, received, arrived>>
    BY <1>16 DEF ProcessEnds, disk, world
  <2>2. InMemory' = {}
    <3>1. EventsOf(Flying)' = {}
      BY <2>1, EventsOfNone DEF Flying, Flushing, EventsOf
    <3> QED BY <1>c, <2>1, <3>1, HeldPlaces
  <2>3. Stored' = Stored /\ Delivered' = Delivered
    BY <2>1 DEF Stored, Delivered
  <2>4. InMemory \cap Stored = {}
    BY HeldPlaces, PlacesDisjoint DEF Stored
  <2>5. Held' = Held \ InMemory /\ InMemory \subseteq Held
    BY <2>2, <2>3, <2>4 DEF Held
  <2> QED BY <1>d, <2>1, <2>3, <2>5, GivenAccount
\* A new event.
<1>17. CASE Enqueue
  <2>1. /\ arrived' = arrived + 1 /\ Flying' = Flying
        /\ UNCHANGED <<batch, spool, received>>
    BY <1>17 DEF Enqueue, Flying, Flushing, disk
  <2>2. 1..arrived' = 1..arrived \cup {arrived + 1} /\ arrived + 1 \notin 1..arrived
    BY <1>a, <2>1
  <2>3. /\ Delivered' = Delivered /\ EventsOf(spool)' = EventsOf(spool)
        /\ EventsOf(Flying)' = EventsOf(Flying)
    BY <2>1 DEF Delivered, EventsOf
  <2>4. 1..arrived = Held \cup Delivered \cup Lost /\ Lost \cap Held = {}
    BY DEF SafeInv, NothingVanishes, GoneForGood, Held
  <2>5. \A r, s \in Fates : r # s => gone[r] \cap gone[s] = {}
    BY DEF SafeInv, GoneForGood
  <2>6. CASE queue' = Append(queue, arrived + 1) /\ gone' = gone
    <3>1. Range(queue)' = Range(queue) \cup {arrived + 1}
      BY <1>a, <2>6, RangeOfAppend
    <3>2. Held' = Held \cup {arrived + 1} /\ Lost' = Lost
      BY <2>1, <2>3, <2>6, <3>1, HeldPlaces DEF Lost
    <3> QED BY <2>1, <2>2, <2>3, <2>4, <2>5, <2>6, <3>2
            DEF NothingVanishes, GoneForGood, Held
  <2>7. CASE queue' = queue /\ Give("queue_full", {arrived + 1})
    <3>1. Held' = Held
      BY <2>1, <2>3, <2>7, HeldPlaces
    <3>2. /\ Lost' = Lost \cup {arrived + 1}
          /\ \A r \in Fates : gone'[r] = IF r = "queue_full"
                                           THEN gone[r] \cup {arrived + 1} ELSE gone[r]
      <4>1. {arrived + 1} \in SUBSET Nat /\ "queue_full" \in Fates
        BY <1>a, <1>d
      <4>2. gone \in [Fates -> SUBSET Nat]
        BY <1>a DEF TypeInv, TypeOK
      <4> QED BY <2>7, <4>1, <4>2, GiveAdds
    <3>3. \A r, s \in Fates : r # s => gone'[r] \cap gone'[s] = {}
      <4>1. \A r \in Fates : arrived + 1 \notin gone[r]
        BY <2>2, <2>4 DEF Lost
      <4> QED BY <2>5, <3>2, <4>1
    <3>4. Lost' \cap Held' = {}
      BY <2>2, <2>4, <3>1, <3>2
    <3>5. 1..arrived' = Held' \cup Delivered' \cup Lost'
      BY <2>2, <2>3, <2>4, <3>1, <3>2
    <3> QED BY <3>3, <3>4, <3>5 DEF NothingVanishes, GoneForGood, Held
  <2> QED BY <1>17, <2>6, <2>7 DEF Enqueue
<1> QED
  BY <1>2, <1>3, <1>4, <1>5, <1>6, <1>7, <1>8, <1>9, <1>10, <1>11, <1>12, <1>13,
     <1>14, <1>15, <1>16, <1>17
     DEF Next, Run, Environment, Continue, RetrySpool, Flush, Spool, Drain

-----------------------------------------------------------------------------
(* The theorems *)

\* Every step keeps the inductive invariant.
LEMMA SafeStep == SafeInv /\ [Next]_vars => SafeInv'
<1> SUFFICES ASSUME SafeInv, [Next]_vars PROVE SafeInv'
  OBVIOUS
<1>1. TypeInv'
  BY TypeStep DEF SafeInv
<1>2. BatchFits'
  BY <1>1, FitsStep
<1>3. WholeBatches' /\ UniqueBatches' /\ OnePlace'
  BY BatchesStep
<1>4. NothingVanishes' /\ GoneForGood'
  BY <1>1, AccountStep
<1> QED BY <1>1, <1>2, <1>3, <1>4 DEF SafeInv

\* The inductive invariant holds.
THEOREM Safety == Spec => []SafeInv
  BY SafeInit, SafeStep, PTL DEF Spec

\* Whatever fails or crashes between two steps of flush, spool and replay,
\* every event offered is in memory, in the spool, at the receiver, or lost
\* for a recorded reason.
THEOREM NothingEverVanishes == Spec => []NothingVanishes
<1>1. SafeInv => NothingVanishes
  BY DEF SafeInv
<1> QED BY <1>1, Safety, PTL

\* An event given up is given up once, and the agent no longer holds it.
THEOREM LossIsFinal == Spec => []GoneForGood
<1>1. SafeInv => GoneForGood
  BY DEF SafeInv
<1> QED BY <1>1, Safety, PTL

\* The receiver sees every event under one batch id, and one payload under
\* every id, however often flush and replayOne send it.
THEOREM DeliveryIsIdempotent == Spec => []OneBatchPerEvent
<1>1. SafeInv => OneBatchPerEvent
  BY DEF SafeInv, UniqueBatches, OneBatchPerEvent, Made
<1> QED BY <1>1, Safety, PTL

\* What the receiver takes is a whole batch of at most BatchSize events.
THEOREM DeliveryIsWhole == Spec => []OnlyWholeBatches
<1>1. SafeInv => OnlyWholeBatches
  BY DEF SafeInv, WholeBatches, OnlyWholeBatches, Made
<1> QED BY <1>1, Safety, PTL
-----------------------------------------------------------------------------
(* The refinement of Delivery: a step that the receiver does not see and   *)
(* that offers nothing is, there, the loss of the events given up in it    *)

Owed == (InMemory \cup Stored) \ Delivered
Taken == {[id |-> r.id, evs |-> Range(r.evs)] : r \in received}
Settled == Lost \ Delivered

\* What Delivery counts as held is what is neither delivered nor given up.
LEMMA OwedIsRest ==
    ASSUME NothingVanishes, GoneForGood
    PROVE  Owed = 1..arrived \ (Delivered \cup Lost)
  BY DEF NothingVanishes, GoneForGood, Owed

\* A batch holds at most as many events as its payload is long.
LEMMA RangeIsSmall ==
    ASSUME NEW s \in Seq(Nat)
    PROVE  Cardinality(Range(s)) \in Nat /\ Cardinality(Range(s)) <= Len(s)
<1>1. Len(s) \in Nat /\ DOMAIN s = 1..Len(s) /\ s \in [1..Len(s) -> Range(s)]
  <2>1. Len(s) \in Nat /\ DOMAIN s = 1..Len(s) /\ s = [i \in 1..Len(s) |-> s[i]]
    OBVIOUS
  <2> QED BY <2>1 DEF Range
<1>2. s \in Surjection(1..Len(s), Range(s))
  BY <1>1 DEF Surjection, Range
<1>3. ExistsSurjection(1..Len(s), Range(s))
  BY <1>2 DEF ExistsSurjection
<1>4. IsFiniteSet(Range(s))
  <2>1. IsFiniteSet(1..Len(s))
    BY <1>1, FS_Interval
  <2> QED BY <1>2, <2>1, FS_Surjection
<1> QED BY <1>1, <1>3, <1>4, FS_SurjCardinalityBound, FS_CardinalityType

\* Delivery counts as the shipper's own module does.
LEMMA SameCount == ASSUME NEW S PROVE Abstract!Cardinality(S) = Cardinality(S)
  BY Zenon DEF Abstract!Cardinality, Cardinality

-----------------------------------------------------------------------------
(* The ids in use *)

IdsBounded == issued \subseteq 1..MaxEvents

\* No id is issued at first.
LEMMA IdsInit == Init => IdsBounded
  BY DEF Init, IdsBounded

\* Only the encoding of a batch issues an id, and it takes a free one.
LEMMA IdsStep == IdsBounded /\ [Next]_vars => IdsBounded'
<1> SUFFICES ASSUME IdsBounded, [Next]_vars PROVE IdsBounded'
  OBVIOUS
<1> USE DEF IdsBounded
<1>1. CASE Encode
  BY <1>1 DEF Encode, NewIds
<1>2. CASE Environment \/ UNCHANGED vars
  BY <1>2 DEF Environment, Enqueue, CollectorStops, ReceiverTakes, Cancel,
              BudgetElapses, ProcessEnds, Restart, vars, history
<1>3. CASE RetrySpool
  BY <1>3 DEF RetrySpool, PassEnds, DiscardForeign, DiscardUnreadable, Replay,
              ReplayAcked, ReplayRejected, ReplayFailed, history
<1>4. CASE Spool
  BY <1>4 DEF Spool, SpoolRefused, SpoolCreate, WriteFailed, Written,
              RenameFailed, Renamed, TrimOldest, TrimEnds, history
<1>5. CASE EncodeFailed \/ Acked \/ Rejected \/ Failed \/ Backoff
  BY <1>5 DEF EncodeFailed, Acked, Rejected, Failed, Backoff, RetrySame, history
<1>6. CASE Boot \/ TakeEvent \/ Tick \/ BeginDrain \/ Drain
  BY <1>6 DEF Boot, TakeEvent, Tick, BeginDrain, Drain, DrainEvent, DrainChunk,
              Stop, history
<1> QED BY <1>1, <1>2, <1>3, <1>4, <1>5, <1>6 DEF Next, Run, Continue, Flush

-----------------------------------------------------------------------------
(* Losses only grow *)

\* Give takes nothing back.
LEMMA GiveGrows ==
    ASSUME gone \in [Fates -> SUBSET Nat], NEW why, NEW evs, Give(why, evs)
    PROVE  Lost \subseteq Lost'
<1>1. \A r \in Fates : gone[r] \subseteq gone'[r]
  BY DEF Give
<1> QED BY <1>1, Zenon DEF Lost

\* Nothing is lost where nothing is given up.
LEMMA LostKept == ASSUME UNCHANGED gone PROVE Lost' = Lost
  BY DEF Lost

\* A step that offers nothing and that the receiver does not see.
LEMMA QuietStep ==
    ASSUME TypeOK, [Next]_vars
    PROVE  \/ Enqueue
           \/ ReceiverTakes
           \/ UNCHANGED <<arrived, received>> /\ Lost \subseteq Lost'
<1> USE DEF world, history
<1>a. gone \in [Fates -> SUBSET Nat]
  BY DEF TypeOK
<1>b. ASSUME NEW why, NEW evs, Give(why, evs) PROVE Lost \subseteq Lost'
  BY <1>a, <1>b, GiveGrows
<1>c. ASSUME NEW why, NEW f, GiveIfRemoved(why, f) PROVE Lost \subseteq Lost'
  BY <1>b, <1>c, LostKept DEF GiveIfRemoved
<1>1. CASE EncodeFailed
  BY <1>1, <1>b DEF EncodeFailed
<1>2. CASE Rejected
  BY <1>2, <1>b DEF Rejected
<1>3. CASE SpoolRefused
  BY <1>3, <1>b DEF SpoolRefused
<1>4. CASE WriteFailed
  BY <1>4, <1>b DEF WriteFailed
<1>5. CASE RenameFailed
  BY <1>5, <1>b DEF RenameFailed
<1>6. CASE ProcessEnds
  BY <1>6, <1>b DEF ProcessEnds
<1>7. CASE DiscardUnreadable
  BY <1>7, <1>c DEF DiscardUnreadable
<1>8. CASE ReplayRejected
  BY <1>8, <1>c DEF ReplayRejected
<1>9. CASE TrimOldest
  BY <1>9, <1>c DEF TrimOldest
<1>10. CASE Boot \/ TakeEvent \/ Tick \/ BeginDrain \/ Drain
  <2>1. UNCHANGED history
    BY <1>10 DEF Boot, TakeEvent, Tick, BeginDrain, Drain, DrainEvent,
                 DrainChunk, Stop
  <2> QED BY <2>1, LostKept
<1>11. CASE PassEnds \/ DiscardForeign \/ Replay \/ ReplayAcked \/ ReplayFailed
  BY <1>11, LostKept DEF PassEnds, DiscardForeign, Replay, ReplayAcked, ReplayFailed
<1>12. CASE Encode \/ Acked \/ Failed \/ Backoff
  BY <1>12, LostKept DEF Encode, Acked, Failed, Backoff
<1>13. CASE SpoolCreate \/ Written \/ Renamed \/ TrimEnds
  BY <1>13, LostKept DEF SpoolCreate, Written, Renamed, TrimEnds
<1>14. CASE CollectorStops \/ Cancel \/ BudgetElapses \/ Restart \/ UNCHANGED vars
  BY <1>14, LostKept DEF CollectorStops, Cancel, BudgetElapses, Restart, vars
<1> QED
  BY <1>1, <1>2, <1>3, <1>4, <1>5, <1>6, <1>7, <1>8, <1>9, <1>10, <1>11, <1>12,
     <1>13, <1>14
     DEF Next, Run, Environment, Continue, RetrySpool, Flush, Spool, Drain

-----------------------------------------------------------------------------
(* The steps of Delivery *)

\* A quiet step gives up what it adds to the losses, or changes nothing that
\* Delivery sees.
LEMMA QuietImplements ==
    ASSUME SafeInv, SafeInv', UNCHANGED <<arrived, received>>, Lost \subseteq Lost'
    PROVE  [Abstract!Next]_(Abstract!vars)
<1>1. Owed = 1..arrived \ (Delivered \cup Lost)
  BY OwedIsRest DEF SafeInv
<1>2. Owed' = 1..arrived' \ (Delivered' \cup Lost')
  BY DEF SafeInv, NothingVanishes, GoneForGood, Owed
<1>3. Delivered' = Delivered /\ Taken' = Taken
  BY DEF Delivered, EventsOf, Taken
<1> DEFINE S == Owed \ Owed'
<1>4. S = Settled' \ Settled /\ Settled \subseteq Settled' /\ Owed' \subseteq Owed
  <2>1. Lost' \subseteq 1..arrived
    BY DEF SafeInv, NothingVanishes
  <2> QED BY <1>1, <1>2, <1>3, <2>1 DEF Settled
<1>5. CASE S = {}
  <2>1. UNCHANGED <<arrived, Owed, Taken, Settled>>
    BY <1>3, <1>4, <1>5
  <2> QED BY <2>1 DEF Abstract!vars, Owed, Taken, Settled
<1>6. CASE S # {}
  <2>1. /\ Owed' = Owed \ S /\ Settled' = Settled \cup S
        /\ arrived' = arrived /\ Taken' = Taken /\ S \in SUBSET Owed
    BY <1>3, <1>4
  <2>2. Abstract!Lose(S)
    BY <1>6, <2>1 DEF Abstract!Lose, Owed, Taken, Settled
  <2> QED BY <2>1, <2>2 DEF Abstract!Next, Owed
<1> QED BY <1>5, <1>6

\* Enqueue offers an event, which is held or lost.
LEMMA EnqueueImplements ==
    ASSUME SafeInv, SafeInv', Enqueue
    PROVE  Abstract!Next
<1>1. /\ Owed = 1..arrived \ (Delivered \cup Lost)
      /\ Lost \subseteq 1..arrived /\ Delivered \subseteq 1..arrived
  BY OwedIsRest DEF SafeInv, NothingVanishes
<1>2. Owed' = 1..arrived' \ (Delivered' \cup Lost')
  BY DEF SafeInv, NothingVanishes, GoneForGood, Owed
<1>3. arrived \in Nat /\ gone \in [Fates -> SUBSET Nat] /\ "queue_full" \in Fates
  BY DEF SafeInv, TypeInv, TypeOK, Fates
<1>4. arrived' = arrived + 1 /\ arrived < MaxEvents /\ received' = received
  BY DEF Enqueue
<1>5. Delivered' = Delivered /\ Taken' = Taken
  BY <1>4 DEF Delivered, EventsOf, Taken
<1>6. 1..arrived' = 1..arrived \cup {arrived + 1} /\ arrived + 1 \notin 1..arrived
  BY <1>3, <1>4
<1>7. Lost' = Lost \/ Lost' = Lost \cup {arrived + 1}
  <2>1. CASE UNCHANGED gone
    BY <2>1, LostKept
  <2>2. CASE Give("queue_full", {arrived + 1})
    <3>1. {arrived + 1} \in SUBSET Nat
      BY <1>3
    <3> QED BY <2>2, <3>1, <1>3, GiveAdds
  <2> QED BY <2>1, <2>2 DEF Enqueue
<1>8. \/ Owed' = Owed \cup {arrived + 1} /\ Settled' = Settled
      \/ Settled' = Settled \cup {arrived + 1} /\ Owed' = Owed
  BY <1>1, <1>2, <1>5, <1>6, <1>7 DEF Settled
<1>9. Abstract!Offer
  BY <1>4, <1>5, <1>8 DEF Abstract!Offer, Owed, Taken, Settled
<1> QED BY <1>9 DEF Abstract!Next

\* The receiver takes a batch it does not have, or has it already.
LEMMA ReceiverImplements ==
    ASSUME SafeInv, SafeInv', IdsBounded, ReceiverTakes
    PROVE  [Abstract!Next]_(Abstract!vars)
<1> DEFINE evs == Range(cur.evs)
           taken == [id |-> cur.id, evs |-> evs]
<1>1. received' = received \cup {cur}
      /\ UNCHANGED <<pc, arrived, gone, queue, batch, cur, spool>>
  BY DEF ReceiverTakes, memory, disk
<1>2. cur \in Made
  <2>1. pc = "replaySend" => cur \in Whole(spool)
    BY DEF SafeInv, TypeInv, WholeBatches, Whole
  <2> QED BY <2>1 DEF ReceiverTakes, Made, Flying, Flushing
<1>3. /\ cur.evs \in Seq(Nat) /\ Len(cur.evs) \in 1..BatchSize /\ cur.id \in 1..MaxEvents
  BY <1>2 DEF SafeInv, TypeInv, TypeOK, File, WholeBatches, IdsBounded
<1>4. evs # {} /\ Cardinality(evs) <= BatchSize
  <2>1. cur.evs[1] \in evs
    <3>1. DOMAIN cur.evs = 1..Len(cur.evs) /\ 1 \in 1..Len(cur.evs)
      BY <1>3
    <3> QED BY <3>1 DEF Range
  <2>2. Cardinality(evs) \in Nat /\ Cardinality(evs) <= Len(cur.evs)
    BY <1>3, RangeIsSmall
  <2> QED BY <2>1, <2>2, <1>3, ConstantsAssumption
<1>5. Delivered' = Delivered \cup evs
  <2>1. EventsOf(received \cup {cur}) = EventsOf(received) \cup evs
    BY Zenon DEF EventsOf
  <2> QED BY <1>1, <2>1 DEF Delivered
<1>6. Taken' = Taken \cup {taken}
  BY <1>1 DEF Taken
<1>7. evs \subseteq InMemory \cup Stored
  <2>1. pc = "replaySend" => cur \in spool
    BY DEF SafeInv, TypeInv
  <2> QED BY <2>1 DEF ReceiverTakes, InMemory, Flushing, Stored, EventsOf
<1>8. InMemory' = InMemory /\ Stored' = Stored /\ Lost' = Lost
  BY <1>1, LostKept DEF InMemory, Flushing, Stored, EventsOf
<1>9. Owed' = Owed \ evs /\ Settled' = Settled
  BY <1>5, <1>7, <1>8 DEF Owed, Settled, SafeInv, GoneForGood
<1>10. CASE cur \in received
  <2>1. received' = received
    BY <1>1, <1>10
  <2>2. UNCHANGED <<arrived, Owed, Taken, Settled>>
    <3>1. evs \subseteq Delivered
      BY <1>10 DEF Delivered, EventsOf
    <3> QED BY <1>1, <1>9, <2>1, <3>1 DEF Owed, Taken
  <2> QED BY <2>2 DEF Abstract!vars, Owed, Taken, Settled
<1>11. CASE cur \notin received
  <2>1. \A r \in received : r.id # cur.id /\ Range(r.evs) \cap evs = {}
    BY <1>2, <1>11 DEF SafeInv, UniqueBatches, Made
  <2>2. evs \in SUBSET Owed
    BY <1>7, <2>1 DEF Owed, Delivered, EventsOf
  <2>3. \A t \in Taken : t.id # cur.id
    BY <2>1 DEF Taken
  <2>4. arrived' = arrived
    BY <1>1
  <2>5. PICK S, i : S = evs /\ i = cur.id
    OBVIOUS
  <2>6. Abstract!Take(i, S)
    <3> HIDE DEF evs, taken
    <3>1. taken = [id |-> i, evs |-> S]
      BY <2>5 DEF taken
    <3>2. S # {} /\ Abstract!Cardinality(S) <= BatchSize
      BY <1>4, <2>5, SameCount
    <3>3. Owed' = Owed \ S /\ \A t \in Taken : t.id # i
      BY <1>9, <2>3, <2>5
    <3> QED
      BY <3>1, <3>2, <3>3, <1>6, <1>9, <2>4
      DEF Abstract!Take, Owed, Taken, Settled
  <2>7. S \in SUBSET Owed /\ i \in 1..MaxEvents
    BY <1>3, <2>2, <2>5
  <2> QED BY <2>6, <2>7 DEF Abstract!Next, Owed
<1> QED BY <1>10, <1>11

-----------------------------------------------------------------------------
\* Every step of the shipper is a step of Delivery or changes nothing in it.
LEMMA StepImplements ==
    SafeInv /\ SafeInv' /\ IdsBounded /\ [Next]_vars
        => [Abstract!Next]_(Abstract!vars)
<1> SUFFICES ASSUME SafeInv, SafeInv', IdsBounded, [Next]_vars
             PROVE  [Abstract!Next]_(Abstract!vars)
  OBVIOUS
<1>1. CASE Enqueue
  BY <1>1, EnqueueImplements
<1>2. CASE ReceiverTakes
  BY <1>2, ReceiverImplements
<1>3. CASE UNCHANGED <<arrived, received>> /\ Lost \subseteq Lost'
  BY <1>3, QuietImplements
<1> QED BY <1>1, <1>2, <1>3, QuietStep DEF SafeInv, TypeInv

\* A fresh shipper is a fresh Delivery.
LEMMA InitImplements == Init => Abstract!Init
<1> SUFFICES ASSUME Init PROVE Abstract!Init
  OBVIOUS
<1>1. queue = <<>> /\ batch = <<>> /\ received = {} /\ pc = "boot" /\ arrived = 0
  BY DEF Init
<1>2. Range(<<>>) = {}
  BY DEF Range
<1>3. \A f \in spool : f.evs = <<>>
  BY DEF Init, ForeignFile
<1>4. Owed = {} /\ Taken = {}
  BY <1>1, <1>2, <1>3 DEF Owed, Taken, InMemory, Stored, EventsOf, Flushing
<1>5. \A r \in Fates : gone[r] = {}
  BY DEF Init
<1>6. Settled = {}
  BY <1>5 DEF Settled, Lost
<1> QED BY <1>1, <1>4, <1>6 DEF Abstract!Init, Owed, Taken, Settled

\* With its retries, replays, faults, crashes and restarts, the shipper does
\* what Delivery promises: an event is held until the receiver has it in one
\* batch of bounded size under an id of its own, or until it is lost.
THEOREM ShipperImplementsDelivery == Spec => ImplementsDelivery
<1>1. Init => IdsBounded /\ Abstract!Init
  BY IdsInit, InitImplements
<1>2. SafeInv /\ SafeInv' /\ IdsBounded /\ [Next]_vars
        => IdsBounded' /\ [Abstract!Next]_(Abstract!vars)
  BY IdsStep, StepImplements
<1> QED BY <1>1, <1>2, Safety, PTL DEF Spec, ImplementsDelivery, Abstract!Spec

-----------------------------------------------------------------------------
(* The budget of the spool *)

\* The size of a finite set of files is a number; one file more adds its size,
\* and a part of the files is no larger.
LEMMA SizeFacts ==
    ASSUME NEW S, IsFiniteSet(S), \A f \in S : FileSize(f) \in Nat
    PROVE  /\ TotalSize(S) \in Nat
           /\ TotalSize({}) = 0
           /\ \A T \in SUBSET S : TotalSize(T) <= TotalSize(S)
           /\ \A f : FileSize(f) \in Nat =>
                  TotalSize(S \cup {f}) <= TotalSize(S) + FileSize(f)
<1> DEFINE w(T) == [f \in T |-> FileSize(f)]
<1>1. \A T : TotalSize(T) = SumFunctionOnSet(w(T), T)
  BY DEF TotalSize, SumFunction
<1>2. \A T \in SUBSET S : IsFiniteSet(T) /\ Weighs(w(T), T)
  BY FS_Subset DEF Weighs
<1>3. ASSUME NEW T, NEW U, T \subseteq U, IsFiniteSet(T), Weighs(w(T), T)
      PROVE  SumFunctionOnSet(w(U), T) = SumFunctionOnSet(w(T), T)
  <2>1. \A f \in T : w(U)[f] = w(T)[f]
    BY <1>3
  <2> HIDE DEF w
  <2> QED BY <1>3, <2>1, SumAgree
<1>4. TotalSize(S) \in Nat /\ TotalSize({}) = 0
  <2> HIDE DEF w
  <2> QED BY <1>1, <1>2, SumType, SumEmpty
<1>5. ASSUME NEW T \in SUBSET S PROVE TotalSize(T) <= TotalSize(S)
  <2> HIDE DEF w
  <2>1. SumFunctionOnSet(w(S), T) <= SumFunctionOnSet(w(S), S)
    BY <1>2, SumPart
  <2>2. SumFunctionOnSet(w(S), T) = SumFunctionOnSet(w(T), T)
    BY <1>2, <1>3
  <2> QED BY <1>1, <2>1, <2>2
<1>6. ASSUME NEW f, FileSize(f) \in Nat
      PROVE  TotalSize(S \cup {f}) <= TotalSize(S) + FileSize(f)
  <2>1. CASE f \in S
    <3>1. TotalSize(S \cup {f}) = TotalSize(S)
      <4>1. S \cup {f} = S
        BY <2>1
      <4> QED BY <4>1
    <3> QED BY <1>4, <1>6, <3>1
  <2>2. CASE f \notin S
    <3> DEFINE U == S \cup {f}
    <3>1. w(U)[f] = FileSize(f) /\ Weighs(w(U), U)
      BY <1>6 DEF Weighs
    <3> HIDE DEF w
    <3>2. SumFunctionOnSet(w(U), U) = w(U)[f] + SumFunctionOnSet(w(U), S)
      BY <2>2, <3>1, SumAdd
    <3>3. SumFunctionOnSet(w(U), S) = SumFunctionOnSet(w(S), S)
      BY <1>2, <1>3
    <3> QED BY <1>1, <1>4, <1>6, <3>1, <3>2, <3>3
  <2> QED BY <2>1, <2>2
<1> QED BY <1>4, <1>5, <1>6

\* What an os.Remove that works leaves to trimSpool: as long as it runs, it has
\* yet to visit every file there is, so that it ends within the budget.
BudgetInv ==
    /\ IsFiniteSet(spool)
    /\ pc = "trim" => todo = spool
    /\ SpoolWithinBudget

\* How many batches the spool may be over its budget.
Untrimmed == IF pc \in {"trim", "dead"} THEN restarts + 1 ELSE restarts

\* The products the budget needs: batches over the budget, one by one.
LEMMA Products ==
    \A a, b, k \in Nat : a * b \in Nat /\ (a + k) * b = a * b + k * b
                          /\ (a + 1) * b = a * b + b
  OBVIOUS

\* The budget, with its allowance by name.
LEMMA BudgetOf == SpoolWithinBudget <=> TotalSize(spool) <= MaxSpool + Untrimmed * BatchSize
  BY DEF SpoolWithinBudget, Untrimmed

\* The files of the spool have sizes, those of this agent at most BatchSize.
LEMMA SizesOfFiles ==
    ASSUME SafeInv
    PROVE  /\ \A f \in spool : FileSize(f) \in Nat
           /\ pc = "rename" => FileSize(cur) \in 0..BatchSize
<1>1. \A f \in spool : f \in File
  BY DEF SafeInv, TypeInv, TypeOK
<1>2. pc = "rename" => cur \in Made
  BY DEF Made, Flying, Flushing
<1> QED BY <1>1, <1>2 DEF FileSize, File, SafeInv, WholeBatches

\* A foreign file that is there at first is within a budget of one.
LEMMA BudgetInit ==
    ASSUME "foreign" \in Faults => MaxSpool >= 1
    PROVE  Init => BudgetInv
<1> SUFFICES ASSUME Init PROVE BudgetInv
  OBVIOUS
<1>1. spool = {} \/ (spool = {ForeignFile} /\ MaxSpool >= 1)
  BY DEF Init
<1>2. FileSize(ForeignFile) = 1 /\ TotalSize({}) = 0 /\ IsFiniteSet({})
  BY SizeFacts, FS_EmptySet DEF FileSize, ForeignFile
<1>3. TotalSize({ForeignFile}) <= 1 /\ TotalSize({ForeignFile}) \in Nat
        /\ IsFiniteSet({ForeignFile})
  <2>1. {} \cup {ForeignFile} = {ForeignFile} /\ IsFiniteSet({ForeignFile})
    BY FS_Singleton
  <2>2. TotalSize({} \cup {ForeignFile}) <= TotalSize({}) + FileSize(ForeignFile)
    BY <1>2, SizeFacts
  <2>3. TotalSize({ForeignFile}) \in Nat
    BY <1>2, <2>1, SizeFacts
  <2> QED BY <1>2, <2>1, <2>2, <2>3
<1>4. TotalSize(spool) <= MaxSpool /\ IsFiniteSet(spool)
  BY <1>1, <1>2, <1>3, ConstantsAssumption
<1>5. pc # "trim" /\ Untrimmed = 0
  BY DEF Init, Untrimmed
<1>6. SpoolWithinBudget
  BY <1>4, <1>5, BudgetOf, ConstantsAssumption
<1> QED BY <1>4, <1>5, <1>6 DEF BudgetInv

\* Every step keeps the budget, on a disk that deletes what it is told to.
LEMMA BudgetStep ==
    ASSUME "remove" \notin Faults
    PROVE  SafeInv /\ SafeInv' /\ BudgetInv /\ [Next]_vars => BudgetInv'
<1> SUFFICES ASSUME SafeInv, SafeInv', BudgetInv, [Next]_vars PROVE BudgetInv'
  OBVIOUS
<1>a. /\ IsFiniteSet(spool) /\ restarts \in Nat /\ restarts' \in Nat
      /\ BatchSize \in Nat /\ MaxSpool \in Nat
      /\ TotalSize(spool) <= MaxSpool + Untrimmed * BatchSize
      /\ \A f \in spool : FileSize(f) \in Nat
  BY ConstantsAssumption, BudgetOf, SizesOfFiles DEF BudgetInv, SafeInv, TypeInv, TypeOK
<1>b. /\ Untrimmed \in Nat /\ TotalSize(spool) \in Nat
      /\ \A T \in SUBSET spool : TotalSize(T) <= TotalSize(spool)
                                   /\ IsFiniteSet(T) /\ TotalSize(T) \in Nat
  <2>1. \A T \in SUBSET spool : IsFiniteSet(T) /\ \A f \in T : FileSize(f) \in Nat
    BY <1>a, FS_Subset
  <2>2. \A T \in SUBSET spool : TotalSize(T) \in Nat
    BY <2>1, SizeFacts
  <2> QED BY <1>a, <2>1, <2>2, SizeFacts DEF Untrimmed
<1>c. ASSUME spool' \subseteq spool, pc' = "trim" => todo' = spool',
             restarts' = restarts, pc' # "dead" => pc # "dead",
             (pc = "trim" => pc' \in {"trim", "dead"}) \/ TotalSize(spool') <= MaxSpool
      PROVE  BudgetInv'
  <2>1. TotalSize(spool') <= TotalSize(spool) /\ IsFiniteSet(spool')
          /\ TotalSize(spool') \in Nat
    BY <1>b, <1>c
  <2>2. Untrimmed' \in Nat /\ (Untrimmed' >= Untrimmed \/ TotalSize(spool') <= MaxSpool)
    BY <1>a, <1>c DEF Untrimmed
  <2>3. TotalSize(spool') <= MaxSpool + Untrimmed' * BatchSize
    <3>1. CASE TotalSize(spool') <= MaxSpool
      <4>1. Untrimmed' * BatchSize \in Nat
        BY <1>a, <2>2, Products
      <4> QED BY <1>a, <2>1, <3>1, <4>1
    <3>2. CASE Untrimmed' >= Untrimmed
      <4>1. PICK k \in Nat : Untrimmed' = Untrimmed + k
        BY <1>b, <2>2, <3>2
      <4>2. /\ Untrimmed' * BatchSize = Untrimmed * BatchSize + k * BatchSize
            /\ k * BatchSize \in Nat /\ Untrimmed * BatchSize \in Nat
        BY <1>a, <1>b, <4>1, Products
      <4> QED BY <1>a, <1>b, <2>1, <4>2
    <3> QED BY <2>2, <3>1, <3>2
  <2>4. SpoolWithinBudget'
    BY <2>3, BudgetOf DEF SpoolWithinBudget, Untrimmed
  <2> QED BY <1>c, <2>1, <2>4 DEF BudgetInv
<1>d. Caller \notin {"trim", "dead"}
  BY DEF Caller
<1>1. CASE Renamed
  <2>1. /\ pc = "rename" /\ pc' = "trim" /\ restarts' = restarts
        /\ spool' = spool \cup {cur} /\ todo' = spool'
    BY <1>1 DEF Renamed, history, world
  <2>2. FileSize(cur) \in 0..BatchSize
    BY <2>1, SizesOfFiles
  <2>3. IsFiniteSet(spool') /\ TotalSize(spool') <= TotalSize(spool) + FileSize(cur)
    <3>1. IsFiniteSet(spool \cup {cur})
      BY <1>a, FS_AddElement
    <3>2. TotalSize(spool \cup {cur}) <= TotalSize(spool) + FileSize(cur)
      <4>1. FileSize(cur) \in Nat
        BY <1>a, <2>2
      <4> QED BY <1>a, <4>1, SizeFacts
    <3> QED BY <2>1, <3>1, <3>2
  <2>4. TotalSize(spool') \in Nat
    <3>1. \A f \in spool' : FileSize(f) \in Nat
      <4>1. FileSize(cur) \in Nat
        BY <1>a, <2>2
      <4> QED BY <1>a, <2>1, <4>1
    <3> QED BY <2>3, <3>1, SizeFacts
  <2>5. TotalSize(spool') <= MaxSpool + (restarts + 1) * BatchSize
    <3>1. (restarts + 1) * BatchSize = restarts * BatchSize + BatchSize
            /\ restarts * BatchSize \in Nat
      BY <1>a, Products
    <3>2. Untrimmed = restarts
      BY <2>1 DEF Untrimmed
    <3> QED BY <1>a, <1>b, <2>2, <2>3, <2>4, <3>1, <3>2
  <2>6. SpoolWithinBudget'
    BY <2>1, <2>5 DEF SpoolWithinBudget
  <2> QED BY <2>1, <2>3, <2>6 DEF BudgetInv
<1>2. CASE TrimOldest
  <2>1. PICK f \in Oldest(todo) : todo' = todo \ {f} /\ spool' = spool \ {f}
    BY <1>2 DEF TrimOldest, RemoveFile
  <2> QED BY <1>2, <1>c, <2>1 DEF TrimOldest, BudgetInv, world
<1>3. CASE TrimEnds
  <2>1. TotalSize(spool') <= MaxSpool
    <3>1. CASE todo = {}
      <4>1. spool' = {} /\ TotalSize({}) = 0
        BY <1>3, <1>a, <3>1, SizeFacts DEF TrimEnds, BudgetInv, disk
      <4> QED BY <1>a, <4>1
    <3>2. CASE todo # {}
      BY <1>3, <3>2 DEF TrimEnds, Trimmed, disk
    <3> QED BY <3>1, <3>2
  <2> QED BY <1>3, <1>c, <1>d, <2>1 DEF TrimEnds, disk, history, world
<1>4. CASE Restart
  <2>1. /\ pc = "dead" /\ pc' = "boot" /\ restarts' = restarts + 1 /\ spool' = spool
    BY <1>4 DEF Restart, disk
  <2> QED BY <2>1 DEF BudgetInv, SpoolWithinBudget
<1>5. CASE ProcessEnds
  BY <1>5, <1>c DEF ProcessEnds, disk, world
<1>6. CASE UNCHANGED vars
  BY <1>6, <1>c DEF vars, disk, loop, history, world, BudgetInv
<1>7. CASE Boot \/ PassEnds \/ DiscardForeign \/ DiscardUnreadable \/ Replay
             \/ ReplayAcked \/ ReplayRejected \/ ReplayFailed
  <2>1. /\ spool' \subseteq spool /\ restarts' = restarts
        /\ pc \notin {"trim", "dead"} /\ pc' \notin {"trim", "dead"}
    BY <1>7 DEF Boot, PassEnds, DiscardForeign, DiscardUnreadable, Replay, ReplayAcked,
                ReplayRejected, ReplayFailed, Visiting, RemoveFile, disk, history, world
  <2> QED BY <1>c, <2>1
<1>8. CASE EncodeFailed \/ Encode \/ Acked \/ Rejected \/ Failed \/ Backoff
  <2>1. /\ spool' \subseteq spool /\ restarts' = restarts
        /\ pc \notin {"trim", "dead"} /\ pc' \notin {"trim", "dead"}
    BY <1>8, <1>d DEF EncodeFailed, Encode, Acked, Rejected, Failed, RetryOrSpool,
                      Backoff, Sending, disk, history, world
  <2> QED BY <1>c, <2>1
<1>9. CASE SpoolRefused \/ SpoolCreate \/ WriteFailed \/ Written \/ RenameFailed
  <2>1. /\ spool' \subseteq spool /\ restarts' = restarts
        /\ pc \notin {"trim", "dead"} /\ pc' \notin {"trim", "dead"}
    BY <1>9, <1>d DEF SpoolRefused, SpoolCreate, CreateTmp, WriteFailed, Written,
                      RenameFailed, disk, history, world
  <2> QED BY <1>c, <2>1
<1>10. CASE TakeEvent \/ Tick \/ BeginDrain \/ DrainEvent \/ DrainChunk \/ Stop
  <2>1. /\ spool' \subseteq spool /\ restarts' = restarts
        /\ pc \notin {"trim", "dead"} /\ pc' \notin {"trim", "dead"}
    BY <1>10 DEF TakeEvent, Tick, BeginDrain, DrainEvent, DrainChunk, Stop, disk,
                 history, world
  <2> QED BY <1>c, <2>1
<1>11. CASE Enqueue \/ CollectorStops \/ ReceiverTakes \/ Cancel \/ BudgetElapses
  <2>1. spool' = spool /\ todo' = todo /\ restarts' = restarts /\ pc' = pc
    BY <1>11 DEF Enqueue, CollectorStops, ReceiverTakes, Cancel, BudgetElapses, disk,
                 history, world, loop
  <2> QED BY <1>c, <2>1 DEF BudgetInv
<1> QED
  BY <1>1, <1>2, <1>3, <1>4, <1>5, <1>6, <1>7, <1>8, <1>9, <1>10, <1>11
     DEF Next, Run, Environment, Continue, RetrySpool, Flush, Spool, Drain

\* On a disk that deletes what it is told to, the spool is over MaxSpoolMB by at
\* most one batch per crash between a rename and its trim, whatever the sizes.
THEOREM SpoolIsBounded ==
    ASSUME "remove" \notin Faults, "foreign" \in Faults => MaxSpool >= 1
    PROVE  Spec => []SpoolWithinBudget
<1>1. Init => SafeInv /\ BudgetInv
  BY SafeInit, BudgetInit
<1>2. SafeInv /\ BudgetInv /\ [Next]_vars => SafeInv' /\ BudgetInv'
  BY SafeStep, BudgetStep
<1>3. BudgetInv => SpoolWithinBudget
  BY DEF BudgetInv
<1> QED BY <1>1, <1>2, <1>3, PTL DEF Spec

-----------------------------------------------------------------------------
(* What trimSpool evicts *)

\* Every event of A was offered before every event of B.
Before(A, B) == \A d \in A, e \in B : d < e

Increasing(s) == \A i, j \in 1..Len(s) : i < j => s[i] < s[j]

\* The tail of an increasing sequence increases, and its head comes first.
LEMMA IncreasingTail ==
    ASSUME NEW s \in Seq(Nat), s # <<>>, Increasing(s)
    PROVE  Increasing(Tail(s)) /\ Before({Head(s)}, Range(Tail(s)))
<1>1. Head(s) = s[1] /\ Len(s) \in Nat \ {0} /\ Len(Tail(s)) = Len(s) - 1
  OBVIOUS
<1>2. \A i \in 1..Len(Tail(s)) : i + 1 \in 2..Len(s) /\ Tail(s)[i] = s[i + 1]
  BY <1>1
<1>3. ASSUME NEW i \in 1..Len(Tail(s)), NEW j \in 1..Len(Tail(s)), i < j
      PROVE  Tail(s)[i] < Tail(s)[j]
  <2>1. i + 1 \in 1..Len(s) /\ j + 1 \in 1..Len(s) /\ i + 1 < j + 1
    BY <1>1, <1>3
  <2>2. s[i + 1] < s[j + 1]
    BY <2>1 DEF Increasing
  <2> QED BY <1>2, <2>2
<1>4. ASSUME NEW i \in 1..Len(Tail(s)) PROVE Head(s) < Tail(s)[i]
  <2>1. 1 \in 1..Len(s) /\ i + 1 \in 1..Len(s) /\ 1 < i + 1
    BY <1>1
  <2>2. s[1] < s[i + 1]
    BY <2>1 DEF Increasing
  <2> QED BY <1>1, <1>2, <2>2
<1>5. DOMAIN Tail(s) = 1..Len(Tail(s))
  <2>1. Tail(s) \in Seq(Nat)
    OBVIOUS
  <2> QED BY <2>1
<1> QED BY <1>3, <1>4, <1>5 DEF Increasing, Before, Range

\* A larger event keeps a sequence increasing.
LEMMA IncreasingAppend ==
    ASSUME NEW s \in Seq(Nat), NEW e \in Nat, Increasing(s), Before(Range(s), {e})
    PROVE  Increasing(Append(s, e))
<1>1. /\ Len(Append(s, e)) = Len(s) + 1 /\ Len(s) \in Nat
      /\ Append(s, e)[Len(s) + 1] = e
      /\ \A i \in 1..Len(s) : Append(s, e)[i] = s[i] /\ s[i] \in Range(s)
  BY DEF Range
<1> SUFFICES ASSUME NEW i \in 1..(Len(s) + 1), NEW j \in 1..(Len(s) + 1), i < j
             PROVE  Append(s, e)[i] < Append(s, e)[j]
  BY <1>1 DEF Increasing
<1>2. CASE j = Len(s) + 1
  <2>1. i \in 1..Len(s)
    BY <1>1, <1>2
  <2>2. Append(s, e)[i] \in Range(s) /\ Append(s, e)[j] = e
    BY <1>1, <1>2, <2>1
  <2> QED BY <2>2 DEF Before
<1>3. CASE j # Len(s) + 1
  <2>1. i \in 1..Len(s) /\ j \in 1..Len(s)
    BY <1>1, <1>3
  <2>2. s[i] < s[j]
    BY <2>1 DEF Increasing
  <2> QED BY <1>1, <2>1, <2>2
<1> QED BY <1>2, <1>3

\* Events leave the queue for the batch and the batch for the files in the order
\* they were offered, and where ids ascend a batch made later has the larger one.
OrderInv ==
    /\ \A i \in issued : \A j \in Nat \ {0} : j < i => j \in issued
    /\ \A f, g \in Made : f.id < g.id => Before(Range(f.evs), Range(g.evs))
    /\ \A f \in Made : Before(Range(f.evs), Range(batch) \cup Range(queue))
    /\ Before(Range(batch), Range(queue))
    /\ Increasing(queue)

\* Nothing is queued or made at first.
LEMMA OrderInit == Init => OrderInv
<1> SUFFICES ASSUME Init PROVE OrderInv
  OBVIOUS
<1>1. /\ queue = <<>> /\ batch = <<>> /\ received = {} /\ pc = "boot" /\ issued = {}
      /\ \A f \in spool : f = ForeignFile
  BY DEF Init
<1>2. Range(<<>>) = {} /\ Increasing(<<>>)
  BY DEF Range, Increasing
<1>3. Made = {}
  BY <1>1 DEF Flying, Flushing, Whole, Made, ForeignFile
<1> QED BY <1>1, <1>2, <1>3 DEF OrderInv, Before

\* Where queue and batch go in a step.
LEMMA QueueOrderStep ==
    ASSUME SafeInv, OrderInv, [Next]_vars
    PROVE  Before(Range(batch), Range(queue))' /\ Increasing(queue)'
<1>a. /\ queue \in Seq(Nat) /\ batch \in Seq(Nat) /\ arrived \in Nat
      /\ Before(Range(batch), Range(queue)) /\ Increasing(queue)
  BY DEF SafeInv, TypeInv, TypeOK, OrderInv
<1>b. Range(queue) \cup Range(batch) \subseteq 1..arrived
  BY DEF SafeInv, NothingVanishes, InMemory
<1>c. Range(<<>>) = {} /\ Increasing(<<>>)
  BY DEF Range, Increasing
<1>1. CASE TakeEvent \/ DrainEvent
  <2>1. queue # <<>> /\ batch' = Append(batch, Head(queue)) /\ queue' = Tail(queue)
    BY <1>1 DEF TakeEvent, DrainEvent
  <2>2. /\ Head(queue) \in Nat /\ Range(queue) = Range(Tail(queue)) \cup {Head(queue)}
        /\ Increasing(Tail(queue)) /\ Before({Head(queue)}, Range(Tail(queue)))
    BY <1>a, <2>1, RangeOfTail, IncreasingTail
  <2>3. Range(batch') = Range(batch) \cup {Head(queue)}
    BY <1>a, <2>1, <2>2, RangeOfAppend
  <2>4. Before(Range(batch'), Range(queue'))
    BY <1>a, <2>1, <2>2, <2>3 DEF Before
  <2> QED BY <2>1, <2>2, <2>4 DEF Before, Increasing
<1>2. CASE Enqueue
  <2>1. batch' = batch /\ (queue' = queue \/ queue' = Append(queue, arrived + 1))
    BY <1>2 DEF Enqueue
  <2>2. CASE queue' = queue
    BY <1>a, <2>1, <2>2 DEF Before, Increasing
  <2>3. CASE queue' = Append(queue, arrived + 1)
    <3>1. arrived + 1 \in Nat /\ Before(Range(queue), {arrived + 1})
            /\ Before(Range(batch), {arrived + 1})
      BY <1>a, <1>b DEF Before
    <3>2. Range(queue') = Range(queue) \cup {arrived + 1} /\ Increasing(queue')
      BY <1>a, <2>3, <3>1, RangeOfAppend, IncreasingAppend
    <3>3. Before(Range(batch'), Range(queue'))
      BY <1>a, <2>1, <3>1, <3>2 DEF Before
    <3> QED BY <3>2, <3>3 DEF Before, Increasing
  <2> QED BY <2>1, <2>2, <2>3
<1>3. CASE EncodeFailed \/ Encode \/ ProcessEnds
  <2>1. batch' = <<>> /\ (queue' = queue \/ queue' = <<>>)
    BY <1>3 DEF EncodeFailed, Encode, ProcessEnds
  <2> QED BY <1>a, <1>c, <2>1 DEF Before, Increasing
<1>4. CASE queue' = queue /\ batch' = batch
  BY <1>a, <1>4 DEF Before, Increasing
<1> QED BY <1>1, <1>2, <1>3, <1>4, MemoryMoves

\* A batch that Encode makes has an id above all, if ids ascend.
LEMMA EncodeLast ==
    ASSUME IdsAscend, SafeInv, OrderInv, Encode
    PROVE  /\ \A i \in issued' : \A j \in Nat \ {0} : j < i => j \in issued'
           /\ \A f \in Made : f.id < cur'.id
<1>1. PICK i \in NewIds : /\ cur' = [id |-> i, evs |-> batch, kind |-> "ours"]
                          /\ issued' = issued \cup {i}
  BY DEF Encode
<1>2. /\ i \in 1..MaxEvents /\ i \notin issued
      /\ \A j \in 1..MaxEvents \ issued : i <= j
  BY <1>1 DEF NewIds
<1>3. MaxEvents \in Nat /\ issued \subseteq Nat
  BY ConstantsAssumption DEF SafeInv, TypeInv, TypeOK
<1>4. ASSUME NEW j \in Nat \ {0}, j < i PROVE j \in issued
  <2>1. j \in 1..MaxEvents
    BY <1>2, <1>3, <1>4
  <2> QED BY <1>2, <1>4, <2>1
<1>5. \A j \in issued : j < i
  BY <1>2, <1>3 DEF OrderInv
<1>6. \A f \in Made : f.id \in issued
  BY DEF SafeInv, WholeBatches
<1> QED BY <1>1, <1>4, <1>5, <1>6 DEF OrderInv

\* Every step keeps the order of the events, if ids ascend.
LEMMA OrderStep ==
    ASSUME IdsAscend
    PROVE  SafeInv /\ OrderInv /\ [Next]_vars => OrderInv'
<1> SUFFICES ASSUME SafeInv, OrderInv, [Next]_vars PROVE OrderInv'
  OBVIOUS
<1>a. /\ arrived \in Nat /\ Before(Range(batch), Range(queue))' /\ Increasing(queue)'
  BY QueueOrderStep DEF SafeInv, TypeInv, TypeOK
<1>b. \A f \in Made : /\ Before(Range(f.evs), Range(batch) \cup Range(queue))
                      /\ Before(Range(f.evs), {arrived + 1})
  <2>1. \A f \in Made : Range(f.evs) \subseteq 1..arrived
    BY DEF SafeInv, WholeBatches, Made, Whole, Flying, NothingVanishes, InMemory,
           Stored, Delivered, EventsOf
  <2> QED BY <1>a, <2>1 DEF OrderInv, Before
<1>c. \A f, g \in Made : f.id < g.id => Before(Range(f.evs), Range(g.evs))
  BY DEF OrderInv
<1>1. CASE Encode
  <2>1. /\ Made' = Made \cup {cur'} /\ cur'.evs = batch
        /\ batch' = <<>> /\ queue' = queue /\ Range(<<>>) = {}
    BY <1>1, EncodeNew DEF Range
  <2>2. /\ \A i \in issued' : \A j \in Nat \ {0} : j < i => j \in issued'
        /\ \A f \in Made : f.id < cur'.id
    BY <1>1, EncodeLast
  <2>3. cur'.id \in Nat /\ \A f \in Made : f.id \in Nat
    <3>1. cur'.id \in issued' /\ issued' \subseteq Nat
      BY <1>1, EncodeNew, TypeStep DEF SafeInv, TypeInv, TypeOK
    <3>2. \A f \in Made : f.id \in Nat
      BY DEF SafeInv, WholeBatches, TypeInv, TypeOK
    <3> QED BY <3>1, <3>2
  <2>4. ASSUME NEW f \in Made', NEW g \in Made', f.id < g.id
        PROVE  Before(Range(f.evs), Range(g.evs))
    <3>1. f # cur'
      BY <2>1, <2>2, <2>3, <2>4
    <3>2. CASE g \in Made
      BY <1>c, <2>1, <2>4, <3>1, <3>2
    <3>3. CASE g = cur'
      BY <1>b, <2>1, <3>1, <3>3 DEF Before
    <3> QED BY <2>1, <3>2, <3>3
  <2>5. \A f \in Made' : Before(Range(f.evs), Range(batch') \cup Range(queue'))
    <3>1. Before(Range(batch), Range(queue))
      BY DEF OrderInv
    <3> QED BY <1>b, <2>1, <3>1 DEF Before
  <2> QED BY <1>a, <2>2, <2>4, <2>5 DEF OrderInv, Before
<1>2. CASE ~Encode
  <2>1. Made' \subseteq Made /\ issued' = issued
    BY <1>2, MadeStep
  <2>2. Range(queue)' \cup Range(batch)'
           \subseteq Range(queue) \cup Range(batch) \cup {arrived + 1}
    BY QueueStep
  <2>3. \A f \in Made' : Before(Range(f.evs), Range(batch') \cup Range(queue'))
    BY <1>b, <2>1, <2>2 DEF Before
  <2>4. \A f, g \in Made' : f.id < g.id => Before(Range(f.evs), Range(g.evs))
    BY <1>c, <2>1
  <2>5. \A i \in issued' : \A j \in Nat \ {0} : j < i => j \in issued'
    BY <2>1 DEF OrderInv
  <2> QED BY <1>a, <2>3, <2>4, <2>5 DEF OrderInv, Before
<1> QED BY <1>1, <1>2

\* Only trimSpool gives events up as evicted.
LEMMA EvictionsByTrim ==
    ASSUME SafeInv, [Next]_vars, gone'["spool_evict"] # gone["spool_evict"]
    PROVE  TrimOldest /\ spool' # spool
<1>1. gone \in [Fates -> SUBSET Nat] /\ "spool_evict" \in Fates
  BY DEF SafeInv, TypeInv, TypeOK, Fates
<1>2. ASSUME NEW why \in Fates \ {"spool_evict"}, NEW evs, Give(why, evs) PROVE FALSE
  BY <1>1, <1>2 DEF Give
<1>3. ASSUME NEW why \in Fates \ {"spool_evict"}, NEW f, GiveIfRemoved(why, f) PROVE FALSE
  BY <1>2, <1>3 DEF GiveIfRemoved
<1>4. /\ \A evs : ~Give("queue_full", evs) /\ ~Give("permanent", evs)
                   /\ ~Give("spool_write", evs) /\ ~Give("unreported", evs)
                   /\ ~Give("exit", evs)
      /\ \A f : ~GiveIfRemoved("unreported", f)
  BY <1>2, <1>3 DEF Fates
<1>5. gone' # gone
  OBVIOUS
<1>6. TrimOldest
  BY <1>4, <1>5
     DEF Next, Run, Environment, Continue, RetrySpool, Flush, Spool, Drain, vars,
         Boot, TakeEvent, Tick, BeginDrain, PassEnds, DiscardForeign,
         DiscardUnreadable, Replay, ReplayAcked, ReplayRejected, ReplayFailed,
         EncodeFailed, Encode, Acked, Rejected, Failed, Backoff, SpoolRefused,
         SpoolCreate, WriteFailed, Written, RenameFailed, Renamed, TrimEnds,
         DrainEvent, DrainChunk, Stop, Enqueue, CollectorStops, ReceiverTakes, Cancel,
         BudgetElapses, ProcessEnds, Restart, history, world
<1> QED BY <1>5, <1>6 DEF TrimOldest, GiveIfRemoved

\* trimSpool gives up batches only while the spool is over its budget, and the
\* oldest events first, none newer than one it keeps: on a disk that deletes what it
\* is told to and as long as the ids of batches ascend.  newBatchID does not ensure
\* that when the clock steps back, nor for batches of one millisecond, whose order
\* in the name is that of a random suffix, as those that a drain spools at once.
THEOREM EvictionIsOldestFirst ==
    ASSUME IdsAscend, "remove" \notin Faults,
           "foreign" \in Faults => MaxSpool >= 1
    PROVE  Spec => EvictsOldestOnly
<1> DEFINE Evicts == gone'["spool_evict"] # gone["spool_evict"] =>
                       /\ TotalSize(spool) > MaxSpool
                       /\ \A f \in spool \ spool', g \in spool' :
                             \A d \in Range(f.evs), e \in Range(g.evs) : d < e
<1>1. Init => SafeInv /\ BudgetInv /\ OrderInv
  BY SafeInit, BudgetInit, OrderInit
<1>2. SafeInv /\ BudgetInv /\ OrderInv /\ [Next]_vars => SafeInv' /\ BudgetInv' /\ OrderInv'
  BY SafeStep, BudgetStep, OrderStep
<1>3. SafeInv /\ BudgetInv /\ OrderInv /\ [Next]_vars => [Evicts]_vars
  <2> SUFFICES ASSUME SafeInv, BudgetInv, OrderInv, [Next]_vars,
                      gone'["spool_evict"] # gone["spool_evict"]
               PROVE  /\ TotalSize(spool) > MaxSpool
                      /\ \A f \in spool \ spool', g \in spool' :
                            \A d \in Range(f.evs), e \in Range(g.evs) : d < e
    OBVIOUS
  <2>1. TrimOldest
    BY EvictionsByTrim
  <2>2. TotalSize(spool) > MaxSpool
    <3>1. TotalSize(spool) \in Nat /\ MaxSpool \in Nat
      BY SizesOfFiles, SizeFacts, ConstantsAssumption DEF BudgetInv
    <3> QED BY <2>1, <3>1 DEF TrimOldest, Trimmed
  <2>3. PICK o \in Oldest(spool) : spool' = spool \ {o}
    BY <2>1 DEF TrimOldest, RemoveFile, BudgetInv
  <2>4. ASSUME NEW g \in spool', NEW d \in Range(o.evs), NEW e \in Range(g.evs)
        PROVE  d < e
    <3>1. o \in spool /\ g \in spool /\ o # g /\ o.id <= g.id
      BY <2>3 DEF Oldest
    <3>2. o \in Made /\ g \in Made
      <4>1. Range(<<>>) = {}
        BY DEF Range
      <4> QED BY <2>4, <3>1, <4>1 DEF SafeInv, WholeBatches, Made, Whole
    <3>3. o.id \in Nat /\ g.id \in Nat
      BY <3>2 DEF SafeInv, WholeBatches, TypeInv, TypeOK
    <3>4. o.id < g.id
      BY <3>1, <3>2, <3>3 DEF SafeInv, UniqueBatches
    <3> QED BY <2>4, <3>2, <3>4 DEF OrderInv, Before
  <2> QED BY <2>2, <2>3, <2>4
<1> QED BY <1>1, <1>2, <1>3, PTL DEF Spec, EvictsOldestOnly
=============================================================================
