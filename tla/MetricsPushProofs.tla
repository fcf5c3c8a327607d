-------------------------- MODULE MetricsPushProofs --------------------------
(***************************************************************************)
(* Safety of the metrics pusher for every bound of the spool, set of       *)
(* managers, faults and refused items: type correctness, and the inductive *)
(* invariant behind ItemsAccounted and DroppedForGood; the spool's bound,  *)
(* the order in which it is emptied, and the refinement of Telemetry.      *)
(***************************************************************************)
EXTENDS MetricsPushRefinement, Sums

-----------------------------------------------------------------------------
(* The inductive invariant *)

\* What the code relies on at each place: a loop walks files of the directory
\* it is in, payloads wait only while sendInventory runs, and the file being
\* replayed or written is there.
Control ==
    /\ todo # {} => pc \in {"replay", "resend", "trim"}
    /\ pc \in {"replay", "resend"} => todo \subseteq spool["metrics"]
    /\ pc = "trim" => todo \subseteq spool[dir]
    /\ pc = "send" => dir = "metrics"
    /\ pc = "posting" => dir = "inventory"
    /\ pc \in {"spool", "write", "trim"} =>
          stage # "start" /\ (dir = "inventory" => stage = "push")
    /\ outgoing # {} =>
          \/ pc \in {"post", "posting"}
          \/ pc \in {"spool", "write", "trim"} /\ dir = "inventory"
    /\ pc = "resend" => cur \in spool["metrics"]
    /\ pc = "write" => cur \in spool[dir] /\ ~cur.whole

\* Inductive for types: what a request carries has been made.
TypeInv == TypeOK /\ Control /\ ItemsAccounted

\* An item is held in one place, and by one file; a scan to come will find
\* items of its own.
OnePlace ==
    /\ InHand \cap (outgoing \cup pending \cup Stored) = {}
    /\ outgoing \cap (pending \cup Stored) = {}
    /\ pending \cap Stored = {}
    /\ Held(spool["metrics"]) \cap Held(spool["inventory"]) = {}
    /\ \A d \in Dirs : \A f, g \in spool[d] :
          f.whole /\ g.whole /\ f.item = g.item => f = g
    /\ \A i \in made : i[2] # 0 => i[1] <= scans

SafeInv == TypeInv /\ OnePlace /\ DroppedForGood

\* It holds when the agent is installed.
LEMMA SafeInit == Init => SafeInv
<1> SUFFICES ASSUME Init PROVE SafeInv
  OBVIOUS
<1> USE DEF Init
<1>1. /\ Nothing \in File /\ 0 \in 0..MaxScans /\ 0 \in 0..MaxRestarts
      /\ Item = Nat \X Nat
  BY PushAssumption DEF Nothing, Payload, File, Item
<1>2. TypeOK
  BY <1>1 DEF TypeOK, Dirs, Fates
<1>3. Control
  BY DEF Control
<1>4. /\ Held({}) = {} /\ InHand = {} /\ InMemory = {} /\ Stored = {}
      /\ Held(spool["metrics"]) = {} /\ Held(spool["inventory"]) = {}
  BY DEF Held, InHand, InMemory, Stored, Dirs
<1>5. Dropped = {} /\ \A w \in Fates : dropped[w] = {}
  BY DEF Dropped
<1>6. ItemsAccounted /\ DroppedForGood
  BY <1>4, <1>5 DEF ItemsAccounted, DroppedForGood
<1>7. OnePlace
  BY <1>4 DEF OnePlace, Dirs
<1> QED BY <1>2, <1>3, <1>6, <1>7 DEF SafeInv, TypeInv

-----------------------------------------------------------------------------
(* Dropping and removing *)

\* Drop adds exactly the items it is given.
LEMMA DropAdds ==
    ASSUME dropped \in [Fates -> SUBSET made], NEW why \in Fates, NEW items,
           Drop(why, items)
    PROVE  /\ Dropped' = Dropped \cup items
           /\ \A w \in Fates : dropped'[w] = IF w = why THEN dropped[w] \cup items
                                                        ELSE dropped[w]
           /\ DOMAIN dropped' = Fates
<1>1. \A w \in Fates : dropped'[w] = IF w = why THEN dropped[w] \cup items
                                                ELSE dropped[w]
  BY DEF Drop
<1>2. Dropped' = Dropped \cup items
  BY <1>1, Zenon DEF Dropped
<1> QED BY <1>1, <1>2 DEF Drop

\* A removal changes one directory, by at most the file.
LEMMA RemoveShrinks ==
    ASSUME spool \in [Dirs -> SUBSET File], NEW d \in Dirs, NEW f, Remove(d, f)
    PROVE  /\ spool' \in [Dirs -> SUBSET File]
           /\ spool'[d] \subseteq spool[d] /\ spool[d] \ spool'[d] \subseteq {f}
           /\ \A e \in Dirs : e # d => spool'[e] = spool[e]
           /\ stuck' \in {stuck, stuck \cup {f}}
  BY DEF Remove

\* Held by directory.
LEMMA HeldIs ==
    ASSUME NEW S, NEW i
    PROVE  i \in Held(S) <=> \E f \in S : f.whole /\ f.item = i
  BY DEF Held

-----------------------------------------------------------------------------
(* Types *)

\* What is in memory or in a file has been made.
LEMMA HeldWasMade ==
    ASSUME ItemsAccounted
    PROVE  /\ InHand \subseteq made /\ outgoing \subseteq made
           /\ pending \subseteq made /\ Dropped \subseteq made
           /\ \A d \in Dirs : Held(spool[d]) \subseteq made
  BY DEF ItemsAccounted, InMemory, Stored, Dirs

\* No step leaves a loop with files of another directory, or payloads behind.
LEMMA ControlStep == TypeInv /\ [Next]_vars => Control'
<1> SUFFICES ASSUME TypeInv, [Next]_vars PROVE Control'
  OBVIOUS
<1>t. TypeOK /\ Control /\ dir \in Dirs /\ spool \in [Dirs -> SUBSET File]
  BY DEF TypeInv, TypeOK
<1> USE <1>t DEF Control, Dirs
<1>1. CASE Boot \/ Tick \/ Flush
  BY <1>1 DEF Boot, Tick, Flush, BeginReplay, Listed, disk
<1>2. CASE ReplayEnds \/ Replay \/ ResendFails
  BY <1>2 DEF ReplayEnds, AfterReplay, Replay, Oldest, ResendFails, disk
<1>3. CASE Discard
  <2>1. PICK f \in Oldest(todo) : Remove("metrics", f) /\ todo' = todo \ {f}
    BY <1>3 DEF Discard
  <2>2. /\ spool[ "metrics" ] \ spool'["metrics"] \subseteq {f}
        /\ spool'["inventory"] = spool["inventory"]
    BY <2>1, RemoveShrinks
  <2> QED BY <1>3, <2>1, <2>2 DEF Discard
<1>4. CASE Resent
  <2>1. /\ spool[ "metrics" ] \ spool'["metrics"] \subseteq {cur}
        /\ spool'["inventory"] = spool["inventory"]
    BY <1>4, RemoveShrinks DEF Resent
  <2> QED BY <1>4, <2>1 DEF Resent
<1>5. CASE Gather \/ GatherFails \/ GatherMore \/ Sent \/ SendFails
  BY <1>5 DEF Gather, GatherFails, GatherMore, Sent, SendFails, Unsent,
              AfterSample, TypeOK, disk
<1>6. CASE SpoolRefused \/ WriteFails
  BY <1>6 DEF SpoolRefused, WriteFails, AfterSpool, AfterSample, disk
<1>7. CASE Create
  <2>1. PICK t : LET old  == {f \in spool[dir] : f.name = t}
                     torn == [cur EXCEPT !.name = t, !.whole = FALSE]
                 IN  /\ cur' = torn
                     /\ spool' = [spool EXCEPT ![dir] = (@ \ old) \cup {torn}]
    BY <1>7 DEF Create
  <2>2. cur' \in spool'[dir] /\ ~cur'.whole
    <3>1. cur \in File
      BY DEF TypeOK
    <3> QED BY <2>1, <3>1 DEF File
  <2> QED BY <1>7, <2>2 DEF Create
<1>8. CASE Write
  <2>1. todo' \subseteq spool'[dir]
    BY <1>8 DEF Write, Excess
  <2> QED BY <1>8, <2>1 DEF Write
<1>9. CASE Trim
  <2>1. PICK f \in Oldest(todo) : Remove(dir, f) /\ todo' = todo \ {f}
    BY <1>9 DEF Trim
  <2>2. spool[dir] \ spool'[dir] \subseteq {f}
    BY <2>1, RemoveShrinks
  <2> QED BY <1>9, <2>1, <2>2 DEF Trim
<1>10. CASE TrimEnds \/ TakeInventory \/ Post \/ Posted \/ PostFails \/ PushEnds
  BY <1>10 DEF TrimEnds, TakeInventory, Post, Posted, PostFails, PushEnds,
               AfterSpool, AfterSample, TypeOK, disk
<1>11. CASE Scan \/ ReceiverTakes \/ Cancel \/ ProcessEnds \/ Restart
              \/ UNCHANGED vars
  BY <1>11 DEF Scan, ReceiverTakes, Cancel, ProcessEnds, Restart, vars, pusher,
               disk
<1> QED
  BY <1>1, <1>2, <1>3, <1>4, <1>5, <1>6, <1>7, <1>8, <1>9, <1>10, <1>11
     DEF Next, Continue, RetrySpool, Sample, SpoolFile, SendInventory

\* Every step keeps the types.
LEMMA TypeStep == TypeInv /\ Control' /\ [Next]_vars => TypeOK'
<1> SUFFICES ASSUME TypeInv, Control', [Next]_vars PROVE TypeOK'
  OBVIOUS
<1>t. TypeOK /\ Control /\ ItemsAccounted
  BY DEF TypeInv
<1>n. Nothing \in File /\ \A i \in Item : Payload(i) \in File
  BY DEF Nothing, Payload, File, Item
<1>m. /\ InHand \subseteq made /\ outgoing \subseteq made /\ pending \subseteq made
      /\ \A d \in Dirs : Held(spool[d]) \subseteq made
  BY <1>t, HeldWasMade
<1>c. cur \in File /\ cur.item \in Item
  BY <1>t DEF TypeOK, File
<1> USE <1>t, <1>n, <1>m, <1>c DEF TypeOK
<1>1. CASE Boot \/ Tick \/ Flush
  BY <1>1 DEF Boot, Tick, Flush, BeginReplay, Listed, disk, collector, history
<1>2. CASE ReplayEnds \/ ResendFails
  BY <1>2 DEF ReplayEnds, AfterReplay, ResendFails, disk, collector, history
<1>2a. CASE Replay
  <2>1. cur' \in File
    BY <1>2a DEF Replay, Oldest, Control, Dirs
  <2> QED BY <1>2a, <2>1 DEF Replay, disk, collector, history
<1>3. CASE Discard
  <2>1. PICK f \in Oldest(todo) :
           /\ Remove("metrics", f) /\ todo' = todo \ {f}
           /\ Drop("unreadable", Held(spool["metrics"]) \ Held(spool'["metrics"]))
    BY <1>3 DEF Discard
  <2>2. spool' \in [Dirs -> SUBSET File] /\ stuck' \subseteq File
    BY <2>1, RemoveShrinks DEF Dirs, Oldest
  <2>3. dropped' \in [Fates -> SUBSET made]
    BY <2>1 DEF Drop, Dirs, Fates
  <2>4. todo' \subseteq spool'["metrics"]
    BY <1>3 DEF Discard, Control
  <2> QED BY <1>3, <2>2, <2>3, <2>4 DEF Discard, collector, Dirs
<1>4. CASE Resent
  <2>1. spool' \in [Dirs -> SUBSET File] /\ stuck' \subseteq File
    BY <1>4, RemoveShrinks DEF Resent, Dirs
  <2>2. todo' \subseteq spool'["metrics"]
    BY <1>4 DEF Resent, Control
  <2> QED BY <1>4, <2>1, <2>2 DEF Resent, collector
<1>5. CASE Gather
  <2>1. PICK n \in 1..MaxSamples : /\ made' = made \cup {<<n, 0>>}
                                   /\ cur' = Payload(<<n, 0>>)
    BY <1>5 DEF Gather
  <2>2. <<n, 0>> \in Item
    <3> HIDE <1>t, <1>n, <1>m, <1>c DEF TypeOK
    <3> QED BY PushAssumption DEF Item
  <2>2a. cur' \in File
    BY <2>1, <2>2
  <2>3. dropped' \in [Fates -> SUBSET made']
    BY <1>5, <2>1 DEF Gather
  <2> QED BY <1>5, <2>1, <2>2, <2>2a, <2>3 DEF Gather, collector, disk, Dirs, Control
<1>6. CASE GatherFails \/ GatherMore \/ Sent \/ SendFails
  BY <1>6 DEF GatherFails, GatherMore, Sent, SendFails, Unsent, AfterSample,
              disk, collector, history, Control
<1>7. CASE SpoolRefused \/ WriteFails
  <2>1. cur.item \in made
    BY <1>7 DEF SpoolRefused, WriteFails, InHand
  <2>2. dropped' \in [Fates -> SUBSET made]
    BY <1>7, <2>1 DEF SpoolRefused, WriteFails, Drop, Fates
  <2> QED
    BY <1>7, <2>2 DEF SpoolRefused, WriteFails, AfterSpool, AfterSample, disk,
                      collector, history, Control, Dirs
<1>8. CASE Create
  <2>1. PICK t \in {clock + 1} \cup ({clock} \cap {f.name : f \in spool[dir]}) :
           LET old  == {f \in spool[dir] : f.name = t}
               torn == [cur EXCEPT !.name = t, !.whole = FALSE]
           IN  /\ clock' = t /\ cur' = torn
               /\ spool' = [spool EXCEPT ![dir] = (@ \ old) \cup {torn}]
               /\ Drop("overwritten", Held(old))
    BY <1>8 DEF Create
  <2> DEFINE old == {f \in spool[dir] : f.name = t}
  <2>2. t \in Nat
    <3>1. \A f \in spool[dir] : f.name \in Nat
      BY DEF File
    <3> QED BY <3>1
  <2>2a. cur' \in File
    BY <2>1, <2>2 DEF File
  <2>3. spool' \in [Dirs -> SUBSET File]
    BY <2>1, <2>2a
  <2>4. Held(old) \subseteq made
    BY DEF Held
  <2>5. dropped' \in [Fates -> SUBSET made]
    BY <2>1, <2>4 DEF Drop
  <2>6. todo = {}
    BY <1>8 DEF Create, Control
  <2> HIDE DEF old
  <2> QED BY <1>8, <2>1, <2>2, <2>2a, <2>3, <2>5, <2>6 DEF Create, collector, history
<1>9. CASE Write
  <2>1. [cur EXCEPT !.whole = TRUE] \in File
    BY DEF File
  <2>2. spool' \in [Dirs -> SUBSET File] /\ todo' \subseteq spool'[dir]
    BY <1>9, <2>1 DEF Write, Excess
  <2> QED BY <1>9, <2>2 DEF Write, collector, history
<1>10. CASE Trim
  <2>1. PICK f \in Oldest(todo) :
           /\ Remove(dir, f) /\ todo' = todo \ {f}
           /\ Drop("trimmed", Held(spool[dir]) \ Held(spool'[dir]))
    BY <1>10 DEF Trim
  <2>2. spool' \in [Dirs -> SUBSET File] /\ stuck' \subseteq File
    <3>1. f \in File
      BY <1>10 DEF Trim, Oldest, Control
    <3> QED BY <2>1, <3>1, RemoveShrinks
  <2>3. dropped' \in [Fates -> SUBSET made]
    BY <2>1 DEF Drop, Fates
  <2>4. todo' \subseteq spool'[dir]
    BY <1>10 DEF Trim, Control
  <2> QED BY <1>10, <2>2, <2>3, <2>4 DEF Trim, collector
<1>11. CASE TrimEnds
  BY <1>11 DEF TrimEnds, AfterSpool, AfterSample, disk, collector, history,
               Control, Dirs
<1>11a. CASE Posted \/ PostFails \/ PushEnds
  BY <1>11a DEF Posted, PostFails, PushEnds, disk, collector, history, Control
<1>12. CASE TakeInventory
  BY <1>12 DEF TakeInventory, Emptied, disk, history
<1>13. CASE Post
  <2>1. PICK p \in outgoing : cur' = Payload(p) /\ posted' = posted \cup {p}
    BY <1>13 DEF Post
  <2> QED BY <1>13, <2>1 DEF Post, disk, collector, Control, Dirs
<1>14. CASE Scan
  <2>1. PICK ok \in SUBSET Managers : /\ pending' = {scans + 1} \X ok
                                      /\ made' = made \cup ({scans + 1} \X ok)
    BY <1>14 DEF Scan
  <2>2. {scans + 1} \X ok \subseteq Item
    <3>1. ok \subseteq Nat /\ scans + 1 \in Nat
      BY PushAssumption
    <3> HIDE <1>t, <1>n, <1>m, <1>c DEF TypeOK
    <3> QED BY <3>1 DEF Item
  <2>3. dropped' \in [Fates -> SUBSET made']
    BY <1>14, <2>1 DEF Scan, Drop
  <2>4. scans' \in 0..MaxScans
    BY <1>14, PushAssumption DEF Scan
  <2> QED BY <1>14, <2>1, <2>2, <2>3, <2>4 DEF Scan, pusher, disk
<1>15. CASE ReceiverTakes
  <2>1. cur.item \in made
    <3>1. CASE pc = "resend"
      <4>1. cur \in spool["metrics"] /\ cur.whole
        BY <1>15, <3>1 DEF ReceiverTakes, Refused, Control
      <4> QED BY <4>1 DEF Held, Dirs
    <3> QED BY <1>15, <3>1 DEF ReceiverTakes, InHand
  <2> QED BY <1>15, <2>1 DEF ReceiverTakes, pusher, collector, disk, history
<1>16. CASE ProcessEnds
  <2>1. InMemory \subseteq made
    BY DEF InMemory
  <2>2. dropped' \in [Fates -> SUBSET made]
    BY <1>16, <2>1 DEF ProcessEnds, Drop
  <2> QED BY <1>16, <2>2 DEF ProcessEnds, disk, history
<1>17. CASE Restart
  <2>1. restarts' \in 0..MaxRestarts
    BY <1>17, PushAssumption DEF Restart
  <2> QED BY <1>17, <2>1 DEF Restart, disk, collector, history
<1>18. CASE Cancel \/ UNCHANGED vars
  BY <1>18 DEF Cancel, vars, pusher, collector, disk, history
<1> QED
  BY <1>1, <1>2, <1>2a, <1>3, <1>4, <1>5, <1>6, <1>7, <1>8, <1>9, <1>10, <1>11,
     <1>11a, <1>12, <1>13, <1>14, <1>15, <1>16, <1>17, <1>18
     DEF Next, Continue, RetrySpool, Sample, SpoolFile, SendInventory

-----------------------------------------------------------------------------
(* The account *)

Holding == InMemory \cup Stored

\* A step keeps the account if what it stops holding is dropped or received,
\* and what it adds is new.
LEMMA Account ==
    ASSUME ItemsAccounted, DroppedForGood, dropped \in [Fates -> SUBSET made],
           NEW lost, lost \subseteq Holding,
           NEW new, new \cap made = {}, made' = made \cup new,
           received \subseteq received', received' \subseteq made,
           Holding' \subseteq (Holding \ lost) \cup new,
           (Holding \ (lost \cup received')) \cup new \subseteq Holding',
           \/ lost = {} /\ UNCHANGED dropped
           \/ \E why \in Fates : Drop(why, lost)
    PROVE  ItemsAccounted' /\ DroppedForGood'
<1>1. \A v \in Fates : dropped[v] \subseteq Dropped
  BY DEF Dropped
<1>2. /\ made = Holding \cup received \cup Dropped
      /\ Dropped \cap Holding = {}
      /\ \A v, w \in Fates : v # w => dropped[v] \cap dropped[w] = {}
  BY DEF ItemsAccounted, DroppedForGood, Holding
<1>3. /\ Dropped' = Dropped \cup lost
      /\ \A v, w \in Fates : v # w => dropped'[v] \cap dropped'[w] = {}
  <2>1. CASE lost = {} /\ UNCHANGED dropped
    BY <2>1, <1>2 DEF Dropped
  <2>2. CASE \E why \in Fates : Drop(why, lost)
    <3>1. PICK why \in Fates : Drop(why, lost)
      BY <2>2
    <3>2. /\ Dropped' = Dropped \cup lost
          /\ \A w \in Fates : dropped'[w] = IF w = why THEN dropped[w] \cup lost
                                                       ELSE dropped[w]
      BY <3>1, DropAdds
    <3> QED BY <3>2, <1>1, <1>2
  <2> QED BY <2>1, <2>2
<1>4. made' = Holding' \cup received' \cup Dropped'
  BY <1>2, <1>3
<1>5. Dropped' \cap Holding' = {}
  BY <1>2, <1>3
<1> QED BY <1>3, <1>4, <1>5 DEF ItemsAccounted, DroppedForGood, Holding

\* The special case of most steps: nothing new, nothing dropped.
LEMMA AccountKept ==
    ASSUME SafeInv, UNCHANGED <<made, dropped>>,
           received \subseteq received', received' \subseteq made,
           Holding' \subseteq Holding, Holding \ received' \subseteq Holding'
    PROVE  ItemsAccounted' /\ DroppedForGood'
<1> DEFINE none == {}
<1>1. none \subseteq Holding /\ none \cap made = {} /\ made' = made \cup none
  OBVIOUS
<1>2. /\ ItemsAccounted /\ DroppedForGood /\ dropped \in [Fates -> SUBSET made]
  BY DEF SafeInv, TypeInv, TypeOK
<1>3. /\ Holding' \subseteq (Holding \ none) \cup none
      /\ (Holding \ (none \cup received')) \cup none \subseteq Holding'
      /\ none = {} /\ UNCHANGED dropped
  OBVIOUS
<1> HIDE DEF none
<1> QED BY <1>1, <1>2, <1>3, Account

-----------------------------------------------------------------------------
(* Steps by what they do to the places of an item *)

\* Steps that move nothing.
LEMMA NothingMoves ==
    ASSUME SafeInv,
           UNCHANGED <<outgoing, pending, spool, made, dropped, scans>>,
           InHand' = InHand, received \subseteq received', received' \subseteq made
    PROVE  OnePlace' /\ ItemsAccounted' /\ DroppedForGood'
<1>1. Stored' = Stored /\ Holding' = Holding
  BY DEF Stored, Holding, InMemory
<1>2. OnePlace'
  BY <1>1 DEF SafeInv, OnePlace
<1> QED BY <1>1, <1>2, AccountKept

\* What a removal does to the items in files.
LEMMA RemoveHeld ==
    ASSUME SafeInv, NEW d \in Dirs, NEW f, Remove(d, f),
           UNCHANGED <<outgoing, pending, made, scans>>, InHand = {}, InHand' = {}
    PROVE  LET lost == Held(spool[d]) \ Held(spool'[d])
           IN  /\ OnePlace'
               /\ lost \subseteq Holding /\ Holding' = Holding \ lost
               /\ lost \subseteq {f.item}
<1> DEFINE lost == Held(spool[d]) \ Held(spool'[d])
<1>1. /\ spool'[d] \subseteq spool[d] /\ spool[d] \ spool'[d] \subseteq {f}
      /\ \A e \in Dirs : e # d => spool'[e] = spool[e]
  BY RemoveShrinks DEF SafeInv, TypeInv, TypeOK
<1>2. Held(spool'[d]) \subseteq Held(spool[d]) /\ lost \subseteq {f.item}
  BY <1>1 DEF Held
<1>3. OnePlace
  BY DEF SafeInv
<1>4. Stored' = Stored \ lost /\ lost \subseteq Stored
  <2>1. CASE d = "metrics"
    <3>1. spool'["inventory"] = spool["inventory"]
      BY <1>1, <2>1 DEF Dirs
    <3> QED BY <2>1, <3>1, <1>2, <1>3 DEF Stored, OnePlace
  <2>2. CASE d = "inventory"
    <3>1. spool'["metrics"] = spool["metrics"]
      BY <1>1, <2>2 DEF Dirs
    <3> QED BY <2>2, <3>1, <1>2, <1>3 DEF Stored, OnePlace
  <2> QED BY <2>1, <2>2 DEF Dirs
<1>5. \A e \in Dirs : /\ spool'[e] \subseteq spool[e]
                      /\ Held(spool'[e]) \subseteq Held(spool[e])
  BY <1>1, <1>2
<1>6. OnePlace'
  <2>1. Held(spool'["metrics"]) \cap Held(spool'["inventory"]) = {}
    BY <1>3, <1>5 DEF OnePlace, Dirs
  <2>2. \A e \in Dirs : \A g, h \in spool'[e] :
           g.whole /\ h.whole /\ g.item = h.item => g = h
    BY <1>3, <1>5 DEF OnePlace
  <2> QED BY <2>1, <2>2, <1>3, <1>4 DEF OnePlace
<1>7. lost \cap InMemory = {}
  BY <1>3, <1>4 DEF OnePlace, InMemory
<1>8. lost \subseteq Holding /\ Holding' = Holding \ lost
  BY <1>4, <1>7 DEF Holding, InMemory
<1> QED BY <1>2, <1>6, <1>8

\* Creating a file in place of one of the same name.
LEMMA CreateStep ==
    ASSUME SafeInv, Create
    PROVE  OnePlace' /\ ItemsAccounted' /\ DroppedForGood'
<1>1. PICK t : LET old  == {f \in spool[dir] : f.name = t}
                   torn == [cur EXCEPT !.name = t, !.whole = FALSE]
               IN  /\ cur' = torn
                   /\ spool' = [spool EXCEPT ![dir] = (@ \ old) \cup {torn}]
                   /\ Drop("overwritten", Held(old))
  BY DEF Create
<1> DEFINE old == {f \in spool[dir] : f.name = t}
           lost == Held(old)
<1>2. TypeOK /\ Control /\ OnePlace /\ dir \in Dirs /\ cur \in File
  BY DEF SafeInv, TypeInv, TypeOK
<1>3. spool'[dir] = (spool[dir] \ old) \cup {cur'} /\ ~cur'.whole
      /\ cur'.item = cur.item
  BY <1>1, <1>2 DEF TypeOK, File
<1>4. \A e \in Dirs : e # dir => spool'[e] = spool[e]
  BY <1>1, <1>2 DEF TypeOK
<1>5. Held(spool'[dir]) = Held(spool[dir]) \ lost /\ lost \subseteq Held(spool[dir])
  BY <1>2, <1>3 DEF Held, OnePlace
<1>6. InHand' = InHand
  BY <1>3 DEF Create, InHand
<1>7. Stored' = Stored \ lost /\ lost \subseteq Stored
  <2>1. CASE dir = "metrics"
    BY <2>1, <1>2, <1>4, <1>5 DEF Stored, Dirs, OnePlace
  <2>2. CASE dir = "inventory"
    BY <2>2, <1>2, <1>4, <1>5 DEF Stored, Dirs, OnePlace
  <2> QED BY <1>2, <2>1, <2>2 DEF Dirs
<1>8. OnePlace'
  <2>1. \A e \in Dirs : Held(spool'[e]) \subseteq Held(spool[e])
    BY <1>4, <1>5
  <2>2. Held(spool'["metrics"]) \cap Held(spool'["inventory"]) = {}
    BY <1>2, <2>1 DEF OnePlace, Dirs
  <2>3. \A e \in Dirs : \A g \in spool'[e] : g.whole => g \in spool[e]
    BY <1>3, <1>4
  <2>4. \A e \in Dirs : \A g, h \in spool'[e] :
           g.whole /\ h.whole /\ g.item = h.item => g = h
    BY <1>2, <2>3 DEF OnePlace
  <2> QED BY <2>2, <2>4, <1>2, <1>6, <1>7 DEF OnePlace, Create, collector, history
<1>9. Holding' = Holding \ lost /\ lost \subseteq Holding
  <2>1. lost \cap InMemory = {}
    BY <1>2, <1>7 DEF OnePlace, InMemory
  <2>2. InMemory' = InMemory
    BY <1>6 DEF Create, InMemory, collector
  <2> QED BY <2>1, <2>2, <1>7 DEF Holding
<1>10. ItemsAccounted' /\ DroppedForGood'
  <2>1. /\ ItemsAccounted /\ DroppedForGood /\ dropped \in [Fates -> SUBSET made]
        /\ received \subseteq made /\ made' = made /\ received' = received
    BY DEF SafeInv, TypeInv, TypeOK, Create, history
  <2>2. \E why \in Fates : Drop(why, lost)
    BY <1>1 DEF Fates
  <2> DEFINE none == {}
  <2>3. none \cap made = {} /\ made' = made \cup none
        /\ Holding' \subseteq (Holding \ lost) \cup none
        /\ (Holding \ (lost \cup received')) \cup none \subseteq Holding'
    BY <2>1, <1>9
  <2> HIDE DEF none, lost
  <2> QED BY <2>1, <2>2, <2>3, <1>9, Account
<1> QED BY <1>8, <1>10

\* Completing a file: the item goes from memory to the spool.
LEMMA WriteStep ==
    ASSUME SafeInv, Write
    PROVE  OnePlace' /\ ItemsAccounted' /\ DroppedForGood'
<1> DEFINE whole == [cur EXCEPT !.whole = TRUE]
<1>2. /\ TypeOK /\ Control /\ OnePlace /\ dir \in Dirs /\ cur \in File
      /\ ~cur.whole /\ InHand = {cur.item} /\ InHand' = {}
  BY DEF SafeInv, TypeInv, TypeOK, Control, Write, InHand
<1>3. /\ spool'[dir] = (spool[dir] \ {cur}) \cup {whole}
      /\ whole.whole /\ whole.item = cur.item
  BY <1>2 DEF Write, TypeOK, File
<1>4. \A e \in Dirs : e # dir => spool'[e] = spool[e]
  BY <1>2 DEF Write, TypeOK
<1> HIDE DEF whole
<1>5. Held(spool'[dir]) = Held(spool[dir]) \cup {cur.item}
  BY <1>2, <1>3 DEF Held
<1>6. Stored' = Stored \cup {cur.item} /\ cur.item \notin Stored
  <2>1. CASE dir = "metrics"
    BY <2>1, <1>2, <1>4, <1>5 DEF Stored, Dirs, OnePlace
  <2>2. CASE dir = "inventory"
    BY <2>2, <1>2, <1>4, <1>5 DEF Stored, Dirs, OnePlace
  <2> QED BY <1>2, <2>1, <2>2 DEF Dirs
<1>7. \A e \in Dirs : \A g \in spool[e] : g.whole => g.item # cur.item
  BY <1>6 DEF Stored, Held, Dirs
<1>8. OnePlace'
  <2>1. Held(spool'["metrics"]) \cap Held(spool'["inventory"]) = {}
    <3>1. CASE dir = "metrics"
      BY <3>1, <1>2, <1>4, <1>5, <1>6 DEF OnePlace, Dirs, Stored
    <3>2. CASE dir = "inventory"
      BY <3>2, <1>2, <1>4, <1>5, <1>6 DEF OnePlace, Dirs, Stored
    <3> QED BY <1>2, <3>1, <3>2 DEF Dirs
  <2>2. \A e \in Dirs : \A g, h \in spool'[e] :
           g.whole /\ h.whole /\ g.item = h.item => g = h
    BY <1>2, <1>3, <1>4, <1>7 DEF OnePlace
  <2> QED BY <2>1, <2>2, <1>2, <1>6 DEF OnePlace, Write, collector, history
<1>9. Holding' = Holding
  BY <1>2, <1>6 DEF Holding, InMemory, Write, collector
<1> QED BY <1>8, <1>9, AccountKept DEF SafeInv, TypeInv, TypeOK, Write, history

\* An item in memory is given up.
LEMMA GiveUpStep ==
    ASSUME SafeInv, SpoolRefused \/ WriteFails
    PROVE  OnePlace' /\ ItemsAccounted' /\ DroppedForGood'
<1>1. /\ InHand = {cur.item} /\ InHand' = {} /\ Drop("write", InHand)
      /\ UNCHANGED <<outgoing, pending, scans, spool, made, received>>
  BY DEF SpoolRefused, WriteFails, InHand, AfterSpool, AfterSample, disk,
         collector, history
<1>2. OnePlace /\ Stored' = Stored
  BY <1>1 DEF SafeInv, Stored
<1>3. OnePlace'
  BY <1>1, <1>2 DEF OnePlace
<1>4. InHand \subseteq Holding /\ Holding' = Holding \ InHand
  BY <1>1, <1>2 DEF OnePlace, Holding, InMemory
<1>5. ItemsAccounted' /\ DroppedForGood'
  <2>1. /\ ItemsAccounted /\ DroppedForGood /\ dropped \in [Fates -> SUBSET made]
        /\ received \subseteq made
    BY DEF SafeInv, TypeInv, TypeOK
  <2>2. \E why \in Fates : Drop(why, InHand)
    BY <1>1 DEF Fates
  <2> DEFINE none == {}
  <2>3. none \cap made = {} /\ made' = made \cup none
        /\ Holding' \subseteq (Holding \ InHand) \cup none
        /\ (Holding \ (InHand \cup received')) \cup none \subseteq Holding'
        /\ received \subseteq received' /\ received' \subseteq made
    BY <1>1, <1>4, <2>1
  <2> HIDE DEF none
  <2> QED BY <2>1, <2>2, <2>3, <1>4, Account
<1> QED BY <1>3, <1>5

\* The end of the process: all that is in memory is given up.
LEMMA EndStep ==
    ASSUME SafeInv, ProcessEnds
    PROVE  OnePlace' /\ ItemsAccounted' /\ DroppedForGood'
<1>1. /\ Drop("exit", InMemory) /\ InMemory' = {} /\ Stored' = Stored
      /\ outgoing' = {} /\ pending' = {} /\ InHand' = {}
      /\ UNCHANGED <<scans, spool, made, received>>
  BY DEF ProcessEnds, InMemory, InHand, Stored, disk, history
<1>2. OnePlace
  BY DEF SafeInv
<1>3. OnePlace'
  BY <1>1, <1>2 DEF OnePlace
<1>4. InMemory \subseteq Holding /\ Holding' = Holding \ InMemory
  BY <1>1, <1>2 DEF OnePlace, Holding, InMemory
<1>5. ItemsAccounted' /\ DroppedForGood'
  <2>1. /\ ItemsAccounted /\ DroppedForGood /\ dropped \in [Fates -> SUBSET made]
        /\ received \subseteq made
    BY DEF SafeInv, TypeInv, TypeOK
  <2>2. \E why \in Fates : Drop(why, InMemory)
    BY <1>1 DEF Fates
  <2> DEFINE none == {}
  <2>3. none \cap made = {} /\ made' = made \cup none
        /\ Holding' \subseteq (Holding \ InMemory) \cup none
        /\ (Holding \ (InMemory \cup received')) \cup none \subseteq Holding'
        /\ received \subseteq received' /\ received' \subseteq made
    BY <1>1, <1>4, <2>1
  <2> HIDE DEF none
  <2> QED BY <2>1, <2>2, <2>3, <1>4, Account
<1> QED BY <1>3, <1>5

\* A scan: its snapshots are new, and those it replaces are given up.
LEMMA ScanStep ==
    ASSUME SafeInv, Scan
    PROVE  OnePlace' /\ ItemsAccounted' /\ DroppedForGood'
<1>1. PICK ok \in SUBSET Managers : /\ pending' = {scans + 1} \X ok
                                    /\ made' = made \cup ({scans + 1} \X ok)
  BY DEF Scan
<1> DEFINE found == {scans + 1} \X ok
<1>2. /\ pending' = found /\ made' = made \cup found /\ scans' = scans + 1
      /\ Drop("superseded", pending) /\ InHand' = InHand
      /\ UNCHANGED <<outgoing, spool, received>>
  BY <1>1 DEF Scan, InHand, pusher, disk
<1>3. OnePlace /\ scans \in Nat /\ ItemsAccounted /\ made \subseteq Item
  BY PushAssumption DEF SafeInv, TypeInv, TypeOK
<1>4. \A i \in found : i[1] = scans + 1 /\ i[2] # 0
  BY PushAssumption
<1> HIDE DEF found
<1>5. found \cap made = {}
  BY <1>3, <1>4 DEF OnePlace
<1>6. Holding \subseteq made /\ Stored' = Stored
  BY <1>2, <1>3 DEF ItemsAccounted, Holding, Stored
<1>7. OnePlace'
  <2>1. \A i \in made' : i[2] # 0 => i[1] <= scans'
    <3>1. \A i \in made : i[1] \in Nat
      BY <1>3 DEF Item
    <3> QED BY <1>2, <1>3, <1>4, <3>1 DEF OnePlace
  <2>2. found \cap (InHand \cup outgoing \cup Stored) = {}
    BY <1>5, <1>6 DEF Holding, InMemory
  <2> QED BY <2>1, <2>2, <1>2, <1>3, <1>6 DEF OnePlace
<1>8. pending \subseteq Holding /\ Holding' = (Holding \ pending) \cup found
  BY <1>2, <1>3, <1>6 DEF Holding, InMemory, OnePlace
<1>9. ItemsAccounted' /\ DroppedForGood'
  <2>1. /\ ItemsAccounted /\ DroppedForGood /\ dropped \in [Fates -> SUBSET made]
        /\ received \subseteq made
    BY DEF SafeInv, TypeInv, TypeOK
  <2>2. \E why \in Fates : Drop(why, pending)
    BY <1>2 DEF Fates
  <2>3. /\ Holding' \subseteq (Holding \ pending) \cup found
        /\ (Holding \ (pending \cup received')) \cup found \subseteq Holding'
        /\ received \subseteq received' /\ received' \subseteq made
    BY <1>2, <1>8, <2>1
  <2> QED BY <1>2, <1>5, <1>8, <2>1, <2>2, <2>3, Account
<1> QED BY <1>7, <1>9

\* A sample is gathered.
LEMMA GatherStep ==
    ASSUME SafeInv, Gather
    PROVE  OnePlace' /\ ItemsAccounted' /\ DroppedForGood'
<1>1. PICK n \in 1..MaxSamples : /\ <<n, 0>> \notin made
                                 /\ made' = made \cup {<<n, 0>>}
                                 /\ cur' = Payload(<<n, 0>>)
  BY DEF Gather
<1> DEFINE sample == {<<n, 0>>}
<1>2. /\ InHand = {} /\ InHand' = sample /\ made' = made \cup sample
      /\ UNCHANGED <<outgoing, pending, scans, spool, received, dropped>>
  BY <1>1 DEF Gather, InHand, Payload, collector, disk
<1>3. sample \cap made = {} /\ \A i \in sample : i[2] = 0
  BY <1>1
<1> HIDE DEF sample
<1>4. OnePlace /\ ItemsAccounted
  BY DEF SafeInv, TypeInv
<1>5. Stored' = Stored /\ Holding \subseteq made
  BY <1>2, <1>4 DEF Stored, ItemsAccounted, Holding
<1>6. OnePlace'
  <2>1. sample \cap (outgoing \cup pending \cup Stored) = {}
    BY <1>3, <1>5 DEF Holding, InMemory
  <2> QED BY <2>1, <1>2, <1>3, <1>4, <1>5 DEF OnePlace
<1>7. Holding' = Holding \cup sample
  BY <1>2, <1>5 DEF Holding, InMemory
<1>8. ItemsAccounted' /\ DroppedForGood'
  <2>1. /\ ItemsAccounted /\ DroppedForGood /\ dropped \in [Fates -> SUBSET made]
        /\ received \subseteq made
    BY DEF SafeInv, TypeInv, TypeOK
  <2> DEFINE none == {}
  <2>2. /\ none \subseteq Holding /\ none = {} /\ UNCHANGED dropped
        /\ Holding' \subseteq (Holding \ none) \cup sample
        /\ (Holding \ (none \cup received')) \cup sample \subseteq Holding'
        /\ received \subseteq received' /\ received' \subseteq made
    BY <1>2, <1>7, <2>1
  <2> HIDE DEF none
  <2> QED BY <1>2, <1>3, <2>1, <2>2, Account
<1> QED BY <1>6, <1>8

\* A file is removed: it was replayed and taken, cannot be read, or is trimmed.
LEMMA RemovalStep ==
    ASSUME SafeInv, Discard \/ Resent \/ Trim
    PROVE  OnePlace' /\ ItemsAccounted' /\ DroppedForGood'
<1>1. /\ InHand = {} /\ InHand' = {} /\ dir \in Dirs
      /\ UNCHANGED <<outgoing, pending, scans, made, received>>
  BY DEF Discard, Resent, Trim, InHand, collector, SafeInv, TypeInv, TypeOK
<1>2. /\ ItemsAccounted /\ DroppedForGood /\ dropped \in [Fates -> SUBSET made]
      /\ received \subseteq made
  BY DEF SafeInv, TypeInv, TypeOK
<1>3. ASSUME NEW d \in Dirs, NEW f, Remove(d, f), NEW why \in Fates,
             Drop(why, Held(spool[d]) \ Held(spool'[d]))
      PROVE  OnePlace' /\ ItemsAccounted' /\ DroppedForGood'
  <2> DEFINE lost == Held(spool[d]) \ Held(spool'[d])
             none == {}
  <2>1. OnePlace' /\ lost \subseteq Holding /\ Holding' = Holding \ lost
    BY <1>1, <1>3, RemoveHeld
  <2>2. \E w \in Fates : Drop(w, lost)
    BY <1>3
  <2>3. none \cap made = {} /\ made' = made \cup none
        /\ Holding' \subseteq (Holding \ lost) \cup none
        /\ (Holding \ (lost \cup received')) \cup none \subseteq Holding'
        /\ received \subseteq received' /\ received' \subseteq made
    BY <1>1, <1>2, <2>1
  <2> HIDE DEF none, lost
  <2> QED BY <2>1, <2>2, <2>3, <1>2, Account
<1>4. CASE Discard
  BY <1>4, <1>3 DEF Discard, Dirs, Fates
<1>5. CASE Trim
  BY <1>1, <1>5, <1>3 DEF Trim, Fates
<1>6. CASE Resent
  <2> DEFINE lost == Held(spool["metrics"]) \ Held(spool'["metrics"])
  <2>1. /\ Remove("metrics", cur) /\ cur.item \in received /\ "metrics" \in Dirs
        /\ UNCHANGED dropped
    BY <1>6 DEF Resent, Answered, Dirs
  <2>2. OnePlace' /\ Holding' = Holding \ lost /\ lost \subseteq {cur.item}
    BY <1>1, <2>1, RemoveHeld
  <2>3. Holding' \subseteq Holding /\ Holding \ received' \subseteq Holding'
    BY <1>1, <2>1, <2>2
  <2> QED BY <1>1, <1>2, <2>1, <2>2, <2>3, AccountKept
<1> QED BY <1>4, <1>5, <1>6

\* The payload in hand is taken, or the payloads change hands.
LEMMA HandoverStep ==
    ASSUME SafeInv, Sent \/ Posted \/ TakeInventory \/ Post
    PROVE  OnePlace' /\ ItemsAccounted' /\ DroppedForGood'
<1>1. /\ UNCHANGED <<spool, scans, made, dropped, received>> /\ Stored' = Stored
      /\ OnePlace /\ received \subseteq made /\ Control
  BY DEF Sent, Posted, TakeInventory, Post, Stored, disk, collector, history,
         SafeInv, TypeInv, TypeOK
<1>2. CASE Sent \/ Posted
  <2>1. /\ InHand = {cur.item} /\ cur.item \in received /\ InHand' = {}
        /\ UNCHANGED <<outgoing, pending>>
    BY <1>2 DEF Sent, Posted, Answered, InHand, AfterSample, collector
  <2>2. OnePlace'
    BY <1>1, <2>1 DEF OnePlace
  <2>3. Holding' \subseteq Holding /\ Holding \ received' \subseteq Holding'
    BY <1>1, <2>1 DEF Holding, InMemory
  <2> QED BY <1>1, <2>2, <2>3, AccountKept
<1>3. CASE TakeInventory
  <2>1. /\ InHand = {} /\ InHand' = {} /\ outgoing = {}
        /\ outgoing' = pending /\ pending' = {}
    BY <1>1, <1>3 DEF TakeInventory, InHand, Control, Emptied
  <2>2. OnePlace'
    BY <1>1, <2>1 DEF OnePlace
  <2>3. Holding' \subseteq Holding /\ Holding \ received' \subseteq Holding'
    BY <1>1, <2>1 DEF Holding, InMemory
  <2> QED BY <1>1, <2>2, <2>3, AccountKept
<1>4. CASE Post
  <2>1. PICK p \in outgoing : cur' = Payload(p) /\ outgoing' = outgoing \ {p}
    BY <1>4 DEF Post
  <2>2. InHand = {} /\ InHand' = {p} /\ pending' = pending
    BY <1>4, <2>1 DEF Post, InHand, Payload, collector
  <2>3. OnePlace'
    BY <1>1, <2>1, <2>2 DEF OnePlace
  <2>4. Holding' \subseteq Holding /\ Holding \ received' \subseteq Holding'
    BY <1>1, <2>1, <2>2 DEF Holding, InMemory
  <2> QED BY <1>1, <2>3, <2>4, AccountKept
<1> QED BY <1>2, <1>3, <1>4

-----------------------------------------------------------------------------
(* The theorems *)

\* Every step keeps the inductive invariant.
LEMMA SafeStep == SafeInv /\ [Next]_vars => SafeInv'
<1> SUFFICES ASSUME SafeInv, [Next]_vars PROVE SafeInv'
  OBVIOUS
<1>1. Control'
  BY ControlStep DEF SafeInv
<1>2. TypeOK'
  BY <1>1, TypeStep DEF SafeInv
<1>3. OnePlace' /\ ItemsAccounted' /\ DroppedForGood'
  <2>r. received \subseteq made
    BY DEF SafeInv, TypeInv, TypeOK
  <2>1. CASE Boot \/ Tick \/ Flush
    BY <2>1, <2>r, NothingMoves DEF Boot, Tick, Flush, BeginReplay, InHand, disk,
                                    collector, history
  <2>2. CASE ReplayEnds \/ Replay \/ ResendFails
    BY <2>2, <2>r, NothingMoves DEF ReplayEnds, AfterReplay, Replay, ResendFails,
                                    InHand, disk, collector, history
  <2>3. CASE GatherFails \/ GatherMore \/ SendFails
    BY <2>3, <2>r, NothingMoves DEF GatherFails, GatherMore, AfterSample,
             SendFails, Unsent, InHand, disk, collector, history
  <2>4. CASE TrimEnds \/ PostFails \/ PushEnds
    BY <2>4, <2>r, NothingMoves DEF TrimEnds, AfterSpool, AfterSample, PostFails,
                                    PushEnds, InHand, disk, collector, history
  <2>5. CASE ReceiverTakes
    <3>1. received \subseteq received' /\ received' \subseteq made
      BY <2>5, <1>2 DEF ReceiverTakes, TypeOK, history
    <3> QED BY <2>5, <3>1, NothingMoves DEF ReceiverTakes, InHand, pusher, disk,
                                            collector, history
  <2>6. CASE Cancel \/ Restart \/ UNCHANGED vars
    BY <2>6, <2>r, NothingMoves DEF Cancel, Restart, vars, InHand, pusher, disk,
                                    collector, history
  <2>7. CASE Discard \/ Resent \/ Trim
    BY <2>7, RemovalStep
  <2>8. CASE Gather \/ Scan
    BY <2>8, GatherStep, ScanStep
  <2>9. CASE Sent \/ Posted \/ TakeInventory \/ Post
    BY <2>9, HandoverStep
  <2>10. CASE SpoolRefused \/ WriteFails \/ Create \/ Write
    BY <2>10, GiveUpStep, CreateStep, WriteStep
  <2>11. CASE ProcessEnds
    BY <2>11, EndStep
  <2> QED
    BY <2>1, <2>2, <2>3, <2>4, <2>5, <2>6, <2>7, <2>8, <2>9, <2>10, <2>11
       DEF Next, Continue, RetrySpool, Sample, SpoolFile, SendInventory
<1> QED BY <1>1, <1>2, <1>3 DEF SafeInv, TypeInv

\* The inductive invariant of Run, retrySpool, spoolFile, sendInventory and scan.
THEOREM PushSafety == Spec => []SafeInv
<1>1. Init => SafeInv
  BY SafeInit
<1>2. SafeInv /\ [Next]_vars => SafeInv'
  BY SafeStep
<1> QED BY <1>1, <1>2, PTL DEF Spec

\* Every variable of the pusher and of the package collector keeps its type.
THEOREM PushTypeCorrect == Spec => []TypeOK
<1>1. SafeInv => TypeOK
  BY DEF SafeInv, TypeInv
<1> QED BY <1>1, PushSafety, PTL

\* No sample and no snapshot vanishes: what push.go made is in memory, in a
\* whole file, at the receiver, or was given up at a point it knows of.
THEOREM NoItemVanishes == Spec => []ItemsAccounted
<1>1. SafeInv => ItemsAccounted
  BY DEF SafeInv, TypeInv
<1> QED BY <1>1, PushSafety, PTL

\* What a trim, a scan, a failed write or an exit gave up is given up once and
\* never replayed or posted again.
THEOREM DropIsFinal == Spec => []DroppedForGood
<1>1. SafeInv => DroppedForGood
  BY DEF SafeInv
<1> QED BY <1>1, PushSafety, PTL

\* A payload that waits, in the collector or in sendInventory, was not posted.
NotYetPosted == posted \cap (outgoing \cup pending) = {}

\* "Each snapshot is sent at most once" (collector.go), whatever scans replace
\* while sendInventory posts.
THEOREM PostedOnce == Spec => SnapshotsOnce
<1>1. Init => NotYetPosted
  BY DEF Init, NotYetPosted
<1>2. ASSUME SafeInv, NotYetPosted, [Next]_vars
      PROVE  /\ NotYetPosted'
             /\ pc = "post" /\ pc' = "posting" => cur'.item \notin posted
  <2> USE <1>2 DEF NotYetPosted
  <2>1. CASE Post
    <3>1. PICK p \in outgoing : /\ cur' = Payload(p)
                                /\ outgoing' = outgoing \ {p}
                                /\ posted' = posted \cup {p}
      BY <2>1 DEF Post
    <3>2. outgoing \cap pending = {} /\ pending' = pending
      BY <2>1 DEF Post, collector, SafeInv, OnePlace
    <3> QED BY <3>1, <3>2 DEF Payload
  <2>2. CASE Scan
    <3>1. PICK ok \in SUBSET Managers : pending' = {scans + 1} \X ok
      BY <2>2 DEF Scan
    <3>2. \A i \in pending' : i[1] = scans + 1 /\ i[2] # 0
      BY <3>1, PushAssumption
    <3>3. /\ \A i \in made : i[2] # 0 => i[1] <= scans
          /\ posted \subseteq made /\ scans \in Nat
      BY PushAssumption DEF SafeInv, OnePlace, TypeInv, TypeOK
    <3>4. posted \cap pending' = {}
      BY <3>2, <3>3
    <3> QED BY <2>2, <3>4 DEF Scan, pusher
  <2>3. CASE TakeInventory \/ ProcessEnds
    BY <2>3 DEF TakeInventory, Emptied, ProcessEnds, disk, history
  <2>4. CASE Boot \/ Tick \/ Flush \/ RetrySpool
    BY <2>4 DEF Boot, Tick, Flush, BeginReplay, RetrySpool, ReplayEnds, Discard,
                Replay, Resent, ResendFails, disk, collector, history
  <2>5. CASE Sample
    BY <2>5 DEF Sample, Gather, GatherFails, GatherMore, Sent, SendFails, Unsent,
                AfterSample, disk, collector, history
  <2>6. CASE SpoolFile
    BY <2>6 DEF SpoolFile, SpoolRefused, Create, WriteFails, Write, Trim,
                TrimEnds, AfterSpool, AfterSample, disk, collector, history
  <2>7. CASE Posted \/ PostFails \/ PushEnds
    BY <2>7 DEF Posted, PostFails, PushEnds, disk, collector, history
  <2>8. CASE ReceiverTakes \/ Cancel \/ Restart \/ UNCHANGED vars
    BY <2>8 DEF ReceiverTakes, Cancel, Restart, vars, pusher, disk, collector,
                history
  <2> QED
    BY <2>1, <2>2, <2>3, <2>4, <2>5, <2>6, <2>7, <2>8
       DEF Next, Continue, SendInventory
<1>3. NotYetPosted /\ NotYetPosted' /\ SafeInv /\ [Next]_vars
        => [pc = "post" /\ pc' = "posting" => cur'.item \notin posted]_vars
  BY <1>2
<1>4. SafeInv /\ NotYetPosted /\ [Next]_vars => NotYetPosted'
  BY <1>2
<1> QED BY <1>1, <1>3, <1>4, PushSafety, PTL DEF Spec, SnapshotsOnce

-----------------------------------------------------------------------------
(* How full the spool gets *)

Whole(d) == {f \in spool[d] \ stuck : f.whole}

Newer(files, f) == {g \in files : g.name > f.name}

\* A name is taken once, from a clock that does not step back; a trim has dealt
\* with every file that is removable, has pushMaxSpoolSize newer ones and is
\* not on its list; a process that ends before that leaves one file too many.
SpoolInv ==
    /\ \A d \in Dirs :
          /\ IsFiniteSet(spool[d])
          /\ \A f \in spool[d] : f.name <= clock
          /\ \A f, g \in spool[d] : f.name = g.name => f = g
          /\ Cardinality(Whole(d)) <=
                pushMaxSpoolSize + restarts
                  + (IF pc = "dead" \/ (pc = "trim" /\ d = dir) THEN 1 ELSE 0)
    /\ pc = "trim" =>
          \A f \in spool[dir] \ (stuck \cup todo) :
              Cardinality(Newer(spool[dir], f)) < pushMaxSpoolSize

\* Files of different names, each with fewer than n newer ones, are at most n:
\* all but the oldest of them are newer than that one.
LEMMA FewNewer ==
    ASSUME NEW S, IsFiniteSet(S), NEW K \in SUBSET S, NEW n \in Nat,
           \A f \in S : f.name \in Nat,
           \A f, g \in S : f.name = g.name => f = g,
           \A f \in K : Cardinality(Newer(S, f)) < n
    PROVE  Cardinality(K) <= n
<1>1. CASE K = {}
  BY <1>1, FS_EmptySet
<1>2. CASE K # {}
  <2> DEFINE T == {f.name : f \in K}
  <2>1. PICK x \in T : \A y \in T : x <= y
    <3>1. T \subseteq Nat /\ T # {}
      BY <1>2
    <3> HIDE DEF T
    <3> QED BY <3>1, LeastNatural
  <2>2. PICK f \in K : f.name = x
    BY <2>1
  <2>3. K \ {f} \subseteq Newer(S, f)
    <3> SUFFICES ASSUME NEW g \in K, g # f PROVE g.name > f.name
      BY DEF Newer
    <3>1. g.name # f.name /\ g.name \in Nat /\ f.name \in Nat
      OBVIOUS
    <3>2. f.name <= g.name
      BY <2>1, <2>2
    <3> QED BY <3>1, <3>2
  <2>4. /\ IsFiniteSet(K) /\ Cardinality(K) \in Nat
        /\ Cardinality(K \ {f}) = Cardinality(K) - 1
    BY FS_Subset, FS_CardinalityType, FS_RemoveElement
  <2>5. /\ IsFiniteSet(Newer(S, f)) /\ Cardinality(Newer(S, f)) \in Nat
        /\ Cardinality(K \ {f}) <= Cardinality(Newer(S, f))
    <3>1. Newer(S, f) \subseteq S
      BY DEF Newer
    <3> QED BY <2>3, <3>1, FS_Subset, FS_CardinalityType
  <2> QED BY <2>4, <2>5
<1> QED BY <1>1, <1>2

\* What SpoolInv says of the files of a directory that are whole.
LEMMA WholeBound ==
    ASSUME SafeInv, SpoolInv, NEW d \in Dirs
    PROVE  /\ IsFiniteSet(Whole(d)) /\ Cardinality(Whole(d)) \in Nat
           /\ Cardinality(Whole(d)) <= pushMaxSpoolSize + restarts + 1
           /\ pc \notin {"trim", "dead"} =>
                 Cardinality(Whole(d)) <= pushMaxSpoolSize + restarts
<1>1. Whole(d) \subseteq spool[d]
  BY DEF Whole
<1>2. IsFiniteSet(Whole(d)) /\ Cardinality(Whole(d)) \in Nat
  BY <1>1, FS_Subset, FS_CardinalityType DEF SpoolInv
<1>3. restarts \in Nat /\ pushMaxSpoolSize \in Nat
  BY PushAssumption DEF SafeInv, TypeInv, TypeOK
<1>4. Cardinality(Whole(d)) <=
         pushMaxSpoolSize + restarts
           + (IF pc = "dead" \/ (pc = "trim" /\ d = dir) THEN 1 ELSE 0)
  BY DEF SpoolInv
<1> QED BY <1>2, <1>3, <1>4

\* A directory that loses files holds no more of them.
LEMMA WholeShrinks ==
    ASSUME SpoolInv, NEW d \in Dirs, spool'[d] \subseteq spool[d], stuck \subseteq stuck'
    PROVE  /\ IsFiniteSet(spool'[d])
           /\ Cardinality(Whole(d)) \in Nat /\ Cardinality(Whole(d)') \in Nat
           /\ Cardinality(Whole(d)') <= Cardinality(Whole(d))
<1>1. IsFiniteSet(spool[d]) /\ IsFiniteSet(spool'[d])
  BY FS_Subset DEF SpoolInv
<1>2. Whole(d) \subseteq spool[d] /\ Whole(d)' \subseteq Whole(d)
  BY DEF Whole
<1> QED BY <1>1, <1>2, FS_Subset, FS_CardinalityType

\* An empty spool is within its bound.
LEMMA SpoolInit == Init => SpoolInv
<1> SUFFICES ASSUME Init PROVE SpoolInv
  OBVIOUS
<1>1. \A d \in Dirs : spool[d] = {} /\ Whole(d) = {}
  BY DEF Init, Whole
<1>2. IsFiniteSet({}) /\ Cardinality({}) = 0
  BY FS_EmptySet
<1> QED BY <1>1, <1>2, PushAssumption DEF Init, SpoolInv

\* Creating a file: under a name of its own, or in place of the one that has it.
LEMMA SpoolCreated == SafeInv /\ SpoolInv /\ Create => SpoolInv'
<1> SUFFICES ASSUME SafeInv, SpoolInv, Create PROVE SpoolInv'
  OBVIOUS
<1>1. PICK t \in {clock + 1} \cup ({clock} \cap {f.name : f \in spool[dir]}) :
         LET old  == {f \in spool[dir] : f.name = t}
             torn == [cur EXCEPT !.name = t, !.whole = FALSE]
         IN  /\ clock' = t /\ cur' = torn
             /\ spool' = [spool EXCEPT ![dir] = (@ \ old) \cup {torn}]
  BY DEF Create
<1>t. /\ dir \in Dirs /\ cur \in File /\ spool \in [Dirs -> SUBSET File] /\ clock \in Nat
      /\ restarts \in Nat
  BY DEF SafeInv, TypeInv, TypeOK
<1>2. /\ cur'.name = t /\ ~cur'.whole /\ t \in Nat /\ clock <= t /\ clock' = t
      /\ stuck' = stuck /\ restarts' = restarts
      /\ pc = "spool" /\ pc' = "write"
  BY <1>1, <1>t DEF Create, File, history
<1>3. \A d \in Dirs : d # dir => spool'[d] = spool[d]
  BY <1>1, <1>t
<1>4. spool'[dir] = {f \in spool[dir] : f.name # t} \cup {cur'}
  BY <1>1, <1>t
<1>5. \A d \in Dirs :
         /\ IsFiniteSet(spool'[d])
         /\ \A f \in spool'[d] : f.name <= clock'
         /\ \A f, g \in spool'[d] : f.name = g.name => f = g
  <2> SUFFICES ASSUME NEW d \in Dirs
               PROVE  /\ IsFiniteSet(spool'[d])
                      /\ \A f \in spool'[d] : f.name <= clock'
                      /\ \A f, g \in spool'[d] : f.name = g.name => f = g
    OBVIOUS
  <2>1. /\ IsFiniteSet(spool[d])
        /\ \A f \in spool[d] : f.name <= clock /\ f.name \in Nat
        /\ \A f, g \in spool[d] : f.name = g.name => f = g
    BY <1>t DEF SpoolInv, File
  <2>2. CASE d # dir
    BY <1>2, <1>3, <1>t, <2>1, <2>2
  <2>3. CASE d = dir
    <3>1. IsFiniteSet({f \in spool[d] : f.name # t})
      BY <2>1, FS_Subset
    <3>2. IsFiniteSet({f \in spool[d] : f.name # t} \cup {cur'})
      BY <3>1, FS_AddElement
    <3>3. \A f \in spool'[d] : f = cur' \/ (f \in spool[d] /\ f.name # t)
      BY <1>4, <2>3
    <3>4. \A f \in spool'[d] : f.name <= clock'
      BY <1>2, <1>t, <2>1, <3>3
    <3>5. \A f, g \in spool'[d] : f.name = g.name => f = g
      BY <1>2, <2>1, <3>3
    <3> QED BY <1>4, <2>3, <3>2, <3>4, <3>5
  <2> QED BY <2>2, <2>3
<1>6. \A d \in Dirs : Cardinality(Whole(d)') <= pushMaxSpoolSize + restarts'
  <2> SUFFICES ASSUME NEW d \in Dirs
               PROVE  Cardinality(Whole(d)') <= pushMaxSpoolSize + restarts'
    OBVIOUS
  <2>1. Whole(d)' \subseteq Whole(d) /\ Whole(d) \subseteq spool[d]
    BY <1>2, <1>3, <1>4 DEF Whole
  <2>2. IsFiniteSet(Whole(d)) /\ Cardinality(Whole(d)') <= Cardinality(Whole(d))
        /\ Cardinality(Whole(d)) \in Nat /\ Cardinality(Whole(d)') \in Nat
    <3>1. IsFiniteSet(Whole(d)) /\ IsFiniteSet(Whole(d)')
      BY <2>1, FS_Subset DEF SpoolInv
    <3> QED BY <2>1, <3>1, FS_Subset, FS_CardinalityType
  <2>3. Cardinality(Whole(d)) <= pushMaxSpoolSize + restarts
    BY <1>2, <1>t, WholeBound
  <2> QED BY <1>2, <1>t, <2>2, <2>3, PushAssumption
<1> QED BY <1>2, <1>5, <1>6, <1>t, PushAssumption DEF SpoolInv

\* Completing a file: one whole file more, and the list of those to trim.
LEMMA SpoolWritten == SafeInv /\ SpoolInv /\ Write => SpoolInv'
<1> SUFFICES ASSUME SafeInv, SpoolInv, Write PROVE SpoolInv'
  OBVIOUS
<1> DEFINE whole == [cur EXCEPT !.whole = TRUE]
<1>t. /\ dir \in Dirs /\ cur \in File /\ spool \in [Dirs -> SUBSET File] /\ clock \in Nat
      /\ cur \in spool[dir] /\ restarts \in Nat
  BY DEF SafeInv, TypeInv, TypeOK, Control, Write
<1>1. /\ spool'[dir] = (spool[dir] \ {cur}) \cup {whole} /\ whole.name = cur.name
      /\ \A d \in Dirs : d # dir => spool'[d] = spool[d]
  BY <1>t DEF Write, File
<1>2. /\ clock' = clock /\ stuck' = stuck /\ restarts' = restarts /\ dir' = dir
      /\ pc = "write" /\ pc' = "trim" /\ todo' = Excess(spool'[dir])
  BY DEF Write, history
<1> HIDE DEF whole
<1>3. \A d \in Dirs :
         /\ IsFiniteSet(spool'[d])
         /\ \A f \in spool'[d] : f.name <= clock'
         /\ \A f, g \in spool'[d] : f.name = g.name => f = g
  <2> SUFFICES ASSUME NEW d \in Dirs
               PROVE  /\ IsFiniteSet(spool'[d])
                      /\ \A f \in spool'[d] : f.name <= clock'
                      /\ \A f, g \in spool'[d] : f.name = g.name => f = g
    OBVIOUS
  <2>1. /\ IsFiniteSet(spool[d])
        /\ \A f \in spool[d] : f.name <= clock
        /\ \A f, g \in spool[d] : f.name = g.name => f = g
    BY DEF SpoolInv
  <2>2. CASE d # dir
    BY <1>1, <1>2, <2>1, <2>2
  <2>3. CASE d = dir
    <3>1. IsFiniteSet((spool[d] \ {cur}) \cup {whole})
      BY <2>1, FS_RemoveElement, FS_AddElement, FS_Subset
    <3>2. \A f \in spool'[d] : f = whole \/ (f \in spool[d] /\ f # cur)
      BY <1>1, <2>3
    <3>3. \A f, g \in spool'[d] : f.name = g.name => f = g
      BY <1>1, <1>t, <2>1, <2>3, <3>2
    <3>4. \A f \in spool'[d] : f.name <= clock'
      BY <1>1, <1>2, <1>t, <2>1, <2>3, <3>2
    <3> QED BY <1>1, <2>3, <3>1, <3>3, <3>4
  <2> QED BY <2>2, <2>3
<1>4. \A d \in Dirs : Cardinality(Whole(d)') <=
         pushMaxSpoolSize + restarts' + (IF d = dir THEN 1 ELSE 0)
  <2> SUFFICES ASSUME NEW d \in Dirs
               PROVE  Cardinality(Whole(d)') <=
                         pushMaxSpoolSize + restarts' + (IF d = dir THEN 1 ELSE 0)
    OBVIOUS
  <2>1. Whole(d) \subseteq spool[d] /\ IsFiniteSet(Whole(d)) /\ Cardinality(Whole(d)) \in Nat
        /\ Cardinality(Whole(d)) <= pushMaxSpoolSize + restarts
    <3>1. Whole(d) \subseteq spool[d]
      BY DEF Whole
    <3> QED BY <1>2, <1>t, <3>1, WholeBound
  <2>2. CASE d # dir
    <3>1. Whole(d)' = Whole(d)
      BY <1>1, <1>2, <2>2 DEF Whole
    <3> QED BY <1>2, <1>t, <2>1, <2>2, <3>1, PushAssumption
  <2>3. CASE d = dir
    <3>1. Whole(d)' \subseteq Whole(d) \cup {whole}
      BY <1>1, <1>2, <2>3 DEF Whole
    <3>2. /\ IsFiniteSet(Whole(d) \cup {whole})
          /\ Cardinality(Whole(d) \cup {whole}) \in Nat
          /\ Cardinality(Whole(d) \cup {whole}) <= Cardinality(Whole(d)) + 1
      <4>1. IsFiniteSet(Whole(d)) /\ Cardinality(Whole(d)) \in Nat
        BY <2>1
      <4>2. /\ IsFiniteSet(Whole(d) \cup {whole})
            /\ \/ Cardinality(Whole(d) \cup {whole}) = Cardinality(Whole(d))
               \/ Cardinality(Whole(d) \cup {whole}) = Cardinality(Whole(d)) + 1
        BY <4>1, FS_AddElement
      <4> QED BY <4>1, <4>2
    <3>3. Cardinality(Whole(d)') <= Cardinality(Whole(d) \cup {whole})
          /\ Cardinality(Whole(d)') \in Nat
      BY <3>1, <3>2, FS_Subset, FS_CardinalityType
    <3> QED BY <1>2, <1>t, <2>1, <2>3, <3>2, <3>3, PushAssumption
  <2> QED BY <2>2, <2>3
<1>5. \A f \in spool'[dir] \ todo' : Cardinality(Newer(spool'[dir], f)) < pushMaxSpoolSize
  <2> SUFFICES ASSUME NEW f \in spool'[dir], f \notin todo'
               PROVE  Cardinality(Newer(spool'[dir], f)) < pushMaxSpoolSize
    OBVIOUS
  <2>1. ~ (Cardinality(Newer(spool'[dir], f)) >= pushMaxSpoolSize)
    BY <1>2 DEF Excess, Newer
  <2>2. Cardinality(Newer(spool'[dir], f)) \in Nat
    <3>1. Newer(spool'[dir], f) \subseteq spool'[dir]
      BY DEF Newer
    <3> QED BY <1>3, <1>t, <3>1, FS_Subset, FS_CardinalityType
  <2> QED BY <2>1, <2>2, PushAssumption
<1> QED BY <1>2, <1>3, <1>4, <1>5, <1>t DEF SpoolInv

\* A step of the trim takes a file off the list and off the disk, or leaves it
\* stuck; when the list is empty, what is left is few enough.
LEMMA SpoolTrimmed == SafeInv /\ SpoolInv /\ (Trim \/ TrimEnds) => SpoolInv'
<1> SUFFICES ASSUME SafeInv, SpoolInv, Trim \/ TrimEnds PROVE SpoolInv'
  OBVIOUS
<1>t. /\ dir \in Dirs /\ spool \in [Dirs -> SUBSET File] /\ restarts \in Nat
      /\ pushMaxSpoolSize \in Nat
  BY PushAssumption DEF SafeInv, TypeInv, TypeOK
<1>1. CASE Trim
  <2>1. PICK f \in Oldest(todo) : Remove(dir, f) /\ todo' = todo \ {f}
    BY <1>1 DEF Trim
  <2>2. /\ \A d \in Dirs : spool'[d] \subseteq spool[d]
        /\ f \notin spool'[dir] \/ f \in stuck'
        /\ stuck \subseteq stuck' /\ restarts' = restarts /\ clock' = clock /\ dir' = dir
        /\ pc = "trim" /\ pc' = "trim"
    BY <1>1, <1>t, <2>1 DEF Trim, Remove
  <2>3. \A d \in Dirs :
           /\ IsFiniteSet(spool'[d])
           /\ Cardinality(Whole(d)) \in Nat /\ Cardinality(Whole(d)') \in Nat
           /\ Cardinality(Whole(d)') <= Cardinality(Whole(d))
    BY <2>2, WholeShrinks
  <2>4. ASSUME NEW g \in spool'[dir] \ (stuck' \cup todo')
        PROVE  Cardinality(Newer(spool'[dir], g)) < pushMaxSpoolSize
    <3>1. g \in spool[dir] \ (stuck \cup todo)
      BY <2>1, <2>2, <2>4, <1>t
    <3>2. Cardinality(Newer(spool[dir], g)) < pushMaxSpoolSize
      BY <2>2, <3>1 DEF SpoolInv
    <3>3. /\ Newer(spool'[dir], g) \subseteq Newer(spool[dir], g)
          /\ Newer(spool[dir], g) \subseteq spool[dir]
      BY <2>2, <1>t DEF Newer
    <3>4. /\ Cardinality(Newer(spool'[dir], g)) <= Cardinality(Newer(spool[dir], g))
          /\ Cardinality(Newer(spool'[dir], g)) \in Nat
          /\ Cardinality(Newer(spool[dir], g)) \in Nat
      <4>1. IsFiniteSet(Newer(spool[dir], g)) /\ IsFiniteSet(Newer(spool'[dir], g))
        BY <1>t, <3>3, FS_Subset DEF SpoolInv
      <4> QED BY <3>3, <4>1, FS_Subset, FS_CardinalityType
    <3> QED BY <1>t, <3>2, <3>4
  <2>5. \A d \in Dirs : Cardinality(Whole(d)') <=
           pushMaxSpoolSize + restarts + (IF d = dir THEN 1 ELSE 0)
    <3> SUFFICES ASSUME NEW d \in Dirs
                 PROVE  Cardinality(Whole(d)') <=
                           pushMaxSpoolSize + restarts + (IF d = dir THEN 1 ELSE 0)
      OBVIOUS
    <3>1. Cardinality(Whole(d)) <=
             pushMaxSpoolSize + restarts + (IF d = dir THEN 1 ELSE 0)
      BY <2>2 DEF SpoolInv
    <3> QED BY <1>t, <2>3, <3>1
  <2> QED BY <2>2, <2>3, <2>4, <2>5 DEF SpoolInv
<1>2. CASE TrimEnds
  <2>1. /\ UNCHANGED <<spool, clock, stuck, restarts, dir>> /\ todo = {}
        /\ pc = "trim" /\ pc' \notin {"trim", "dead"}
    BY <1>2 DEF TrimEnds, AfterSpool, AfterSample, disk, history
  <2>2. Cardinality(spool[dir] \ stuck) <= pushMaxSpoolSize
    <3>1. /\ IsFiniteSet(spool[dir]) /\ spool[dir] \ stuck \in SUBSET spool[dir]
          /\ \A f, g \in spool[dir] : f.name = g.name => f = g
          /\ \A f \in spool[dir] : f.name \in Nat
          /\ \A f \in spool[dir] \ stuck :
                Cardinality(Newer(spool[dir], f)) < pushMaxSpoolSize
      BY <1>t, <2>1 DEF SpoolInv, File
    <3> QED BY <1>t, <3>1, FewNewer
  <2>3. /\ Cardinality(Whole(dir)) <= pushMaxSpoolSize
        /\ Cardinality(Whole(dir)) \in Nat
    <3>1. IsFiniteSet(spool[dir] \ stuck) /\ Whole(dir) \subseteq spool[dir] \ stuck
      BY <1>t, FS_Subset DEF SpoolInv, Whole
    <3>2. /\ IsFiniteSet(Whole(dir))
          /\ Cardinality(Whole(dir)) <= Cardinality(spool[dir] \ stuck)
          /\ Cardinality(Whole(dir)) \in Nat /\ Cardinality(spool[dir] \ stuck) \in Nat
      BY <3>1, FS_Subset, FS_CardinalityType
    <3> QED BY <1>t, <2>2, <3>2
  <2>4. \A d \in Dirs : Cardinality(Whole(d)) <= pushMaxSpoolSize + restarts
    BY <1>t, <2>1, <2>3 DEF SpoolInv
  <2>5. \A d \in Dirs : Whole(d)' = Whole(d)
    BY <2>1 DEF Whole
  <2> QED BY <1>t, <2>1, <2>4, <2>5 DEF SpoolInv
<1> QED BY <1>1, <1>2

\* Every other step leaves the spool alone or takes files from it.
LEMMA SpoolStep == SafeInv /\ SpoolInv /\ [Next]_vars => SpoolInv'
<1> SUFFICES ASSUME SafeInv, SpoolInv, [Next]_vars PROVE SpoolInv'
  OBVIOUS
<1>t. /\ dir \in Dirs /\ spool \in [Dirs -> SUBSET File] /\ restarts \in Nat
      /\ pushMaxSpoolSize \in Nat
  BY PushAssumption DEF SafeInv, TypeInv, TypeOK
<1>k. ASSUME \A d \in Dirs : spool'[d] \subseteq spool[d], stuck \subseteq stuck',
             clock' = clock, restarts' = restarts, pc \notin {"trim", "dead"},
             pc' \notin {"trim", "dead"}
      PROVE  SpoolInv'
  <2> SUFFICES ASSUME NEW d \in Dirs
               PROVE  /\ IsFiniteSet(spool'[d])
                      /\ \A f \in spool'[d] : f.name <= clock
                      /\ \A f, g \in spool'[d] : f.name = g.name => f = g
                      /\ Cardinality(Whole(d)') <= pushMaxSpoolSize + restarts
    BY <1>k, <1>t DEF SpoolInv
  <2>1. /\ IsFiniteSet(spool'[d])
        /\ Cardinality(Whole(d)) \in Nat /\ Cardinality(Whole(d)') \in Nat
        /\ Cardinality(Whole(d)') <= Cardinality(Whole(d))
    BY <1>k, WholeShrinks
  <2>2. /\ \A f \in spool[d] : f.name <= clock
        /\ \A f, g \in spool[d] : f.name = g.name => f = g
        /\ Cardinality(Whole(d)) <= pushMaxSpoolSize + restarts
    BY <1>k, <1>t DEF SpoolInv
  <2> QED BY <1>k, <1>t, <2>1, <2>2
<1>1. CASE Boot \/ Tick \/ Flush \/ ReplayEnds \/ Replay \/ ResendFails
  BY <1>1, <1>k DEF Boot, Tick, Flush, BeginReplay, ReplayEnds, AfterReplay, Replay,
                    ResendFails, disk, history
<1>2. CASE Discard
  <2>1. PICK f : Remove("metrics", f)
    BY <1>2 DEF Discard
  <2>2. (\A d \in Dirs : spool'[d] \subseteq spool[d]) /\ stuck \subseteq stuck'
    BY <1>t, <2>1 DEF Remove, Dirs
  <2> QED BY <1>2, <1>k, <2>2 DEF Discard
<1>3. CASE Resent
  <2>1. (\A d \in Dirs : spool'[d] \subseteq spool[d]) /\ stuck \subseteq stuck'
    BY <1>3, <1>t DEF Resent, Remove, Dirs
  <2> QED BY <1>3, <1>k, <2>1 DEF Resent
<1>4. CASE Sample
  BY <1>4, <1>k DEF Sample, Gather, GatherFails, GatherMore, Sent, SendFails, Unsent,
                    AfterSample, disk, history
<1>5. CASE SpoolRefused \/ WriteFails
  BY <1>5, <1>k DEF SpoolRefused, WriteFails, AfterSpool, AfterSample, disk, history
<1>6. CASE SendInventory
  BY <1>6, <1>k DEF SendInventory, TakeInventory, Post, Posted, PostFails, PushEnds,
                    disk, history
<1>7. CASE Scan \/ ReceiverTakes \/ Cancel \/ UNCHANGED vars
  <2>1. UNCHANGED <<spool, stuck, clock, restarts, pc, dir, todo>>
    BY <1>7 DEF Scan, ReceiverTakes, Cancel, vars, pusher, disk, history
  <2> QED BY <2>1 DEF SpoolInv, Whole, Newer
<1>8. CASE ProcessEnds \/ Restart
  <2>1. /\ UNCHANGED <<spool, stuck, clock>>
        /\ \/ pc' = "dead" /\ restarts' = restarts /\ pc # "dead"
           \/ pc = "dead" /\ restarts' = restarts + 1 /\ pc' = "boot"
    BY <1>8 DEF ProcessEnds, Restart, disk, history
  <2>2. \A d \in Dirs : /\ Cardinality(Whole(d)) <= pushMaxSpoolSize + restarts + 1
                        /\ Whole(d)' = Whole(d)
    <3> SUFFICES ASSUME NEW d \in Dirs
                 PROVE  /\ Cardinality(Whole(d)) <= pushMaxSpoolSize + restarts + 1
                        /\ Whole(d)' = Whole(d)
      OBVIOUS
    <3>1. Whole(d)' = Whole(d)
      BY <2>1 DEF Whole
    <3> QED BY <3>1, WholeBound
  <2>3. \A d \in Dirs : Cardinality(Whole(d)') <=
           pushMaxSpoolSize + restarts'
             + (IF pc' = "dead" \/ (pc' = "trim" /\ d = dir') THEN 1 ELSE 0)
    BY <1>t, <2>1, <2>2
  <2> QED BY <2>1, <2>3 DEF SpoolInv
<1> QED
  BY <1>1, <1>2, <1>3, <1>4, <1>5, <1>6, <1>7, <1>8,
     SpoolCreated, SpoolWritten, SpoolTrimmed
     DEF Next, Continue, RetrySpool, SpoolFile

\* A directory of the spool holds at most pushMaxSpoolSize whole files, apart
\* from those os.Remove could not delete and one for each process that ended
\* between os.WriteFile and the trim.
THEOREM PushSpoolIsBounded == Spec => []SpoolBounded
<1>1. Init => SafeInv /\ SpoolInv
  BY SafeInit, SpoolInit
<1>2. SafeInv /\ SpoolInv /\ [Next]_vars => SafeInv' /\ SpoolInv'
  BY SafeStep, SpoolStep
<1>3. SafeInv /\ SpoolInv => SpoolBounded
  <2> SUFFICES ASSUME SafeInv, SpoolInv, pc \notin {"trim", "dead"}, NEW d \in Dirs
               PROVE  Cardinality(Whole(d)) <= pushMaxSpoolSize + restarts
    BY DEF SpoolBounded, Whole
  <2> QED BY WholeBound
<1> QED BY <1>1, <1>2, <1>3, PTL DEF Spec

-----------------------------------------------------------------------------
(* In which order files leave it *)

\* Samples are numbered as they are gathered, snapshots as they are scanned.
NumberedInOrder ==
    /\ \A m, n \in Nat : 0 < m /\ m <= n /\ <<n, 0>> \in made => <<m, 0>> \in made
    /\ \A p \in pending : p[1] = scans
    /\ \A p, q \in outgoing : p[1] = q[1]
    /\ \A p \in outgoing : p[1] <= scans

\* What a directory holds is not newer than what is on its way there.
SpooledInOrder ==
    /\ \A d \in Dirs : \A f, g \in spool[d] : f.name < g.name => f.item[1] <= g.item[1]
    /\ \A f \in spool["metrics"] : f.item \in made /\ f.item[2] = 0
    /\ \A f \in spool["inventory"] : f.item[1] <= scans
    /\ \A f \in spool["inventory"], p \in outgoing : f.item[1] <= p[1]
    /\ pc \in {"send", "posting", "spool"} =>
          \A f \in spool[dir] : f.item[1] <= cur.item[1]
    /\ pc \in {"send", "spool"} /\ dir = "metrics" => cur.item[2] = 0
    /\ pc \in {"posting", "spool"} /\ dir = "inventory" =>
          /\ cur.item[1] <= scans
          /\ \A p \in outgoing : cur.item[1] = p[1]

\* A loop has visited the oldest files, apart from those it could not remove.
VisitedInOrder ==
    /\ pc \in {"replay", "resend"} /\ todo # {} => spool["metrics"] \ stuck \subseteq todo
    /\ pc = "resend" => cur \in Oldest(todo)
    /\ pc = "trim" =>
          \A f \in todo, g \in spool[dir] \ (stuck \cup todo) : f.name < g.name

OrderInv == NumberedInOrder /\ SpooledInOrder /\ VisitedInOrder

\* Nothing is made, spooled or listed at first.
LEMMA OrderInit == Init => OrderInv
<1> SUFFICES ASSUME Init PROVE OrderInv
  OBVIOUS
<1>1. spool["metrics"] = {} /\ spool["inventory"] = {} /\ \A d \in Dirs : spool[d] = {}
  BY DEF Init, Dirs
<1> QED BY <1>1 DEF Init, OrderInv, NumberedInOrder, SpooledInOrder, VisitedInOrder

\* A sample gets the next number, a scan a larger one than all before.
LEMMA NumberedStep == SafeInv /\ NumberedInOrder /\ [Next]_vars => NumberedInOrder'
<1> SUFFICES ASSUME SafeInv, NumberedInOrder, [Next]_vars PROVE NumberedInOrder'
  OBVIOUS
<1>t. scans \in Nat
  BY PushAssumption DEF SafeInv, TypeInv, TypeOK
<1>1. CASE Gather
  <2>1. PICK n \in 1..MaxSamples : /\ n = 1 \/ <<n - 1, 0>> \in made
                                   /\ made' = made \cup {<<n, 0>>}
    BY <1>1 DEF Gather
  <2>2. ASSUME NEW m \in Nat, NEW k \in Nat, 0 < m, m <= k, <<k, 0>> \in made'
        PROVE  <<m, 0>> \in made'
    <3>1. CASE <<k, 0>> \in made
      BY <2>1, <2>2, <3>1 DEF NumberedInOrder
    <3>2. CASE k = n /\ m = n
      BY <2>1, <3>2
    <3>3. CASE k = n /\ m # n
      <4>1. n - 1 \in Nat /\ <<n - 1, 0>> \in made /\ m <= n - 1
        BY <2>1, <2>2, <3>3
      <4> QED BY <2>1, <2>2, <4>1 DEF NumberedInOrder
    <3> QED BY <2>1, <2>2, <3>1, <3>2, <3>3
  <2> QED BY <1>1, <2>2 DEF Gather, NumberedInOrder, collector
<1>2. CASE Scan
  <2>1. PICK ok \in SUBSET Managers : /\ pending' = {scans + 1} \X ok
                                      /\ made' = made \cup ({scans + 1} \X ok)
    BY <1>2 DEF Scan
  <2>2. \A k : <<k, 0>> \in made' => <<k, 0>> \in made
    BY <2>1, PushAssumption
  <2>3. \A p \in pending' : p[1] = scans'
    BY <1>2, <2>1 DEF Scan
  <2>4. /\ \A p, q \in outgoing : p[1] = q[1]
        /\ \A p \in outgoing : p[1] <= scans + 1
    <3>1. \A p \in outgoing : p[1] \in Nat /\ p[1] <= scans
      BY DEF NumberedInOrder, SafeInv, TypeInv, TypeOK, Item
    <3> QED BY <1>t, <3>1 DEF NumberedInOrder
  <2>5. \A m, n \in Nat : 0 < m /\ m <= n /\ <<n, 0>> \in made' => <<m, 0>> \in made'
    BY <2>1, <2>2 DEF NumberedInOrder
  <2>6. outgoing' = outgoing /\ scans' = scans + 1
    BY <1>2 DEF Scan, pusher
  <2> QED BY <2>3, <2>4, <2>5, <2>6 DEF NumberedInOrder
<1>3. CASE TakeInventory
  BY <1>3, <1>t DEF TakeInventory, Emptied, NumberedInOrder, disk, history
<1>4. CASE Post \/ ProcessEnds
  BY <1>4 DEF Post, ProcessEnds, NumberedInOrder, disk, collector, history
<1>5. CASE UNCHANGED <<made, pending, scans, outgoing>>
  BY <1>5 DEF NumberedInOrder
<1>6. CASE Boot \/ Tick \/ Flush \/ RetrySpool
  BY <1>5, <1>6 DEF Boot, Tick, Flush, BeginReplay, RetrySpool, ReplayEnds, Discard,
                    Replay, Resent, ResendFails, collector, history
<1>7. CASE GatherFails \/ GatherMore \/ Sent \/ SendFails \/ SpoolFile
  BY <1>5, <1>7 DEF GatherFails, GatherMore, Sent, SendFails, SpoolFile, SpoolRefused,
                    Create, WriteFails, Write, Trim, TrimEnds, collector, history
<1>8. CASE Posted \/ PostFails \/ PushEnds
  BY <1>5, <1>8 DEF Posted, PostFails, PushEnds, collector, history
<1>9. CASE ReceiverTakes \/ Cancel \/ Restart \/ UNCHANGED vars
  BY <1>5, <1>9 DEF ReceiverTakes, Cancel, Restart, vars, pusher, collector, history
<1> QED
  BY <1>1, <1>2, <1>3, <1>4, <1>6, <1>7, <1>8, <1>9
     DEF Next, Continue, Sample, SendInventory

\* Steps that neither create a file nor take another item in hand.
LEMMA SpooledKept ==
    ASSUME SafeInv, SpooledInOrder, scans' \in Nat, scans <= scans',
           \A d \in Dirs : spool'[d] \subseteq spool[d],
           made \subseteq made', outgoing' \subseteq outgoing,
           \/ pc' \notin {"send", "posting", "spool"}
           \/ /\ UNCHANGED <<cur, dir>>
              /\ pc' = pc \/ (pc \in {"send", "posting"} /\ pc' = "spool")
    PROVE  SpooledInOrder'
<1>t. /\ spool \in [Dirs -> SUBSET File] /\ cur \in File /\ outgoing \subseteq Item
      /\ dir \in Dirs /\ scans \in Nat
      /\ pc = "send" => dir = "metrics"
      /\ pc = "posting" => dir = "inventory"
  BY PushAssumption DEF SafeInv, TypeInv, TypeOK, Control
<1>1. \A f \in spool["inventory"] : f.item[1] \in Nat
  BY <1>t DEF Dirs, File, Item
<1>2. cur.item[1] \in Nat
  BY <1>t DEF File, Item
<1>3. /\ \A d \in Dirs : \A f, g \in spool'[d] : f.name < g.name => f.item[1] <= g.item[1]
      /\ \A f \in spool'["metrics"] : f.item \in made' /\ f.item[2] = 0
      /\ \A f \in spool'["inventory"], p \in outgoing' : f.item[1] <= p[1]
  BY DEF SpooledInOrder, Dirs
<1>4. \A f \in spool'["inventory"] : f.item[1] <= scans'
  <2> SUFFICES ASSUME NEW f \in spool'["inventory"] PROVE f.item[1] <= scans'
    OBVIOUS
  <2>1. f \in spool["inventory"]
    BY DEF Dirs
  <2> QED BY <1>t, <1>1, <2>1 DEF SpooledInOrder
<1>5. ASSUME pc' \in {"send", "posting", "spool"}
      PROVE  /\ \A f \in spool'[dir'] : f.item[1] <= cur'.item[1]
             /\ pc' \in {"send", "spool"} /\ dir' = "metrics" => cur'.item[2] = 0
             /\ pc' \in {"posting", "spool"} /\ dir' = "inventory" =>
                   /\ cur'.item[1] <= scans'
                   /\ \A p \in outgoing' : cur'.item[1] = p[1]
  <2>1. /\ cur' = cur /\ dir' = dir /\ pc \in {"send", "posting", "spool"}
        /\ pc' = "send" => dir = "metrics"
        /\ pc' = "posting" => dir = "inventory"
        /\ pc' \in {"send", "spool"} /\ dir = "metrics" => pc \in {"send", "spool"}
        /\ pc' \in {"posting", "spool"} /\ dir = "inventory" => pc \in {"posting", "spool"}
    BY <1>t, <1>5
  <2>2. \A f \in spool'[dir'] : f.item[1] <= cur'.item[1]
    BY <1>t, <2>1 DEF SpooledInOrder
  <2>3. pc' \in {"send", "spool"} /\ dir' = "metrics" => cur'.item[2] = 0
    BY <2>1 DEF SpooledInOrder
  <2>4. ASSUME pc' \in {"posting", "spool"}, dir' = "inventory"
        PROVE  cur'.item[1] <= scans' /\ \A p \in outgoing' : cur'.item[1] = p[1]
    <3>1. cur.item[1] <= scans /\ \A p \in outgoing : cur.item[1] = p[1]
      BY <2>1, <2>4 DEF SpooledInOrder
    <3> QED BY <1>t, <1>2, <2>1, <3>1
  <2> QED BY <2>2, <2>3, <2>4
<1> QED BY <1>3, <1>4, <1>5 DEF SpooledInOrder

\* A new file has the newest name of its directory, and the newest item.
LEMMA SpooledCreated ==
    SafeInv /\ SpoolInv /\ SpooledInOrder /\ Create => SpooledInOrder'
<1> SUFFICES ASSUME SafeInv, SpoolInv, SpooledInOrder, Create PROVE SpooledInOrder'
  OBVIOUS
<1>1. PICK t \in {clock + 1} \cup ({clock} \cap {f.name : f \in spool[dir]}) :
         LET old  == {f \in spool[dir] : f.name = t}
             torn == [cur EXCEPT !.name = t, !.whole = FALSE]
         IN  /\ clock' = t /\ cur' = torn
             /\ spool' = [spool EXCEPT ![dir] = (@ \ old) \cup {torn}]
  BY DEF Create
<1>t. /\ dir \in Dirs /\ cur \in File /\ spool \in [Dirs -> SUBSET File] /\ clock \in Nat
      /\ cur.item \in made /\ cur.item[1] \in Nat
      /\ UNCHANGED <<made, scans, outgoing, dir>> /\ pc = "spool" /\ pc' = "write"
  BY HeldWasMade DEF SafeInv, TypeInv, TypeOK, Create, InHand, File, Item, history, collector
<1>2. cur'.name = t /\ cur'.item = cur.item /\ t \in Nat /\ clock <= t
  BY <1>1, <1>t DEF File
<1>3. \A d \in Dirs : d # dir => spool'[d] = spool[d]
  BY <1>1, <1>t
<1>4. spool'[dir] = {f \in spool[dir] : f.name # t} \cup {cur'}
  BY <1>1, <1>t
<1>5. \A f \in spool[dir] : f.item[1] <= cur.item[1] /\ f.name <= t /\ f.name \in Nat
  <2>1. \A f \in spool[dir] : f.item[1] <= cur.item[1]
    BY <1>t DEF SpooledInOrder
  <2>2. \A f \in spool[dir] : f.name \in Nat /\ f.name <= clock
    BY <1>t DEF File, SpoolInv
  <2> QED BY <1>2, <1>t, <2>1, <2>2
<1>6. \A d \in Dirs : \A f, g \in spool'[d] : f.name < g.name => f.item[1] <= g.item[1]
  <2> SUFFICES ASSUME NEW d \in Dirs, NEW f \in spool'[d], NEW g \in spool'[d],
                      f.name < g.name
               PROVE  f.item[1] <= g.item[1]
    OBVIOUS
  <2>1. CASE f \in spool[d] /\ g \in spool[d]
    BY <2>1 DEF SpooledInOrder
  <2>2. CASE d = dir /\ g = cur' /\ f \in spool[dir]
    BY <1>2, <1>5, <2>2
  <2>3. CASE d = dir /\ f = cur'
    <3>1. g.name <= t
      BY <1>2, <1>4, <1>5, <2>3
    <3>2. g.name \in Nat
      BY <1>2, <1>4, <1>5, <2>3
    <3> QED BY <1>2, <2>3, <3>1, <3>2
  <2> QED BY <1>3, <1>4, <2>1, <2>2, <2>3
<1>7. \A f \in spool'["metrics"] : f.item \in made' /\ f.item[2] = 0
  <2>1. CASE dir = "metrics"
    BY <1>2, <1>4, <1>t, <2>1 DEF SpooledInOrder
  <2>2. CASE dir # "metrics"
    BY <1>3, <1>t, <2>2 DEF SpooledInOrder, Dirs
  <2> QED BY <2>1, <2>2
<1>8. /\ \A f \in spool'["inventory"] : f.item[1] <= scans'
      /\ \A f \in spool'["inventory"], p \in outgoing' : f.item[1] <= p[1]
  <2>1. CASE dir = "inventory"
    <3>1. cur.item[1] <= scans /\ \A p \in outgoing : cur.item[1] = p[1]
      BY <1>t, <2>1 DEF SpooledInOrder
    <3>2. \A f \in spool'["inventory"] :
             (f.item[1] = cur.item[1]) \/ f \in spool["inventory"]
      BY <1>2, <1>4, <2>1
    <3>3. \A f \in spool'["inventory"] : f.item[1] <= scans'
      BY <1>t, <3>1, <3>2 DEF SpooledInOrder
    <3>4. ASSUME NEW f \in spool'["inventory"], NEW p \in outgoing' PROVE f.item[1] <= p[1]
      <4>1. p \in outgoing /\ cur.item[1] = p[1]
        BY <1>t, <3>1
      <4>2. CASE f.item[1] = cur.item[1]
        BY <1>t, <4>1, <4>2
      <4>3. CASE f \in spool["inventory"]
        BY <4>1, <4>3 DEF SpooledInOrder
      <4> QED BY <3>2, <4>2, <4>3
    <3> QED BY <3>3, <3>4
  <2>2. CASE dir # "inventory"
    BY <1>3, <1>t, <2>2 DEF SpooledInOrder, Dirs
  <2> QED BY <2>1, <2>2
<1> QED BY <1>6, <1>7, <1>8, <1>t DEF SpooledInOrder

\* Completing a file changes neither its name nor its item.
LEMMA SpooledWritten == SafeInv /\ SpooledInOrder /\ Write => SpooledInOrder'
<1> SUFFICES ASSUME SafeInv, SpooledInOrder, Write PROVE SpooledInOrder'
  OBVIOUS
<1> DEFINE whole == [cur EXCEPT !.whole = TRUE]
<1>t. /\ dir \in Dirs /\ cur \in File /\ spool \in [Dirs -> SUBSET File]
      /\ cur \in spool[dir] /\ UNCHANGED <<made, scans, outgoing>> /\ pc' = "trim"
  BY DEF SafeInv, TypeInv, TypeOK, Control, Write, collector, history
<1>1. /\ spool'[dir] = (spool[dir] \ {cur}) \cup {whole}
      /\ whole.name = cur.name /\ whole.item = cur.item
      /\ \A d \in Dirs : d # dir => spool'[d] = spool[d]
  BY <1>t DEF Write, File
<1> HIDE DEF whole
<1>2. \A d \in Dirs : \A f \in spool'[d] :
         \E g \in spool[d] : g.name = f.name /\ g.item = f.item
  BY <1>t, <1>1
<1>3. \A d \in Dirs : \A f, g \in spool'[d] : f.name < g.name => f.item[1] <= g.item[1]
  <2> SUFFICES ASSUME NEW d \in Dirs, NEW f \in spool'[d], NEW g \in spool'[d],
                      f.name < g.name
               PROVE  f.item[1] <= g.item[1]
    OBVIOUS
  <2>1. PICK a \in spool[d] : a.name = f.name /\ a.item = f.item
    BY <1>2
  <2>2. PICK b \in spool[d] : b.name = g.name /\ b.item = g.item
    BY <1>2
  <2>3. a.item[1] <= b.item[1]
    BY <2>1, <2>2 DEF SpooledInOrder
  <2> QED BY <2>1, <2>2, <2>3
<1>4. /\ \A f \in spool'["metrics"] : f.item \in made' /\ f.item[2] = 0
      /\ \A f \in spool'["inventory"] : f.item[1] <= scans'
      /\ \A f \in spool'["inventory"], p \in outgoing' : f.item[1] <= p[1]
  <2>1. "metrics" \in Dirs /\ "inventory" \in Dirs
    BY DEF Dirs
  <2>2. /\ \A f \in spool["metrics"] : f.item \in made /\ f.item[2] = 0
        /\ \A f \in spool["inventory"] : f.item[1] <= scans
        /\ \A f \in spool["inventory"], p \in outgoing : f.item[1] <= p[1]
    BY DEF SpooledInOrder
  <2>3. ASSUME NEW f \in spool'["metrics"] PROVE f.item \in made' /\ f.item[2] = 0
    <3>1. PICK g \in spool["metrics"] : g.item = f.item
      BY <1>2, <2>1
    <3>2. g.item \in made /\ g.item[2] = 0
      BY <2>2
    <3> QED BY <1>t, <3>1, <3>2
  <2>4. ASSUME NEW f \in spool'["inventory"]
        PROVE  f.item[1] <= scans' /\ \A p \in outgoing' : f.item[1] <= p[1]
    <3>1. PICK g \in spool["inventory"] : g.item = f.item
      BY <1>2, <2>1
    <3>2. g.item[1] <= scans /\ \A p \in outgoing : g.item[1] <= p[1]
      BY <2>2
    <3> QED BY <1>t, <3>1, <3>2
  <2> QED BY <2>3, <2>4
<1> QED BY <1>3, <1>4, <1>t DEF SpooledInOrder

\* A file is named when it is created, later than every file of older items.
LEMMA SpooledStep ==
    SafeInv /\ SpoolInv /\ NumberedInOrder /\ SpooledInOrder /\ [Next]_vars
        => SpooledInOrder'
<1> SUFFICES ASSUME SafeInv, SpoolInv, NumberedInOrder, SpooledInOrder, [Next]_vars
             PROVE  SpooledInOrder'
  OBVIOUS
<1>t. /\ dir \in Dirs /\ spool \in [Dirs -> SUBSET File] /\ scans \in Nat
      /\ outgoing \subseteq Item
  BY PushAssumption DEF SafeInv, TypeInv, TypeOK
<1>1. CASE Gather
  <2>1. PICK n \in 1..MaxSamples : /\ <<n, 0>> \notin made
                                   /\ made' = made \cup {<<n, 0>>}
                                   /\ cur' = Payload(<<n, 0>>)
    BY <1>1 DEF Gather
  <2>2. cur'.item[1] = n /\ cur'.item[2] = 0
    BY <2>1 DEF Payload
  <2>3. UNCHANGED <<spool, scans, outgoing>> /\ pc' = "send" /\ dir' = "metrics"
    BY <1>1 DEF Gather, disk, collector
  <2>4. ASSUME NEW f \in spool["metrics"] PROVE f.item[1] <= n
    <3>1. f.item \in Item /\ f.item \in made /\ f.item[2] = 0
      BY <1>t DEF SpooledInOrder, Dirs, File
    <3>2. f.item = <<f.item[1], 0>> /\ f.item[1] \in Nat
      BY <3>1 DEF Item
    <3>3. CASE n <= f.item[1]
      <4>1. <<n, 0>> \in made
        BY <2>1, <3>1, <3>2, <3>3 DEF NumberedInOrder
      <4> QED BY <2>1, <4>1
    <3> QED BY <2>1, <3>2, <3>3
  <2> QED BY <2>1, <2>2, <2>3, <2>4 DEF SpooledInOrder
<1>2. CASE TakeInventory
  <2>1. outgoing' = pending /\ UNCHANGED <<spool, scans, made>> /\ pc' = "post"
    BY <1>2 DEF TakeInventory, disk, history
  <2>2. \A f \in spool["inventory"], p \in pending : f.item[1] <= p[1]
    BY <1>t DEF SpooledInOrder, NumberedInOrder
  <2> QED BY <2>1, <2>2 DEF SpooledInOrder
<1>3. CASE Post
  <2>1. PICK p \in outgoing : cur' = Payload(p) /\ outgoing' = outgoing \ {p}
    BY <1>3 DEF Post
  <2>2. /\ UNCHANGED <<spool, scans, made>> /\ pc' = "posting" /\ dir' = "inventory"
        /\ cur'.item = p
    BY <1>3, <2>1 DEF Post, disk, collector, Payload
  <2>3. p[1] <= scans /\ \A q \in outgoing : p[1] = q[1]
    BY DEF NumberedInOrder
  <2> QED BY <2>1, <2>2, <2>3 DEF SpooledInOrder
<1>4. CASE Boot \/ Tick \/ Flush \/ ReplayEnds \/ Replay \/ ResendFails
  BY <1>4, <1>t, SpooledKept DEF Boot, Tick, Flush, BeginReplay, ReplayEnds,
       AfterReplay, Replay, ResendFails, disk, history, collector
<1>5. CASE Discard
  <2>1. PICK f : Remove("metrics", f)
    BY <1>5 DEF Discard
  <2>2. \A d \in Dirs : spool'[d] \subseteq spool[d]
    BY <1>t, <2>1 DEF Remove, Dirs
  <2> QED BY <1>5, <1>t, <2>2, SpooledKept DEF Discard, collector
<1>6. CASE Resent
  <2>1. \A d \in Dirs : spool'[d] \subseteq spool[d]
    BY <1>6, <1>t DEF Resent, Remove, Dirs
  <2> QED BY <1>6, <1>t, <2>1, SpooledKept DEF Resent, collector
<1>7. CASE Trim
  <2>1. PICK f : Remove(dir, f)
    BY <1>7 DEF Trim
  <2>2. \A d \in Dirs : spool'[d] \subseteq spool[d]
    BY <1>t, <2>1 DEF Remove
  <2> QED BY <1>7, <1>t, <2>2, SpooledKept DEF Trim, collector
<1>8. CASE GatherFails \/ GatherMore \/ Sent \/ SendFails
  BY <1>8, <1>t, SpooledKept DEF GatherFails, GatherMore, Sent, SendFails, Unsent,
       AfterSample, disk, history, collector
<1>9. CASE SpoolRefused \/ WriteFails \/ TrimEnds
  BY <1>9, <1>t, SpooledKept DEF SpoolRefused, WriteFails, TrimEnds, AfterSpool,
       AfterSample, disk, history, collector
<1>10. CASE Posted \/ PostFails \/ PushEnds
  BY <1>10, <1>t, SpooledKept DEF Posted, PostFails, PushEnds, disk, history, collector
<1>11. CASE Scan
  BY <1>11, <1>t, SpooledKept DEF Scan, pusher, disk
<1>12. CASE ReceiverTakes \/ Cancel \/ ProcessEnds \/ Restart \/ UNCHANGED vars
  BY <1>12, <1>t, SpooledKept DEF ReceiverTakes, Cancel, ProcessEnds, Restart, vars,
       pusher, disk, history, collector
<1> QED
  BY <1>1, <1>2, <1>3, <1>4, <1>5, <1>6, <1>7, <1>8, <1>9, <1>10, <1>11, <1>12,
     SpooledCreated, SpooledWritten
     DEF Next, Continue, RetrySpool, Sample, SpoolFile, SendInventory

\* A file off the list of a loop is off the disk or stuck, and was the oldest on it.
LEMMA VisitedStep == SafeInv /\ SpoolInv /\ VisitedInOrder /\ [Next]_vars => VisitedInOrder'
<1> SUFFICES ASSUME SafeInv, SpoolInv, VisitedInOrder, [Next]_vars PROVE VisitedInOrder'
  OBVIOUS
<1>t. /\ dir \in Dirs /\ spool \in [Dirs -> SUBSET File] /\ Control
      /\ \A d \in Dirs : \A f \in spool[d] : f.name \in Nat
      /\ \A d \in Dirs : \A f, g \in spool[d] : f.name = g.name => f = g
  BY DEF SafeInv, TypeInv, TypeOK, SpoolInv, File
<1>1. CASE Boot \/ Tick \/ Flush
  BY <1>1 DEF Boot, Tick, Flush, BeginReplay, Listed, VisitedInOrder, disk
<1>2. CASE ReplayEnds \/ ResendFails
  BY <1>2 DEF ReplayEnds, AfterReplay, ResendFails, VisitedInOrder
<1>3. CASE Replay
  BY <1>3 DEF Replay, VisitedInOrder, Oldest, disk, history
<1>4. CASE Discard
  <2>1. PICK f \in Oldest(todo) : Remove("metrics", f) /\ todo' = todo \ {f}
    BY <1>4 DEF Discard
  <2>2. /\ spool'["metrics"] \subseteq spool["metrics"] /\ stuck \subseteq stuck'
        /\ f \notin spool'["metrics"] \/ f \in stuck'
    BY <1>t, <2>1 DEF Remove, Dirs
  <2>3. spool["metrics"] \ stuck \subseteq todo /\ pc' = "replay"
    BY <1>4, <2>1 DEF Discard, VisitedInOrder, Oldest
  <2> QED BY <2>1, <2>2, <2>3 DEF VisitedInOrder
<1>5. CASE Resent
  <2>1. /\ spool'["metrics"] \subseteq spool["metrics"] /\ stuck \subseteq stuck'
        /\ cur \notin spool'["metrics"] \/ cur \in stuck'
        /\ todo' = todo \ {cur} /\ pc' = "replay"
    BY <1>5, <1>t DEF Resent, Remove, Dirs
  <2>2. spool["metrics"] \ stuck \subseteq todo
    BY <1>5 DEF Resent, VisitedInOrder, Oldest
  <2> QED BY <2>1, <2>2 DEF VisitedInOrder
<1>6. CASE Write
  <2>1. /\ pc' = "trim" /\ dir' = dir /\ todo' = Excess(spool'[dir])
    BY <1>6 DEF Write
  <2>2. /\ IsFiniteSet(spool'[dir]) /\ \A f \in spool'[dir] : f.name \in Nat
    <3>1. SpoolInv' /\ SafeInv'
      BY SpoolStep, SafeStep
    <3> QED BY <1>t, <2>1, <3>1 DEF SpoolInv, SafeInv, TypeInv, TypeOK, File
  <2>3. ASSUME NEW f \in todo', NEW g \in spool'[dir] \ todo' PROVE f.name < g.name
    <3>1. /\ f \in spool'[dir] /\ Cardinality(Newer(spool'[dir], f)) >= pushMaxSpoolSize
          /\ ~ (Cardinality(Newer(spool'[dir], g)) >= pushMaxSpoolSize)
      BY <2>1, <2>3 DEF Excess, Newer
    <3>2. CASE g.name <= f.name
      <4>1. /\ Newer(spool'[dir], f) \subseteq Newer(spool'[dir], g)
            /\ Newer(spool'[dir], g) \subseteq spool'[dir]
        BY <2>2, <3>1, <3>2 DEF Newer
      <4>2. /\ Cardinality(Newer(spool'[dir], f)) <= Cardinality(Newer(spool'[dir], g))
            /\ Cardinality(Newer(spool'[dir], f)) \in Nat
            /\ Cardinality(Newer(spool'[dir], g)) \in Nat
        <5>1. IsFiniteSet(Newer(spool'[dir], g)) /\ IsFiniteSet(Newer(spool'[dir], f))
          BY <2>2, <4>1, FS_Subset
        <5> QED BY <4>1, <5>1, FS_Subset, FS_CardinalityType
      <4> QED BY <3>1, <4>2, PushAssumption
    <3> QED BY <2>2, <3>1, <3>2
  <2> QED BY <2>1, <2>3 DEF VisitedInOrder
<1>7. CASE Trim
  <2>1. PICK f \in Oldest(todo) : Remove(dir, f) /\ todo' = todo \ {f}
    BY <1>7 DEF Trim
  <2>2. /\ spool'[dir] \subseteq spool[dir] /\ stuck \subseteq stuck'
        /\ f \notin spool'[dir] \/ f \in stuck'
        /\ pc = "trim" /\ pc' = "trim" /\ dir' = dir
    BY <1>7, <1>t, <2>1 DEF Trim, Remove
  <2>3. ASSUME NEW e \in todo', NEW g \in spool'[dir] \ (stuck' \cup todo')
        PROVE  e.name < g.name
    <3>1. e \in todo /\ g \in spool[dir] \ (stuck \cup todo)
      BY <2>1, <2>2, <2>3
    <3> QED BY <2>2, <3>1 DEF VisitedInOrder
  <2> QED BY <2>2, <2>3 DEF VisitedInOrder
<1>8. CASE Sample
  BY <1>8 DEF Sample, Gather, GatherFails, GatherMore, Sent, SendFails, Unsent,
              AfterSample, VisitedInOrder
<1>9. CASE SpoolRefused \/ Create \/ WriteFails \/ TrimEnds
  BY <1>9 DEF SpoolRefused, Create, WriteFails, TrimEnds, AfterSpool, AfterSample,
              VisitedInOrder
<1>10. CASE SendInventory
  BY <1>10 DEF SendInventory, TakeInventory, Post, Posted, PostFails, PushEnds,
               VisitedInOrder
<1>11. CASE Scan \/ ReceiverTakes \/ Cancel \/ UNCHANGED vars
  BY <1>11 DEF Scan, ReceiverTakes, Cancel, vars, pusher, disk, history, VisitedInOrder
<1>12. CASE ProcessEnds \/ Restart
  BY <1>12 DEF ProcessEnds, Restart, VisitedInOrder
<1> QED
  BY <1>1, <1>2, <1>3, <1>4, <1>5, <1>6, <1>7, <1>8, <1>9, <1>10, <1>11, <1>12
     DEF Next, Continue, RetrySpool, SpoolFile

\* A file that leaves a directory is the oldest that can still leave it.
LEMMA LeavesOldest ==
    ASSUME SafeInv, SpoolInv, OrderInv, [Next]_vars, pc # "spool",
           NEW d \in Dirs, NEW f \in spool[d] \ spool'[d],
           NEW g \in (spool[d] \cap spool'[d]) \ stuck, f.whole, g.whole
    PROVE  f.item[1] <= g.item[1]
<1>t. /\ dir \in Dirs /\ spool \in [Dirs -> SUBSET File] /\ Control
      /\ f.name \in Nat /\ g.name \in Nat /\ f # g
      /\ f.name = g.name => f = g
  BY DEF SafeInv, TypeInv, TypeOK, SpoolInv, File
<1>1. f.name <= g.name => f.item[1] <= g.item[1]
  <2>1. f.name < g.name => f.item[1] <= g.item[1]
    BY DEF OrderInv, SpooledInOrder
  <2> QED BY <1>t, <2>1
<1>2. CASE Discard
  <2>1. PICK h \in Oldest(todo) : Remove("metrics", h)
    BY <1>2 DEF Discard
  <2>2. d = "metrics" /\ f = h
    BY <1>t, <2>1 DEF Remove, Dirs
  <2>3. g \in todo
    BY <1>2, <2>1, <2>2 DEF Discard, OrderInv, VisitedInOrder, Oldest
  <2> QED BY <1>1, <2>1, <2>2, <2>3 DEF Oldest
<1>3. CASE Resent
  <2>1. d = "metrics" /\ f = cur /\ cur \in Oldest(todo)
    BY <1>3, <1>t DEF Resent, Remove, Dirs, OrderInv, VisitedInOrder
  <2>2. g \in todo
    BY <1>3, <2>1 DEF Resent, OrderInv, VisitedInOrder, Oldest
  <2> QED BY <1>1, <2>1, <2>2 DEF Oldest
<1>4. CASE Trim
  <2>1. PICK h \in Oldest(todo) : Remove(dir, h)
    BY <1>4 DEF Trim
  <2>2. d = dir /\ f = h /\ f \in todo
    BY <1>t, <2>1 DEF Remove, Oldest
  <2>3. f.name <= g.name
    <3>1. CASE g \in todo
      BY <2>1, <2>2, <3>1 DEF Oldest
    <3>2. CASE g \notin todo
      <4>1. f.name < g.name
        BY <1>4, <2>2, <3>2 DEF Trim, OrderInv, VisitedInOrder
      <4> QED BY <1>t, <4>1
    <3> QED BY <3>1, <3>2
  <2> QED BY <1>1, <2>3
<1>5. CASE Write
  <2>1. f = cur /\ ~cur.whole
    BY <1>5, <1>t DEF Write, Control
  <2> QED BY <2>1
<1>6. CASE Create
  BY <1>6 DEF Create
<1>7. CASE spool' = spool
  BY <1>7
<1>8. CASE Boot \/ Tick \/ Flush \/ ReplayEnds \/ Replay \/ ResendFails \/ Sample
  BY <1>7, <1>8 DEF Boot, Tick, Flush, BeginReplay, ReplayEnds, Replay, ResendFails,
       Sample, Gather, GatherFails, GatherMore, Sent, SendFails, disk
<1>9. CASE SpoolRefused \/ WriteFails \/ TrimEnds \/ SendInventory
  BY <1>7, <1>9 DEF SpoolRefused, WriteFails, TrimEnds, SendInventory, TakeInventory,
       Post, Posted, PostFails, PushEnds, disk
<1>10. CASE Scan \/ ReceiverTakes \/ Cancel \/ ProcessEnds \/ Restart \/ UNCHANGED vars
  BY <1>7, <1>10 DEF Scan, ReceiverTakes, Cancel, ProcessEnds, Restart, vars, disk
<1> QED
  BY <1>2, <1>3, <1>4, <1>5, <1>6, <1>8, <1>9, <1>10
     DEF Next, Continue, RetrySpool, SpoolFile

\* Replay and trim take the oldest file of a directory that os.Remove can still
\* take, whatever it left behind, whatever was torn and however often the
\* process died with files left over.
THEOREM PushOldestLeavesFirst == Spec => OldestFirst
<1>1. Init => SafeInv /\ SpoolInv /\ OrderInv
  BY SafeInit, SpoolInit, OrderInit
<1>2. SafeInv /\ SpoolInv /\ OrderInv /\ [Next]_vars => SafeInv' /\ SpoolInv' /\ OrderInv'
  BY SafeStep, SpoolStep, NumberedStep, SpooledStep, VisitedStep DEF OrderInv
<1>3. SafeInv /\ SpoolInv /\ OrderInv /\ [Next]_vars =>
        [ pc # "spool" =>
            \A d \in Dirs :
              \A f \in spool[d] \ spool'[d], g \in (spool[d] \cap spool'[d]) \ stuck :
                f.whole /\ g.whole => f.item[1] <= g.item[1] ]_vars
  BY LeavesOldest
<1> QED BY <1>1, <1>2, <1>3, PTL DEF Spec, OldestFirst

-----------------------------------------------------------------------------
(* The pusher implements Telemetry *)

\* What Telemetry owes and what it has lost.
Owed == (InHand \cup outgoing \cup Stored) \ received
Lost == Dropped \ received

\* Nothing that waits in the collector has been sent.
NotYetTaken == pending \cap received = {}

\* Between the request and the spool, what is sent is held by the pusher only.
LEMMA SentIsOwed ==
    ASSUME SafeInv, ReceiverTakes
    PROVE  /\ cur.item \in InHand \cup Stored /\ cur.item \notin pending \cup Dropped
           /\ received' = received \cup {cur.item}
           /\ UNCHANGED <<InHand, outgoing, pending, Stored, Dropped, scans, made>>
<1>1. /\ UNCHANGED <<pc, cur, outgoing, pending, spool, dropped, scans, made>>
      /\ received' = received \cup {cur.item}
      /\ pc \in {"resend", "send", "posting"} /\ ~Refused(cur)
  BY DEF ReceiverTakes, pusher, collector, disk, history
<1>2. /\ OnePlace /\ DroppedForGood /\ Control
  BY DEF SafeInv, TypeInv
<1>3. cur.item \in InHand \cup Stored
  <2>1. CASE pc = "resend"
    <3>1. cur \in spool["metrics"] /\ cur.whole
      BY <1>1, <1>2, <2>1 DEF Control, Refused
    <3>2. cur.item \in Held(spool["metrics"])
      BY <3>1, HeldIs
    <3> QED BY <3>2 DEF Stored
  <2>2. CASE pc \in {"send", "posting"}
    BY <2>2 DEF InHand
  <2> QED BY <1>1, <2>1, <2>2
<1>4. cur.item \notin pending \cup Dropped
  BY <1>2, <1>3 DEF OnePlace, DroppedForGood, InMemory
<1> QED BY <1>1, <1>3, <1>4 DEF InHand, Stored, Dropped

\* What a scan finds is new.
LEMMA FoundIsNew ==
    ASSUME SafeInv, Scan
    PROVE  \E ok \in SUBSET Managers :
              /\ pending' = {scans + 1} \X ok
              /\ made' = made \cup pending'
              /\ pending' \cap made = {}
<1>1. PICK ok \in SUBSET Managers : /\ pending' = {scans + 1} \X ok
                                    /\ made' = made \cup ({scans + 1} \X ok)
  BY DEF Scan
<1>2. \A i \in pending' : i[1] = scans + 1 /\ i[2] # 0
  BY <1>1, PushAssumption
<1>3. scans \in Nat /\ \A i \in made : i[2] # 0 => i[1] <= scans
  BY PushAssumption DEF SafeInv, TypeInv, TypeOK, OnePlace
<1>4. pending' \cap made = {}
  BY <1>2, <1>3
<1> QED BY <1>1, <1>4

\* Every other step leaves what was made, taken and scanned alone; what it adds to
\* the losses waits no longer.
LEMMA QuietSteps ==
    ASSUME SafeInv, SafeInv', [Next]_vars,
           ~Gather, ~Scan, ~TakeInventory, ~ReceiverTakes
    PROVE  /\ UNCHANGED <<made, received, scans>>
           /\ Dropped \subseteq Dropped' /\ pending' = pending \ Dropped'
<1>1. /\ dropped \in [Fates -> SUBSET made]
      /\ pending' \cap Dropped' = {}
  BY DEF SafeInv, TypeInv, TypeOK, DroppedForGood, InMemory
<1>2. ASSUME UNCHANGED dropped \/ \E why \in Fates : \E items : Drop(why, items)
      PROVE  Dropped \subseteq Dropped'
  <2>1. CASE UNCHANGED dropped
    BY <2>1 DEF Dropped
  <2>2. ASSUME NEW why \in Fates, NEW items, Drop(why, items)
        PROVE  Dropped \subseteq Dropped'
    BY <1>1, <2>2, DropAdds
  <2> QED BY <1>2, <2>1, <2>2
<1>3. CASE ProcessEnds
  <2>1. /\ UNCHANGED <<made, received, scans>> /\ pending' = {}
        /\ Drop("exit", InMemory) /\ "exit" \in Fates
    BY <1>3 DEF ProcessEnds, history, Fates
  <2>2. Dropped' = Dropped \cup InMemory
    BY <1>1, <2>1, DropAdds
  <2> QED BY <2>1, <2>2 DEF InMemory
<1>4. ASSUME UNCHANGED <<made, received, scans, pending>>,
             UNCHANGED dropped \/ \E why \in Fates : \E items : Drop(why, items)
      PROVE  /\ UNCHANGED <<made, received, scans>>
             /\ Dropped \subseteq Dropped' /\ pending' = pending \ Dropped'
  BY <1>1, <1>2, <1>4
<1>5. CASE Boot \/ Tick \/ Flush \/ Cancel \/ Restart \/ UNCHANGED vars
  BY <1>4, <1>5 DEF Boot, Tick, Flush, BeginReplay, Cancel, Restart, vars, collector,
                    history, pusher
<1>6. CASE RetrySpool
  BY <1>4, <1>6 DEF RetrySpool, ReplayEnds, Discard, Replay, Resent, ResendFails,
                    collector, history, Fates
<1>7. CASE Sample
  BY <1>4, <1>7 DEF Sample, GatherFails, GatherMore, Sent, SendFails, collector,
                    history
<1>8. CASE SpoolFile
  BY <1>4, <1>8 DEF SpoolFile, SpoolRefused, Create, WriteFails, Write, Trim,
                    TrimEnds, collector, history, Fates
<1>9. CASE SendInventory
  BY <1>4, <1>9 DEF SendInventory, Post, Posted, PostFails, PushEnds, collector,
                    history
<1> QED BY <1>3, <1>5, <1>6, <1>7, <1>8, <1>9 DEF Next, Continue

\* A snapshot is sent only after sendInventory took it.
LEMMA NotYetTakenStep ==
    SafeInv /\ SafeInv' /\ NotYetTaken /\ [Next]_vars => NotYetTaken'
<1> SUFFICES ASSUME SafeInv, SafeInv', NotYetTaken, [Next]_vars PROVE NotYetTaken'
  OBVIOUS
<1>1. CASE ReceiverTakes
  BY <1>1, SentIsOwed DEF NotYetTaken
<1>2. CASE Scan
  <2>1. received' = received /\ received \subseteq made
    BY <1>2 DEF Scan, SafeInv, TypeInv, TypeOK
  <2> QED BY <1>2, <2>1, FoundIsNew DEF NotYetTaken
<1>3. CASE Gather \/ TakeInventory
  BY <1>3 DEF Gather, TakeInventory, Emptied, collector, NotYetTaken
<1>4. CASE ~Gather /\ ~Scan /\ ~TakeInventory /\ ~ReceiverTakes
  BY <1>4, QuietSteps DEF NotYetTaken
<1> QED BY <1>1, <1>2, <1>3, <1>4

\* What Telemetry owes is what was made and neither taken, lost nor left waiting.
LEMMA OwedIsRest ==
    ASSUME ItemsAccounted, OnePlace, DroppedForGood
    PROVE  /\ Owed = made \ (received \cup Dropped \cup pending)
           /\ made = pending \cup Owed \cup received \cup Lost
           /\ Dropped \subseteq made
  BY DEF ItemsAccounted, OnePlace, DroppedForGood, InMemory, Owed, Lost

\* A step that makes, claims and takes nothing loses what it adds to the losses.
LEMMA QuietImplements ==
    ASSUME SafeInv, SafeInv', NotYetTaken, [Next]_vars,
           ~Gather, ~Scan, ~TakeInventory, ~ReceiverTakes
    PROVE  Abstract!Next
<1> DEFINE S == Lost' \ Lost
<1>1. /\ Owed = made \ (received \cup Dropped \cup pending)
      /\ Dropped \subseteq made /\ pending \cap Dropped = {}
  BY OwedIsRest DEF SafeInv, TypeInv, DroppedForGood, InMemory
<1>2. /\ Owed' = made' \ (received' \cup Dropped' \cup pending')
      /\ Dropped' \subseteq made'
  BY OwedIsRest DEF SafeInv, TypeInv, ItemsAccounted, OnePlace, DroppedForGood,
                    InMemory, Owed
<1>3. /\ UNCHANGED <<made, received, scans>>
      /\ Dropped \subseteq Dropped' /\ pending' = pending \ Dropped'
  BY QuietSteps
<1>4. /\ Owed' = Owed \ S /\ pending' = pending \ S /\ Lost' = Lost \cup S
      /\ S \in SUBSET (Owed \cup pending)
  BY <1>1, <1>2, <1>3 DEF Lost, NotYetTaken
<1> HIDE DEF S
<1>5. Abstract!Lose(S)
  BY <1>3, <1>4 DEF Abstract!Lose, Owed, Lost
<1> QED BY <1>4, <1>5 DEF Abstract!Next, Owed

\* A sample that is gathered is owed.
LEMMA GatherImplements ==
    ASSUME SafeInv, Gather
    PROVE  Abstract!Next
<1>1. PICK n \in 1..MaxSamples : /\ <<n, 0>> \notin made
                                 /\ n = 1 \/ <<n - 1, 0>> \in made
                                 /\ cur' = Payload(<<n, 0>>)
  BY DEF Gather
<1>2. /\ InHand = {} /\ InHand' = {<<n, 0>>}
      /\ UNCHANGED <<outgoing, pending, scans, spool, received, dropped>>
  BY <1>1 DEF Gather, InHand, Payload, collector, disk
<1>3. Stored' = Stored /\ Lost' = Lost
  BY <1>2 DEF Stored, Lost, Dropped
<1>4. /\ made = pending \cup Owed \cup received \cup Lost
      /\ received \subseteq made
  BY OwedIsRest DEF SafeInv, TypeInv, TypeOK
<1>5. Owed' = Owed \cup {<<n, 0>>}
  BY <1>1, <1>2, <1>3, <1>4 DEF Owed
<1>6. Abstract!Sample
  BY <1>1, <1>2, <1>3, <1>4, <1>5 DEF Abstract!Sample, Abstract!Known, Owed, Lost
<1> QED BY <1>6 DEF Abstract!Next

\* A scan replaces the snapshots that wait.
LEMMA ScanImplements ==
    ASSUME SafeInv, NotYetTaken, Scan
    PROVE  Abstract!Next
<1>1. PICK ok \in SUBSET Managers : pending' = {scans + 1} \X ok
  BY FoundIsNew
<1>2. /\ scans < MaxScans /\ scans' = scans + 1
      /\ UNCHANGED <<pc, cur, outgoing, spool, received>>
      /\ Drop("superseded", pending) /\ "superseded" \in Fates
      /\ dropped \in [Fates -> SUBSET made]
  BY DEF Scan, pusher, disk, Fates, SafeInv, TypeInv, TypeOK
<1>3. Dropped' = Dropped \cup pending
  BY <1>2, DropAdds
<1>4. Owed' = Owed /\ Lost' = Lost \cup pending
  BY <1>2, <1>3 DEF Owed, InHand, Stored, Lost, NotYetTaken
<1>5. Abstract!Scan
  BY <1>1, <1>2, <1>4 DEF Abstract!Scan, Owed, Lost
<1> QED BY <1>5 DEF Abstract!Next

\* sendInventory claims all snapshots that wait, none of which has been sent.
LEMMA TakeInventoryImplements ==
    ASSUME SafeInv, NotYetTaken, TakeInventory
    PROVE  [Abstract!Next]_(Abstract!vars)
<1>1. /\ InHand = {} /\ InHand' = {} /\ outgoing = {}
      /\ outgoing' = pending /\ pending' = {}
      /\ UNCHANGED <<scans, spool, received, dropped>>
  BY DEF TakeInventory, InHand, SafeInv, TypeInv, Control, Emptied, disk
<1>2. Stored' = Stored /\ Lost' = Lost
  BY <1>1 DEF Stored, Lost, Dropped
<1>3. Owed' = Owed \cup pending
  BY <1>1, <1>2 DEF Owed, NotYetTaken
<1>4. CASE pending = {}
  BY <1>1, <1>2, <1>3, <1>4 DEF Abstract!vars, Owed, Lost
<1>5. CASE pending # {}
  <2>1. Abstract!Claim
    BY <1>1, <1>2, <1>3, <1>5 DEF Abstract!Claim, Owed, Lost
  <2> QED BY <2>1 DEF Abstract!Next
<1> QED BY <1>4, <1>5

\* The receiver takes what is owed, or has it already.
LEMMA ReceiverTakesImplements ==
    ASSUME SafeInv, ReceiverTakes
    PROVE  [Abstract!Next]_(Abstract!vars)
<1>1. /\ cur.item \in InHand \cup Stored /\ cur.item \notin pending \cup Dropped
      /\ received' = received \cup {cur.item}
      /\ UNCHANGED <<InHand, outgoing, pending, Stored, Dropped, scans, made>>
  BY SentIsOwed
<1>2. Owed' = Owed \ {cur.item} /\ Lost' = Lost
  BY <1>1 DEF Owed, Lost
<1>3. CASE cur.item \in received
  BY <1>1, <1>2, <1>3 DEF Abstract!vars, Owed, Lost
<1>4. CASE cur.item \notin received
  <2>1. cur.item \in Owed
    BY <1>1, <1>4 DEF Owed
  <2>2. Abstract!Take(cur.item)
    BY <1>1, <1>2 DEF Abstract!Take, Owed, Lost
  <2> QED BY <2>1, <2>2 DEF Abstract!Next, Owed
<1> QED BY <1>3, <1>4

\* The pusher and the collector keep the promise of Telemetry through failing
\* writes, reads and removals, lost answers, replays, scans that overtake a push,
\* crashes and restarts.
THEOREM PushImplementsTelemetry == Spec => ImplementsTelemetry
<1>1. Init => NotYetTaken /\ Abstract!Init
  <2> SUFFICES ASSUME Init PROVE NotYetTaken /\ Abstract!Init
    OBVIOUS
  <2>1. /\ InHand = {} /\ Stored = {} /\ Dropped = {}
        /\ outgoing = {} /\ pending = {} /\ received = {} /\ scans = 0
    BY DEF Init, InHand, Stored, Held, Dropped, Dirs
  <2> QED BY <2>1 DEF NotYetTaken, Abstract!Init
<1>2. SafeInv /\ SafeInv' /\ NotYetTaken /\ [Next]_vars
        => NotYetTaken' /\ [Abstract!Next]_(Abstract!vars)
  <2> SUFFICES ASSUME SafeInv, SafeInv', NotYetTaken, [Next]_vars
               PROVE  [Abstract!Next]_(Abstract!vars)
    BY NotYetTakenStep
  <2> QED BY QuietImplements, GatherImplements, ScanImplements,
             TakeInventoryImplements, ReceiverTakesImplements
<1> QED BY <1>1, <1>2, PushSafety, PTL DEF Spec, ImplementsTelemetry, Abstract!Spec

=============================================================================
