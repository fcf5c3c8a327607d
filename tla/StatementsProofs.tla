--------------------------- MODULE StatementsProofs ---------------------------
(***************************************************************************)
(* Safety of the statements phase for every set of statements, gatherers,  *)
(* costs, buckets and faults, and every width of the top sets: types, no   *)
(* call counted twice or missed, latencies within their bounds, one-off     *)
(* statements kept out, a text for what is emitted.                        *)
(***************************************************************************)
EXTENDS Statements, TLAPS

-----------------------------------------------------------------------------
(* Types *)

\* What the types of the locals rest on: only the holder of the mutex is in a
\* phase, and it scans rows of its own snapshot.
Control ==
    /\ \A g \in Gatherers : pc[g] # "idle" => stmtMu = g
    /\ \A g \in Gatherers : seen[g] \subseteq DOMAIN snap[g]

TypeInv == TypeOK /\ Control

\* A row after a run is a row.
LEMMA RanIsRow ==
    ASSUME AreRows(stats), NEW k, NEW cost \in Costs, NEW n \in Nat
    PROVE  Ran(k, cost, n) \in Row
<1>1. cost \in [Dims -> Nat] /\ cost["time"] \in Nat
  BY StatementsAssumption
<1>2. CASE k \in DOMAIN stats
  <2>1. stats[k] \in Row
    BY <1>2 DEF AreRows
  <2>2. [d \in Dims |-> stats[k].count[d] + cost[d]] \in [Dims -> Nat]
    BY <1>1, <2>1 DEF Row
  <2> QED BY <1>1, <1>2, <2>1, <2>2 DEF Ran, Row, Lesser, Greater
<1>3. CASE k \notin DOMAIN stats
  BY <1>1, <1>3 DEF Ran, Row
<1> QED BY <1>2, <1>3

\* Growth is a number for each counter.
LEMMA GrowthTyped ==
    ASSUME AreRows(prevStmts), NEW k, NEW row \in Row
    PROVE  /\ Before(k, row) \in Row
           /\ Growth(k, row) \in [Dims -> Int]
<1>1. Before(k, row) \in Row
  BY DEF Before, AreRows
<1> QED BY <1>1 DEF Growth, Row

\* A bucket never shrinks.
LEMMA PlacedTyped ==
    ASSUME NEW row \in Row, NEW prev \in Row, NEW growth \in [Dims -> Int],
           Feeds(growth), NEW le \in Buckets
    PROVE  Placed(row, prev, growth, le) \in Nat
<1>1. /\ growth["calls"] \in Int /\ growth["calls"] > 0
      /\ growth["time"] \in Int /\ le \in Nat
      /\ row.slowest \in Nat /\ row.fastest \in Nat
      /\ prev.slowest \in Nat /\ prev.fastest \in Nat
  BY StatementsAssumption DEF Feeds, Row
<1> DEFINE slow == NewSlowest(row, prev, growth["calls"])
           left == growth["calls"] - One(slow)
           fast == NewFastest(row, prev, left)
           rest == left - One(fast)
           time == growth["time"] - (IF slow THEN row.slowest ELSE 0)
                                  - (IF fast THEN row.fastest ELSE 0)
<1>2. left \in Nat /\ left > 0
  BY <1>1 DEF One, NewSlowest
<1>3. rest \in Nat /\ rest > 0
  BY <1>1, <1>2 DEF One, NewFastest
<1>4. One(slow /\ row.slowest <= le) \in Nat /\ One(fast /\ row.fastest <= le) \in Nat
  BY DEF One
<1>5. (IF time <= le * rest THEN rest ELSE 0) \in Nat
  BY <1>3
<1>6. Placed(row, prev, growth, le) =
        One(slow /\ row.slowest <= le) + One(fast /\ row.fastest <= le)
        + (IF time <= le * rest THEN rest ELSE 0)
  BY DEF Placed
<1> HIDE DEF slow, left, fast, rest, time
<1> QED BY <1>4, <1>5, <1>6

\* It holds at the start.
LEMMA TypeInit == Init => TypeInv
<1> SUFFICES ASSUME Init PROVE TypeInv
  OBVIOUS
<1>1. AreRows(NoRows)
  BY DEF AreRows, NoRows
<1>2. Nobody \notin Gatherers /\ [k \in Keys |-> NoGrowth] \in [Keys -> [Dims -> Int]]
  BY StatementsAssumption DEF NoGrowth
<1> QED BY <1>1, <1>2 DEF Init, TypeInv, TypeOK, Control

\* Every step keeps it.
LEMMA TypeStep == TypeInv /\ [Next]_vars => TypeInv'
<1> SUFFICES ASSUME TypeInv, [Next]_vars PROVE TypeInv'
  OBVIOUS
<1>t. TypeOK /\ Control
  BY DEF TypeInv
<1> USE <1>t DEF TypeInv, TypeOK, Control
<1>1. ASSUME NEW k \in Keys, Execute(k) PROVE TypeInv'
  <2>1. PICK cost \in Costs :
            stats' = [i \in DOMAIN stats \cup {k} |->
                         IF i = k THEN Ran(k, cost, ran[k] + 1) ELSE stats[i]]
    BY <1>1, Zenon DEF Execute
  <2>2. Ran(k, cost, ran[k] + 1) \in Row
    BY RanIsRow
  <2>3. AreRows(stats')
    BY <2>1, <2>2 DEF AreRows
  <2>4. ran' \in [Keys -> Nat]
    BY <1>1 DEF Execute
  <2> QED BY <1>1, <2>3, <2>4 DEF Execute, locals, histogram, AreRows
<1>2. ASSUME NEW k \in Keys, Forget(k) PROVE TypeInv'
  <2>1. AreRows(stats')
    BY <1>2 DEF Forget, AreRows
  <2> QED BY <1>2, <2>1 DEF Forget, locals, histogram, AreRows
<1>3. ASSUME NEW g \in Gatherers, QueryFails(g) PROVE TypeInv'
  BY <1>3 DEF QueryFails, postgres, locals, histogram, AreRows
<1>4. ASSUME NEW g \in Gatherers, Query(g) PROVE TypeInv'
  <2>1. /\ DOMAIN snap' = Gatherers
        /\ \A h \in Gatherers : snap'[h] = IF h = g THEN stats ELSE snap[h]
        /\ \A h \in Gatherers : seen'[h] = IF h = g THEN {} ELSE seen[h]
        /\ \A h \in Gatherers : pc'[h] = IF h = g THEN "rows" ELSE pc[h]
    BY <1>4 DEF Query
  <2>2. \A h \in Gatherers : pc[h] = "idle"
    BY <1>4, StatementsAssumption DEF Query, TryLock
  <2>3. Control'
    BY <1>4, <2>1, <2>2 DEF Query
  <2>4. delta' \in [Gatherers -> [Keys -> [Dims -> Int]]]
    BY <1>4 DEF Query, NoGrowth
  <2>5. \A h \in Gatherers : AreRows(snap'[h])
    BY <2>1
  <2> QED BY <1>4, <2>1, <2>3, <2>4, <2>5 DEF Query, postgres, histogram, AreRows
<1>5. ASSUME NEW g \in Gatherers, NEW k \in Keys, ScanRow(g, k) PROVE TypeInv'
  <2> DEFINE row    == snap[g][k]
             growth == Growth(k, row)
  <2>1. k \in DOMAIN snap[g] /\ row \in Row
    BY <1>5 DEF ScanRow, AreRows
  <2>2. growth \in [Dims -> Int] /\ Before(k, row) \in Row /\ Calls(row) \in Nat
    BY <2>1, GrowthTyped, StatementsAssumption DEF Row, Calls
  <2>3. AreRows(prevStmts')
    BY <1>5, <2>1 DEF ScanRow, AreRows
  <2>4. /\ histBuckets' \in [Buckets -> Nat] /\ histCount' \in Nat
        /\ histSum' \in Nat /\ fed' \in [Keys -> Nat]
    <3> HIDE DEF growth, row
    <3>1. CASE Feeds(growth)
      <4>1. FeedHistogram(k, row, growth)
        BY <1>5, <3>1 DEF ScanRow, growth, row
      <4>2. \A le \in Buckets : Placed(row, Before(k, row), growth, le) \in Nat
        BY <2>1, <2>2, <3>1, PlacedTyped
      <4>3. growth["calls"] \in Nat /\ growth["time"] \in Nat
        BY <2>2, <3>1, StatementsAssumption DEF Feeds
      <4>4. histBuckets' \in [Buckets -> Nat]
        BY <4>1, <4>2 DEF FeedHistogram
      <4> QED BY <4>1, <4>3, <4>4 DEF FeedHistogram
    <3>2. CASE ~Feeds(growth)
      BY <1>5, <3>2 DEF ScanRow, histogram, growth, row
    <3> QED BY <3>1, <3>2
  <2>7. delta' \in [Gatherers -> [Keys -> [Dims -> Int]]]
    BY <1>5, <2>2 DEF ScanRow
  <2>8. base' \in [Keys -> Nat]
    BY <1>5, <2>2 DEF ScanRow
  <2>9. /\ seen' \in [Gatherers -> SUBSET Keys]
        /\ \A h \in Gatherers : seen'[h] \subseteq DOMAIN snap'[h]
    BY <1>5, <2>1 DEF ScanRow
  <2> HIDE DEF growth, row
  <2> QED BY <1>5, <2>3, <2>4, <2>7, <2>8, <2>9 DEF ScanRow, postgres
<1>6. ASSUME NEW g \in Gatherers, RowsEnd(g) PROVE TypeInv'
  <2>1. AreRows(prevStmts')
    BY <1>6 DEF RowsEnd, AreRows
  <2>2. AreRows(NoRows)
    BY DEF AreRows, NoRows
  <2>3. /\ DOMAIN snap' = Gatherers /\ \A h \in Gatherers : AreRows(snap'[h])
        /\ \A h \in Gatherers : seen'[h] \subseteq DOMAIN snap'[h]
    BY <1>6, <2>2 DEF RowsEnd
  <2>4. prevTopKeys' \subseteq Keys /\ shown' \subseteq Keys
        /\ topMeta' \in [Gatherers -> SUBSET Keys]
    BY <1>6 DEF RowsEnd, DebounceTop
  <2>5. delta' \in [Gatherers -> [Keys -> [Dims -> Int]]]
    BY <1>6 DEF RowsEnd, NoGrowth
  <2>6. unread' \in [Gatherers -> BOOLEAN]
    BY <1>6 DEF RowsEnd
  <2>7. \A h \in Gatherers : pc'[h] # "idle" => stmtMu' = h
    BY <1>6 DEF RowsEnd
  <2>8. disturbed' \subseteq Keys
    BY <1>6 DEF RowsEnd, AreRows
  <2> QED BY <1>6, <2>1, <2>3, <2>4, <2>5, <2>6, <2>7, <2>8
          DEF RowsEnd, postgres, histogram, AreRows
<1>7. ASSUME NEW g \in Gatherers, NoMeta(g) \/ MetaFails(g) \/ StoreMeta(g)
      PROVE  TypeInv'
  <2>1. Unlock(g) /\ pc[g] = "meta"
    BY <1>7 DEF NoMeta, MetaFails, StoreMeta
  <2>2. Control'
    BY <2>1 DEF Unlock
  <2>3. /\ AreRows(stats') /\ AreRows(prevStmts')
        /\ \A h \in Gatherers : AreRows(snap'[h])
    BY <2>1 DEF Unlock, postgres, AreRows
  <2>4. queryMeta' \subseteq Keys /\ disturbed' \subseteq Keys /\ metaFailures' \in 0..2
    BY <1>7 DEF NoMeta, MetaFails, StoreMeta, AreRows, Lesser
  <2> QED BY <2>1, <2>2, <2>3, <2>4 DEF Unlock, postgres, histogram
<1>8. ASSUME NEW g \in Gatherers, WriteMetric(g) PROVE TypeInv'
  BY <1>8 DEF WriteMetric, postgres, locals, histogram, AreRows
<1>9. CASE UNCHANGED vars
  BY <1>9 DEF vars, postgres, locals, histogram, AreRows
<1> QED BY <1>1, <1>2, <1>3, <1>4, <1>5, <1>6, <1>7, <1>8, <1>9 DEF Next, Phase

\* Every variable keeps its type, and the unsigned counters of the histogram
\* never shrink (feedHistogram).
THEOREM StatementsTypeCorrect == Spec => []TypeOK
<1>1. Init => TypeInv
  BY TypeInit
<1>2. TypeInv /\ [Next]_vars => TypeInv'
  BY TypeStep
<1>3. TypeInv => TypeOK
  BY DEF TypeInv
<1> QED BY <1>1, <1>2, <1>3, PTL DEF Spec

-----------------------------------------------------------------------------
(* No call is counted twice *)

Beyond(a, b) == IF a > b THEN a - b ELSE 0

\* the calls PostgreSQL holds of a statement
Held(k) == IF k \in DOMAIN stats THEN Calls(stats[k]) ELSE 0

\* The calls already fed and those that the next differences may still add are
\* no more than ran: between two phases the difference of the live counter to
\* the previous one, during a phase also that of the snapshot to it.
CountInv ==
    /\ \A k \in Keys :
        /\ fed[k] <= ran[k]
        /\ k \in DOMAIN prevStmts =>
              fed[k] + Beyond(Held(k), Calls(prevStmts[k])) <= ran[k]
    /\ \A g \in Gatherers : pc[g] = "rows" =>
        \A k \in DOMAIN snap[g] \ seen[g] :
            /\ fed[k] + Beyond(Held(k), Calls(snap[g][k])) <= ran[k]
            /\ k \in DOMAIN prevStmts =>
                  fed[k] + Beyond(Calls(snap[g][k]), Calls(prevStmts[k]))
                         + Beyond(Held(k), Calls(snap[g][k])) <= ran[k]

\* The counters are numbers.
LEMMA CallsTyped ==
    ASSUME TypeInv
    PROVE  /\ \A k \in Keys : Held(k) \in Nat /\ fed[k] \in Nat /\ ran[k] \in Nat
           /\ \A k \in DOMAIN stats : k \in Keys /\ Calls(stats[k]) \in Nat
           /\ \A k \in DOMAIN prevStmts : k \in Keys /\ Calls(prevStmts[k]) \in Nat
           /\ \A g \in Gatherers : \A k \in DOMAIN snap[g] :
                  k \in Keys /\ Calls(snap[g][k]) \in Nat
<1>1. \A row \in Row : Calls(row) \in Nat
  BY StatementsAssumption DEF Row, Calls
<1>2. \A k \in DOMAIN stats : k \in Keys /\ Calls(stats[k]) \in Nat
  BY <1>1 DEF TypeInv, TypeOK, AreRows
<1> QED BY <1>1, <1>2 DEF TypeInv, TypeOK, AreRows, Held

\* What a step of PostgreSQL may do to the calls it holds.
LEMMA HeldSteps ==
    ASSUME TypeInv, NEW k \in Keys, Execute(k) \/ Forget(k)
    PROVE  /\ \A i \in Keys \ {k} : Held(i)' = Held(i) /\ ran'[i] = ran[i]
           /\ \/ Held(k)' = Held(k) + 1 /\ ran'[k] = ran[k] + 1
              \/ Held(k)' = 0 /\ ran'[k] = ran[k]
<1>t. TypeOK
  BY DEF TypeInv
<1>1. CASE Execute(k)
  <2>1. PICK cost \in Costs :
            /\ ran' = [ran EXCEPT ![k] = @ + 1]
            /\ stats' = [i \in DOMAIN stats \cup {k} |->
                            IF i = k THEN Ran(k, cost, ran[k] + 1) ELSE stats[i]]
    BY <1>1 DEF Execute
  <2>2. Calls(Ran(k, cost, ran[k] + 1)) =
            IF k \in DOMAIN stats THEN Calls(stats[k]) + 1 ELSE 1
    BY StatementsAssumption DEF Ran, Calls
  <2>3. Held(k)' = Held(k) + 1
    BY <2>1, <2>2 DEF Held, Calls
  <2>4. \A i \in Keys \ {k} : Held(i)' = Held(i)
    BY <2>1 DEF Held, Calls
  <2> QED BY <2>1, <2>3, <2>4, <1>t DEF TypeOK
<1>2. CASE Forget(k)
  BY <1>2, <1>t DEF Forget, Held, Calls
<1> QED BY <1>1, <1>2

\* At most one gatherer scans.
LEMMA OneScans ==
    ASSUME TypeInv, NEW g \in Gatherers, NEW h \in Gatherers,
           pc[g] # "idle", pc[h] # "idle"
    PROVE  g = h
  BY DEF TypeInv, Control

\* What the growth of a statement does to the calls fed.
LEMMA FedGrows ==
    ASSUME TypeInv, NEW g \in Gatherers, NEW k \in Keys, ScanRow(g, k)
    PROVE  /\ \A i \in Keys \ {k} : fed'[i] = fed[i]
           /\ fed'[k] <= fed[k] +
                (IF k \in DOMAIN prevStmts
                 THEN Beyond(Calls(snap[g][k]), Calls(prevStmts[k])) ELSE 0)
           /\ fed'[k] \in Nat
<1> DEFINE row    == snap[g][k]
           growth == Growth(k, row)
<1>1. k \in DOMAIN snap[g] /\ fed \in [Keys -> Nat]
  BY DEF ScanRow, TypeInv, TypeOK
<1>2. /\ Calls(row) \in Nat
      /\ k \in DOMAIN prevStmts => Calls(prevStmts[k]) \in Nat
  BY <1>1, CallsTyped
<1>3. growth["calls"] = IF k \in DOMAIN prevStmts
                        THEN Calls(row) - Calls(prevStmts[k]) ELSE 0
  BY <1>2, StatementsAssumption DEF Growth, Before, Calls
<1>4. CASE Feeds(growth)
  <2>1. fed' = [fed EXCEPT ![k] = @ + growth["calls"]] /\ growth["calls"] > 0
    BY <1>4 DEF ScanRow, FeedHistogram, Feeds
  <2> QED BY <2>1, <1>1, <1>2, <1>3 DEF Beyond
<1>5. CASE ~Feeds(growth)
  BY <1>5, <1>1, <1>2 DEF ScanRow, Beyond
<1> QED BY <1>4, <1>5

\* Every step keeps the count.
LEMMA CountStep == TypeInv /\ CountInv /\ [Next]_vars => CountInv'
<1> SUFFICES ASSUME TypeInv, CountInv, [Next]_vars PROVE CountInv'
  OBVIOUS
<1>t. TypeOK /\ Control
  BY DEF TypeInv
<1>n. /\ \A k \in Keys : Held(k) \in Nat /\ fed[k] \in Nat /\ ran[k] \in Nat
      /\ \A k \in DOMAIN prevStmts : k \in Keys /\ Calls(prevStmts[k]) \in Nat
      /\ \A g \in Gatherers : \A k \in DOMAIN snap[g] :
             k \in Keys /\ Calls(snap[g][k]) \in Nat
  BY CallsTyped
<1>1. ASSUME NEW k \in Keys, Execute(k) \/ Forget(k) PROVE CountInv'
  <2>1. UNCHANGED <<fed, prevStmts, pc, snap, seen>>
    BY <1>1 DEF Execute, Forget, locals
  <2>2. /\ \A i \in Keys \ {k} : Held(i)' = Held(i) /\ ran'[i] = ran[i]
        /\ \/ Held(k)' = Held(k) + 1 /\ ran'[k] = ran[k] + 1
           \/ Held(k)' = 0 /\ ran'[k] = ran[k]
    BY <1>1, HeldSteps
  <2>3. \A a, b, n \in Nat :
            /\ Beyond(a + 1, b) <= Beyond(a, b) + 1
            /\ Beyond(0, b) <= Beyond(a, b)
            /\ Beyond(a, b) \in Nat
    BY DEF Beyond
  <2>4. \A i \in Keys : \A b \in Nat :
            /\ Held(i)' \in Nat /\ ran'[i] \in Nat /\ ran'[i] >= ran[i]
            /\ Beyond(Held(i)', b) \in Nat /\ Beyond(Held(i), b) \in Nat
            /\ Beyond(Held(i)', b) - Beyond(Held(i), b) <= ran'[i] - ran[i]
    BY <2>2, <1>n DEF Beyond
  <2>5. \A i \in Keys : fed'[i] <= ran'[i]
    BY <2>1, <2>4, <1>n DEF CountInv
  <2>6. \A i \in DOMAIN prevStmts' :
            fed'[i] + Beyond(Held(i)', Calls(prevStmts'[i])) <= ran'[i]
    BY <2>1, <2>4, <1>n DEF CountInv
  <2>7. ASSUME NEW g \in Gatherers, pc'[g] = "rows",
               NEW i \in DOMAIN snap'[g] \ seen'[g]
        PROVE  /\ fed'[i] + Beyond(Held(i)', Calls(snap'[g][i])) <= ran'[i]
               /\ i \in DOMAIN prevStmts' =>
                    fed'[i] + Beyond(Calls(snap'[g][i]), Calls(prevStmts'[i]))
                            + Beyond(Held(i)', Calls(snap'[g][i])) <= ran'[i]
    <3>1. /\ i \in Keys /\ Calls(snap[g][i]) \in Nat
          /\ i \in DOMAIN prevStmts => Calls(prevStmts[i]) \in Nat
      BY <2>1, <2>7, <1>n
    <3>2. i \in DOMAIN prevStmts =>
              Beyond(Calls(snap[g][i]), Calls(prevStmts[i])) \in Nat
      BY <3>1 DEF Beyond
    <3> QED BY <2>1, <2>4, <2>7, <3>1, <3>2, <1>n DEF CountInv
  <2> QED BY <2>5, <2>6, <2>7 DEF CountInv, Calls
<1>2. ASSUME NEW g \in Gatherers, Query(g) PROVE CountInv'
  <2>1. /\ UNCHANGED <<fed, prevStmts, stats, ran>>
        /\ snap'[g] = stats /\ seen'[g] = {}
        /\ \A h \in Gatherers : pc'[h] = "rows" => h = g
    BY <1>2, <1>t, StatementsAssumption
    DEF Query, postgres, TryLock, TypeOK, Control
  <2>2. \A k \in DOMAIN stats : Beyond(Held(k), Calls(stats[k])) = 0 /\ k \in Keys
                                /\ Held(k) = Calls(stats[k]) /\ Held(k) \in Nat
    BY CallsTyped DEF Held, Beyond
  <2>3. ASSUME NEW k \in DOMAIN stats
        PROVE  /\ fed[k] + Beyond(Held(k), Calls(stats[k])) <= ran[k]
               /\ k \in DOMAIN prevStmts =>
                    fed[k] + Beyond(Calls(stats[k]), Calls(prevStmts[k]))
                           + Beyond(Held(k), Calls(stats[k])) <= ran[k]
    BY <2>2, <1>n DEF CountInv, Beyond
  <2> QED BY <2>1, <2>3 DEF CountInv, Held, Calls
<1>3. ASSUME NEW g \in Gatherers, NEW k \in Keys, ScanRow(g, k) PROVE CountInv'
  <2>1. /\ UNCHANGED <<stats, ran, pc, snap>>
        /\ pc[g] = "rows" /\ k \in DOMAIN snap[g] \ seen[g]
        /\ prevStmts' = [i \in DOMAIN prevStmts \cup {k} |->
                            IF i = k THEN snap[g][k] ELSE prevStmts[i]]
        /\ seen'[g] = seen[g] \cup {k}
        /\ \A h \in Gatherers : pc[h] = "rows" => h = g
    BY <1>3, <1>t, OneScans DEF ScanRow, postgres, TypeOK
  <2>2. /\ \A i \in Keys \ {k} : fed'[i] = fed[i]
        /\ fed'[k] <= fed[k] + (IF k \in DOMAIN prevStmts
               THEN Beyond(Calls(snap[g][k]), Calls(prevStmts[k])) ELSE 0)
        /\ fed'[k] \in Nat
    BY <1>3, FedGrows
  <2>3. /\ fed[k] + Beyond(Held(k), Calls(snap[g][k])) <= ran[k]
        /\ k \in DOMAIN prevStmts =>
              fed[k] + Beyond(Calls(snap[g][k]), Calls(prevStmts[k]))
                     + Beyond(Held(k), Calls(snap[g][k])) <= ran[k]
    BY <2>1 DEF CountInv
  <2>4. Beyond(Held(k), Calls(snap[g][k])) \in Nat
    BY <2>1, <1>n DEF Beyond
  <2>5. k \in DOMAIN prevStmts =>
            Beyond(Calls(snap[g][k]), Calls(prevStmts[k])) \in Nat
    BY <2>1, <1>n DEF Beyond
  <2>6. fed'[k] + Beyond(Held(k), Calls(snap[g][k])) <= ran[k] /\ fed'[k] <= ran[k]
    BY <2>2, <2>3, <2>4, <2>5, <1>n
  <2>7. \A i \in Keys : /\ Held(i)' = Held(i) /\ fed'[i] <= ran'[i]
                        /\ i \in DOMAIN prevStmts' =>
                              fed'[i] + Beyond(Held(i), Calls(prevStmts'[i])) <= ran[i]
    BY <2>1, <2>2, <2>6 DEF CountInv, Held, Calls
  <2>8. \A i \in DOMAIN snap[g] \ seen'[g] :
            /\ i \in Keys \ {k}
            /\ i \in DOMAIN prevStmts' => i \in DOMAIN prevStmts
                                          /\ prevStmts'[i] = prevStmts[i]
    BY <2>1, <1>n
  <2> QED BY <2>1, <2>2, <2>7, <2>8 DEF CountInv, Calls
<1>4. ASSUME NEW g \in Gatherers, RowsEnd(g) PROVE CountInv'
  <2>1. /\ UNCHANGED <<stats, ran, fed>>
        /\ prevStmts' = [k \in DOMAIN prevStmts \cap seen[g] |-> prevStmts[k]]
        /\ pc' = [pc EXCEPT ![g] = "meta"] /\ pc[g] = "rows"
    BY <1>4 DEF RowsEnd, postgres
  <2>2. \A h \in Gatherers : pc'[h] # "rows"
    BY <2>1, <1>t, OneScans DEF TypeOK
  <2> QED BY <2>1, <2>2 DEF CountInv, Held, Calls
<1>5. ASSUME NEW g \in Gatherers,
             \/ QueryFails(g) \/ NoMeta(g) \/ MetaFails(g) \/ StoreMeta(g)
             \/ WriteMetric(g) \/ UNCHANGED vars
      PROVE  CountInv'
  <2>1. /\ UNCHANGED <<stats, ran, fed, prevStmts, snap, seen>>
        /\ \A h \in Gatherers : pc'[h] = "rows" => pc[h] = "rows"
    BY <1>5, <1>t DEF QueryFails, NoMeta, MetaFails, StoreMeta, Unlock, WriteMetric,
                      vars, postgres, locals, TypeOK
  <2> QED BY <2>1 DEF CountInv, Held, Calls
<1>6. CASE UNCHANGED vars
  BY <1>6 DEF vars, postgres, locals, CountInv, Held, Calls
<1> QED BY <1>1, <1>2, <1>3, <1>4, <1>5, <1>6 DEF Next, Phase

\* The histogram is never fed with more calls of a statement than ran, whatever
\* resets, evictions, results cut short and a second gatherer do to the
\* previous counters (collectStatements, scanStatements).
THEOREM CallsCountedOnce == Spec => []NoCallCountedTwice
<1>1. Init => TypeInv /\ CountInv
  BY TypeInit DEF Init, CountInv, NoRows
<1>2. TypeInv /\ CountInv /\ [Next]_vars => (TypeInv /\ CountInv)'
  BY TypeStep, CountStep
<1>3. CountInv => NoCallCountedTwice
  BY DEF CountInv, NoCallCountedTwice
<1> QED BY <1>1, <1>2, <1>3, PTL DEF Spec

-----------------------------------------------------------------------------
(* One-off statements stay out *)

\* b is a later row of the statement of a: it counts more only if it ran since.
Rose(a, b) == /\ a.ever <= b.ever
              /\ \A d \in Dims : b.count[d] > a.count[d] => a.ever < b.ever

\* Between any two of the previous row, the snapshot and the live row a counter
\* grows only by a run, over resets and evictions too; so a statement in the
\* last top set ran twice before it was read, and one that grew again has run a
\* third time.
EverInv ==
    /\ \A k \in DOMAIN stats : stats[k].ever = ran[k] /\ ran[k] >= 1
    /\ \A k \in DOMAIN prevStmts :
        /\ 1 <= prevStmts[k].ever /\ prevStmts[k].ever <= ran[k]
        /\ k \in DOMAIN stats => Rose(prevStmts[k], stats[k])
    /\ \A k \in prevTopKeys : k \in DOMAIN prevStmts /\ prevStmts[k].ever >= 2
    /\ \A g \in Gatherers : pc[g] = "rows" =>
        /\ seen[g] \subseteq DOMAIN prevStmts
        /\ \A k \in DOMAIN snap[g] :
            /\ 1 <= snap[g][k].ever /\ snap[g][k].ever <= ran[k]
            /\ k \in DOMAIN stats => Rose(snap[g][k], stats[k])
            /\ k \in DOMAIN prevStmts => Rose(prevStmts[k], snap[g][k])
        /\ \A k \in seen[g], d \in Dims : delta[g][k][d] > 0 =>
            /\ prevStmts[k].ever >= 2
            /\ k \in prevTopKeys => prevStmts[k].ever >= 3
    /\ OneOffsStayOut

\* The rows are rows.
LEMMA RowsTyped ==
    ASSUME TypeInv
    PROVE  /\ \A k \in DOMAIN stats : k \in Keys /\ stats[k] \in Row
           /\ \A k \in DOMAIN prevStmts : k \in Keys /\ prevStmts[k] \in Row
           /\ \A g \in Gatherers : \A k \in DOMAIN snap[g] :
                  k \in Keys /\ snap[g][k] \in Row
           /\ \A row \in Row : row.ever \in Nat /\ \A d \in Dims : row.count[d] \in Nat
           /\ \A k \in Keys : ran[k] \in Nat
  BY DEF TypeInv, TypeOK, AreRows, Row

\* Every step keeps it.
LEMMA EverStep == TypeInv /\ EverInv /\ [Next]_vars => EverInv'
<1> SUFFICES ASSUME TypeInv, EverInv, [Next]_vars PROVE EverInv'
  OBVIOUS
<1>t. TypeOK /\ Control
  BY DEF TypeInv
<1>n. /\ \A k \in DOMAIN stats : k \in Keys /\ stats[k] \in Row
      /\ \A k \in DOMAIN prevStmts : k \in Keys /\ prevStmts[k] \in Row
      /\ \A g \in Gatherers : \A k \in DOMAIN snap[g] : k \in Keys /\ snap[g][k] \in Row
      /\ \A row \in Row : row.ever \in Nat /\ \A d \in Dims : row.count[d] \in Nat
      /\ \A k \in Keys : ran[k] \in Nat
  BY RowsTyped
<1>1. ASSUME NEW k \in Keys, Execute(k) PROVE EverInv'
  <2>1. PICK cost \in Costs :
            /\ ran' = [ran EXCEPT ![k] = @ + 1]
            /\ stats' = [i \in DOMAIN stats \cup {k} |->
                            IF i = k THEN Ran(k, cost, ran[k] + 1) ELSE stats[i]]
    BY <1>1 DEF Execute
  <2>2. UNCHANGED <<prevStmts, prevTopKeys, pc, snap, seen, delta, shown>>
    BY <1>1 DEF Execute, locals
  <2>3. /\ stats'[k].ever = ran[k] + 1 /\ ran'[k] = ran[k] + 1
        /\ \A i \in Keys \ {k} : ran'[i] = ran[i]
        /\ \A i \in DOMAIN stats \ {k} : stats'[i] = stats[i]
        /\ DOMAIN stats' = DOMAIN stats \cup {k}
    BY <2>1, <1>t DEF Ran, TypeOK
  <2>4. \A i \in DOMAIN stats' : stats'[i].ever = ran'[i] /\ ran'[i] >= 1
    BY <2>3, <1>n DEF EverInv
  <2>5. ASSUME NEW a \in Row, a.ever <= ran[k]
        PROVE  Rose(a, stats'[k])
    BY <2>3, <2>5, <1>n DEF Rose
  <2>6. \A i \in DOMAIN prevStmts :
            /\ 1 <= prevStmts[i].ever /\ prevStmts[i].ever <= ran'[i]
            /\ i \in DOMAIN stats' => Rose(prevStmts[i], stats'[i])
    BY <2>3, <2>5, <1>n DEF EverInv
  <2>7. \A g \in Gatherers : pc[g] = "rows" => \A i \in DOMAIN snap[g] :
            /\ 1 <= snap[g][i].ever /\ snap[g][i].ever <= ran'[i]
            /\ i \in DOMAIN stats' => Rose(snap[g][i], stats'[i])
    BY <2>3, <2>5, <1>n DEF EverInv
  <2>8. OneOffsStayOut'
    <3>1. \A i \in Keys : ran[i] \in Nat /\ ran'[i] \in {ran[i], ran[i] + 1}
      BY <2>3, <1>n
    <3>2. shown' = shown /\ shown \subseteq Keys /\ \A i \in shown : ran[i] >= 3
      BY <2>2, <1>t DEF EverInv, OneOffsStayOut, TypeOK
    <3>3. \A i \in shown : ran'[i] >= 3
      BY <3>1, <3>2
    <3> QED BY <3>2, <3>3 DEF OneOffsStayOut
  <2> QED BY <2>2, <2>4, <2>6, <2>7, <2>8 DEF EverInv, Rose
<1>2. ASSUME NEW k \in Keys, Forget(k) PROVE EverInv'
  <2>1. /\ UNCHANGED <<ran, prevStmts, prevTopKeys, pc, snap, seen, delta, shown>>
        /\ DOMAIN stats' \subseteq DOMAIN stats
        /\ \A i \in DOMAIN stats' : stats'[i] = stats[i]
    BY <1>2 DEF Forget, locals
  <2> QED BY <2>1 DEF EverInv, OneOffsStayOut, Rose
<1>3. ASSUME NEW g \in Gatherers, Query(g) PROVE EverInv'
  <2>1. /\ UNCHANGED <<stats, ran, prevStmts, prevTopKeys, shown>>
        /\ snap'[g] = stats /\ seen'[g] = {}
        /\ \A h \in Gatherers : pc'[h] = "rows" => h = g
    BY <1>3, <1>t, StatementsAssumption
    DEF Query, postgres, TryLock, TypeOK, Control
  <2>2. \A k \in DOMAIN stats : Rose(stats[k], stats[k])
    BY <1>n DEF Rose
  <2>3. \A k \in DOMAIN stats :
            /\ 1 <= stats[k].ever /\ stats[k].ever <= ran[k]
            /\ k \in DOMAIN prevStmts => Rose(prevStmts[k], stats[k])
    BY <1>n DEF EverInv
  <2> QED BY <2>1, <2>2, <2>3 DEF EverInv, OneOffsStayOut, Rose
<1>4. ASSUME NEW g \in Gatherers, NEW k \in Keys, ScanRow(g, k) PROVE EverInv'
  <2> DEFINE row == snap[g][k]
  <2>1. /\ UNCHANGED <<stats, ran, prevTopKeys, pc, snap, shown>>
        /\ pc[g] = "rows" /\ k \in DOMAIN snap[g] /\ k \notin seen[g]
        /\ prevStmts' = [i \in DOMAIN prevStmts \cup {k} |->
                            IF i = k THEN row ELSE prevStmts[i]]
        /\ seen'[g] = seen[g] \cup {k}
        /\ \A h \in Gatherers : pc[h] = "rows" => h = g
        /\ delta'[g][k] = Growth(k, row)
        /\ \A i \in Keys \ {k} : delta'[g][i] = delta[g][i]
    BY <1>4, <1>t, OneScans DEF ScanRow, postgres, TypeOK
  <2>2. /\ row \in Row /\ 1 <= row.ever /\ row.ever <= ran[k]
        /\ k \in DOMAIN stats => Rose(row, stats[k])
        /\ k \in DOMAIN prevStmts => Rose(prevStmts[k], row)
    BY <2>1, <1>n DEF EverInv
  <2>3. Rose(row, row)
    BY <2>2, <1>n DEF Rose
  <2>4. /\ DOMAIN prevStmts' = DOMAIN prevStmts \cup {k} /\ prevStmts'[k] = row
        /\ \A i \in DOMAIN prevStmts \ {k} : prevStmts'[i] = prevStmts[i]
    BY <2>1
  <2>5. \A d \in Dims : delta'[g][k][d] > 0 =>
            /\ row.ever >= 2
            /\ k \in prevTopKeys => row.ever >= 3
    <3> SUFFICES ASSUME NEW d \in Dims, delta'[g][k][d] > 0
                 PROVE  row.ever >= 2 /\ (k \in prevTopKeys => row.ever >= 3)
      OBVIOUS
    <3>1. CASE k \in DOMAIN prevStmts
      <4>1. row.count[d] > prevStmts[k].count[d]
        BY <2>1, <2>2, <1>n, <3>1 DEF Growth, Before
      <4>2. prevStmts[k].ever < row.ever /\ prevStmts[k].ever >= 1
        BY <4>1, <2>2, <3>1 DEF Rose, EverInv
      <4> QED BY <4>2, <2>2, <1>n, <3>1 DEF EverInv
    <3>2. CASE k \notin DOMAIN prevStmts
      BY <2>1, <2>2, <1>n, <3>2 DEF Growth, Before
    <3> QED BY <3>1, <3>2
  <2>6. \A i \in DOMAIN prevStmts' :
            /\ 1 <= prevStmts'[i].ever /\ prevStmts'[i].ever <= ran[i]
            /\ i \in DOMAIN stats => Rose(prevStmts'[i], stats[i])
    BY <2>2, <2>4 DEF EverInv
  <2>7. \A i \in prevTopKeys : i \in DOMAIN prevStmts' /\ prevStmts'[i].ever >= 2
    BY <2>2, <2>4, <1>n DEF EverInv, Rose
  <2>8. \A i \in DOMAIN snap[g] :
            i \in DOMAIN prevStmts' => Rose(prevStmts'[i], snap[g][i])
    BY <2>1, <2>3, <2>4 DEF EverInv
  <2>9. \A i \in seen'[g], d \in Dims : delta'[g][i][d] > 0 =>
            /\ prevStmts'[i].ever >= 2
            /\ i \in prevTopKeys => prevStmts'[i].ever >= 3
    <3>1. \A i \in seen[g] : i \in Keys \ {k} /\ i \in DOMAIN prevStmts
      BY <2>1, <1>t DEF EverInv, TypeOK
    <3> QED BY <2>1, <2>4, <2>5, <3>1 DEF EverInv
  <2>10. seen'[g] \subseteq DOMAIN prevStmts'
    BY <2>1, <2>4 DEF EverInv
  <2> HIDE DEF row
  <2> QED BY <2>1, <2>6, <2>7, <2>8, <2>9, <2>10 DEF EverInv, OneOffsStayOut, Rose
<1>5. ASSUME NEW g \in Gatherers, RowsEnd(g) PROVE EverInv'
  <2>1. /\ UNCHANGED <<stats, ran>>
        /\ prevStmts' = [k \in DOMAIN prevStmts \cap seen[g] |-> prevStmts[k]]
        /\ pc' = [pc EXCEPT ![g] = "meta"] /\ pc[g] = "rows"
        /\ shown' = prevTopKeys' \cap prevTopKeys
    BY <1>5 DEF RowsEnd, postgres, DebounceTop
  <2>2. \A h \in Gatherers : pc'[h] # "rows"
    BY <2>1, <1>t, OneScans DEF TypeOK
  <2>3. \A k \in prevTopKeys' : k \in seen[g] /\ \E d \in Dims : delta[g][k][d] > 0
    <3> DEFINE grew == [k \in seen[g] |-> delta[g][k]]
    <3>1. PICK metrics \in [Dims -> SUBSET seen[g]] :
              /\ \A d \in Dims : Lead(metrics[d], d, topStatementsN, grew)
              /\ prevTopKeys' = UNION {metrics[d] : d \in Dims}
      BY <1>5 DEF RowsEnd
    <3>2. \A d \in Dims : \A k \in metrics[d] : k \in seen[g] /\ delta[g][k][d] > 0
      BY <3>1 DEF Lead
    <3> QED BY <3>1, <3>2
  <2>4. \A k \in prevTopKeys' : /\ k \in DOMAIN prevStmts' /\ prevStmts'[k] = prevStmts[k]
                                /\ prevStmts[k].ever >= 2
                                /\ k \in prevTopKeys => prevStmts[k].ever >= 3
    BY <2>1, <2>3 DEF EverInv
  <2>5. ASSUME NEW k \in shown' PROVE ran[k] >= 3
    <3>1. k \in DOMAIN prevStmts /\ prevStmts[k].ever >= 3
      BY <2>1, <2>4
    <3>2. prevStmts[k].ever <= ran[k] /\ prevStmts[k].ever \in Nat /\ ran[k] \in Nat
      BY <3>1, <1>n DEF EverInv
    <3> QED BY <3>1, <3>2
  <2>6. \A k \in DOMAIN prevStmts' : k \in DOMAIN prevStmts /\ prevStmts'[k] = prevStmts[k]
    BY <2>1
  <2> QED BY <2>1, <2>2, <2>4, <2>5, <2>6 DEF EverInv, OneOffsStayOut, Rose
<1>6. ASSUME NEW g \in Gatherers,
             \/ QueryFails(g) \/ NoMeta(g) \/ MetaFails(g) \/ StoreMeta(g)
             \/ WriteMetric(g)
      PROVE  EverInv'
  <2>1. /\ UNCHANGED <<stats, ran, prevStmts, prevTopKeys, snap, seen, delta>>
        /\ \A h \in Gatherers : pc'[h] = "rows" => pc[h] = "rows"
        /\ shown' \subseteq shown
    BY <1>6, <1>t DEF QueryFails, NoMeta, MetaFails, StoreMeta, Unlock, WriteMetric,
                      postgres, locals, TypeOK
  <2> QED BY <2>1 DEF EverInv, OneOffsStayOut, Rose
<1>7. CASE UNCHANGED vars
  BY <1>7 DEF vars, postgres, locals, EverInv, OneOffsStayOut, Rose
<1> QED BY <1>1, <1>2, <1>3, <1>4, <1>5, <1>6, <1>7 DEF Next, Phase

\* A statement is emitted only if it ran three times (debounceTop), whatever the
\* width of the top sets, the resets and the results cut short.
THEOREM OneOffsAreNotEmitted == Spec => []OneOffsStayOut
<1>1. Init => TypeInv /\ EverInv
  BY TypeInit DEF Init, EverInv, NoRows, OneOffsStayOut
<1>2. TypeInv /\ EverInv /\ [Next]_vars => (TypeInv /\ EverInv)'
  BY TypeStep, EverStep
<1>3. EverInv => OneOffsStayOut
  BY DEF EverInv
<1> QED BY <1>1, <1>2, <1>3, PTL DEF Spec

-----------------------------------------------------------------------------
(* No call is missed *)

\* b counts no less than a
Below(a, b) == \A d \in Dims : a.count[d] <= b.count[d]

\* A statement that was not disturbed is never forgotten once seen: each later
\* snapshot and the live statistics have it, with counters no smaller, so every
\* difference is fed.
MissInv == \A k \in Keys \ disturbed :
    /\ k \notin DOMAIN prevStmts => fed[k] = 0
    /\ k \in DOMAIN prevStmts =>
        /\ fed[k] + base[k] = Calls(prevStmts[k])
        /\ k \in DOMAIN stats /\ Below(prevStmts[k], stats[k])
    /\ \A g \in Gatherers : pc[g] = "rows" =>
        /\ k \in DOMAIN prevStmts =>
              k \in DOMAIN snap[g] /\ Below(prevStmts[k], snap[g][k])
        /\ k \in DOMAIN snap[g] =>
              k \in DOMAIN stats /\ Below(snap[g][k], stats[k])

\* Every step keeps it.
LEMMA MissStep == TypeInv /\ MissInv /\ [Next]_vars => MissInv'
<1> SUFFICES ASSUME TypeInv, MissInv, [Next]_vars PROVE MissInv'
  OBVIOUS
<1>t. TypeOK /\ Control
  BY DEF TypeInv
<1>n. /\ \A k \in DOMAIN stats : k \in Keys /\ stats[k] \in Row
      /\ \A k \in DOMAIN prevStmts : k \in Keys /\ prevStmts[k] \in Row
      /\ \A g \in Gatherers : \A k \in DOMAIN snap[g] : k \in Keys /\ snap[g][k] \in Row
      /\ \A row \in Row : row.ever \in Nat /\ \A d \in Dims : row.count[d] \in Nat
  BY RowsTyped
<1>1. ASSUME NEW k \in Keys, Execute(k) PROVE MissInv'
  <2>1. PICK cost \in Costs :
            stats' = [i \in DOMAIN stats \cup {k} |->
                         IF i = k THEN Ran(k, cost, ran[k] + 1) ELSE stats[i]]
    BY <1>1 DEF Execute
  <2>2. UNCHANGED <<prevStmts, pc, snap, fed, base, disturbed>>
    BY <1>1 DEF Execute, locals
  <2>3. \A d \in Dims : cost[d] \in Nat
    BY StatementsAssumption
  <2>4. DOMAIN stats \subseteq DOMAIN stats'
    BY <2>1
  <2>5. ASSUME NEW i \in DOMAIN stats PROVE Below(stats[i], stats'[i])
    <3>1. CASE i = k
      BY <2>1, <2>3, <3>1, <1>n DEF Ran, Below
    <3>2. CASE i # k
      BY <2>1, <3>2, <1>n DEF Below
    <3> QED BY <3>1, <3>2
  <2>6. ASSUME NEW i \in DOMAIN stats, NEW a \in Row, Below(a, stats[i])
        PROVE  Below(a, stats'[i])
    <3>1. ASSUME NEW d \in Dims PROVE a.count[d] <= stats'[i].count[d]
      <4>1. a.count[d] <= stats[i].count[d] /\ stats[i].count[d] <= stats'[i].count[d]
        BY <2>5, <2>6 DEF Below
      <4>2. stats'[i] \in Row
        BY <2>1, RanIsRow, <1>t, <1>n DEF TypeOK
      <4> QED BY <4>1, <4>2, <1>n
    <3> QED BY <3>1 DEF Below
  <2>7. \A i \in Keys \ disturbed : i \in DOMAIN prevStmts =>
            i \in DOMAIN stats' /\ Below(prevStmts[i], stats'[i])
    BY <2>4, <2>6, <1>n DEF MissInv
  <2>8. \A i \in Keys \ disturbed : \A g \in Gatherers :
            pc[g] = "rows" /\ i \in DOMAIN snap[g] =>
                i \in DOMAIN stats' /\ Below(snap[g][i], stats'[i])
    BY <2>4, <2>6, <1>n DEF MissInv
  <2> QED BY <2>2, <2>7, <2>8 DEF MissInv, Below, Calls
<1>2. ASSUME NEW k \in Keys, Forget(k) PROVE MissInv'
  <2>1. /\ UNCHANGED <<prevStmts, pc, snap, fed, base>>
        /\ disturbed' = disturbed \cup {k}
        /\ DOMAIN stats' = DOMAIN stats \ {k}
        /\ \A i \in DOMAIN stats' : stats'[i] = stats[i]
    BY <1>2 DEF Forget, locals
  <2> QED BY <2>1 DEF MissInv, Below, Calls
<1>3. ASSUME NEW g \in Gatherers, Query(g) PROVE MissInv'
  <2>1. /\ UNCHANGED <<stats, prevStmts, fed, base, disturbed>>
        /\ snap'[g] = stats
        /\ \A h \in Gatherers : pc'[h] = "rows" => h = g
    BY <1>3, <1>t, StatementsAssumption
    DEF Query, postgres, TryLock, TypeOK, Control
  <2>2. \A k \in DOMAIN stats : Below(stats[k], stats[k])
    BY <1>n DEF Below
  <2> QED BY <2>1, <2>2 DEF MissInv, Below, Calls
<1>4. ASSUME NEW g \in Gatherers, NEW k \in Keys, ScanRow(g, k) PROVE MissInv'
  <2> DEFINE row    == snap[g][k]
             growth == Growth(k, row)
  <2>1. /\ UNCHANGED <<stats, pc, snap, disturbed>>
        /\ pc[g] = "rows" /\ k \in DOMAIN snap[g] /\ row \in Row
        /\ prevStmts' = [i \in DOMAIN prevStmts \cup {k} |->
                            IF i = k THEN row ELSE prevStmts[i]]
        /\ \A h \in Gatherers : pc[h] = "rows" => h = g
    BY <1>4, <1>t, <1>n, OneScans DEF ScanRow, postgres, TypeOK
  <2>2. /\ \A i \in Keys \ {k} : fed'[i] = fed[i] /\ base'[i] = base[i]
        /\ base'[k] = IF k \in DOMAIN prevStmts THEN base[k] ELSE Calls(row)
    <3>1. \A i \in Keys \ {k} : base'[i] = base[i]
      BY <1>4, <1>t DEF ScanRow, TypeOK
    <3>2. base'[k] = IF k \in DOMAIN prevStmts THEN base[k] ELSE Calls(row)
      BY <1>4, <1>t DEF ScanRow, TypeOK
    <3> QED BY <1>4, <3>1, <3>2, FedGrows
  <2>3. fed'[k] = fed[k] + (IF Feeds(growth) THEN growth["calls"] ELSE 0)
    <3>1. CASE Feeds(growth)
      <4>1. fed' = [fed EXCEPT ![k] = @ + growth["calls"]]
        BY <1>4, <3>1 DEF ScanRow, FeedHistogram
      <4> QED BY <3>1, <4>1, <1>t DEF TypeOK
    <3>2. CASE ~Feeds(growth)
      BY <1>4, <3>2, <1>t DEF ScanRow, TypeOK
    <3> QED BY <3>1, <3>2
  <2>4. ASSUME k \notin disturbed PROVE fed'[k] + base'[k] = Calls(row)
    <3>1. CASE k \in DOMAIN prevStmts
      <4>1. Below(prevStmts[k], row) /\ fed[k] + base[k] = Calls(prevStmts[k])
        BY <2>1, <2>4, <3>1 DEF MissInv
      <4>2. /\ growth["calls"] = Calls(row) - Calls(prevStmts[k])
            /\ growth["time"] = Time(row) - Time(prevStmts[k])
        BY <3>1, StatementsAssumption DEF Growth, Before, Calls, Time
      <4>3. /\ Calls(row) \in Nat /\ Calls(prevStmts[k]) \in Nat
            /\ Time(row) \in Nat /\ Time(prevStmts[k]) \in Nat
            /\ Calls(prevStmts[k]) <= Calls(row) /\ Time(prevStmts[k]) <= Time(row)
        BY <2>1, <3>1, <4>1, <1>n, StatementsAssumption DEF Below, Calls, Time
      <4>4. fed'[k] = fed[k] + (Calls(row) - Calls(prevStmts[k]))
        BY <2>3, <4>2, <4>3, <1>t DEF Feeds, TypeOK
      <4> QED BY <2>2, <3>1, <4>1, <4>3, <4>4, <1>t DEF TypeOK
    <3>2. CASE k \notin DOMAIN prevStmts
      <4>1. growth["calls"] = 0 /\ fed[k] = 0
        BY <2>1, <2>4, <3>2, <1>n, StatementsAssumption
        DEF Growth, Before, MissInv
      <4>2. fed'[k] = 0 /\ base'[k] = Calls(row) /\ Calls(row) \in Nat
        BY <2>1, <2>2, <2>3, <3>2, <4>1, <1>n, StatementsAssumption DEF Feeds, Calls
      <4> QED BY <4>2
    <3> QED BY <3>1, <3>2
  <2>5. Below(row, row)
    BY <2>1, <1>n DEF Below
  <2>6. /\ DOMAIN prevStmts' = DOMAIN prevStmts \cup {k} /\ prevStmts'[k] = row
        /\ \A i \in DOMAIN prevStmts \ {k} : prevStmts'[i] = prevStmts[i]
    BY <2>1
  <2>7. \A i \in Keys \ disturbed :
            i \in DOMAIN prevStmts' => fed'[i] + base'[i] = Calls(prevStmts'[i])
    BY <2>2, <2>4, <2>6 DEF MissInv
  <2>8. \A i \in Keys \ disturbed : i \notin DOMAIN prevStmts' => fed'[i] = 0
    BY <2>2, <2>6 DEF MissInv
  <2>9. \A i \in Keys \ disturbed : i \in DOMAIN prevStmts' =>
            /\ i \in DOMAIN stats /\ Below(prevStmts'[i], stats[i])
            /\ i \in DOMAIN snap[g] /\ Below(prevStmts'[i], snap[g][i])
    BY <2>1, <2>5, <2>6 DEF MissInv
  <2> HIDE DEF row, growth
  <2> QED BY <2>1, <2>7, <2>8, <2>9 DEF MissInv, Below, Calls
<1>5. ASSUME NEW g \in Gatherers, RowsEnd(g) PROVE MissInv'
  <2>1. /\ UNCHANGED <<stats, fed, base>>
        /\ prevStmts' = [k \in DOMAIN prevStmts \cap seen[g] |-> prevStmts[k]]
        /\ pc' = [pc EXCEPT ![g] = "meta"] /\ pc[g] = "rows"
        /\ disturbed' = disturbed \cup (DOMAIN snap[g] \ seen[g])
    BY <1>5 DEF RowsEnd, postgres
  <2>2. \A h \in Gatherers : pc'[h] # "rows"
    BY <2>1, <1>t, OneScans DEF TypeOK
  <2>3. \A k \in Keys \ disturbed' : k \in DOMAIN prevStmts => k \in seen[g]
    BY <2>1 DEF MissInv
  <2>4. \A k \in DOMAIN prevStmts' : k \in DOMAIN prevStmts /\ prevStmts'[k] = prevStmts[k]
    BY <2>1
  <2>5. \A k \in Keys \ disturbed' : k \in DOMAIN prevStmts => k \in DOMAIN prevStmts'
    BY <2>1, <2>3
  <2> QED BY <2>1, <2>2, <2>4, <2>5 DEF MissInv, Below, Calls
<1>6. ASSUME NEW g \in Gatherers,
             \/ QueryFails(g) \/ NoMeta(g) \/ MetaFails(g) \/ StoreMeta(g)
             \/ WriteMetric(g)
      PROVE  MissInv'
  <2>1. /\ UNCHANGED <<stats, prevStmts, snap, fed, base>>
        /\ disturbed \subseteq disturbed'
        /\ \A h \in Gatherers : pc'[h] = "rows" => pc[h] = "rows"
    BY <1>6, <1>t DEF QueryFails, NoMeta, MetaFails, StoreMeta, Unlock, WriteMetric,
                      postgres, locals, TypeOK
  <2> QED BY <2>1 DEF MissInv, Below, Calls
<1>7. CASE UNCHANGED vars
  BY <1>7 DEF vars, postgres, locals, MissInv, Below, Calls
<1> QED BY <1>1, <1>2, <1>3, <1>4, <1>5, <1>6, <1>7 DEF Next, Phase

\* Of a statement that was not reset nor missing in a cut result, every call
\* since it was first seen is in the histogram (scanStatements), although
\* phases are skipped and queries fail.
THEOREM EveryCallIsFed == Spec => []NothingMissed
<1>1. Init => TypeInv /\ MissInv
  BY TypeInit DEF Init, MissInv, NoRows
<1>2. TypeInv /\ MissInv /\ [Next]_vars => (TypeInv /\ MissInv)'
  BY TypeStep, MissStep
<1>3. TypeInv /\ MissInv => NothingMissed
  BY RowsTyped DEF MissInv, NothingMissed
<1> QED BY <1>1, <1>2, <1>3, PTL DEF Spec

-----------------------------------------------------------------------------
(* Emitted statements have their text *)

HasText(ks) == \A k \in ks : \E i \in queryMeta : Qid[i] = Qid[k]

\* The leaders of the last phase have their text if its text query did not
\* fail, and the next phase emits none but them: so one failure is covered by
\* the texts of the phase before.
TextInv ==
    /\ EmittedHasText
    /\ (\A g \in Gatherers : pc[g] # "meta") /\ metaFailures = 0 =>
            HasText(prevTopKeys \ disturbed)
    /\ \A g \in Gatherers : pc[g] = "meta" =>
            /\ shown \subseteq prevTopKeys /\ prevTopKeys \subseteq topMeta[g]
            /\ metaFailures = 0 => HasText(shown \ disturbed)

\* A top statement that was not disturbed is still in PostgreSQL.
LEMMA TopIsThere ==
    ASSUME TypeInv, EverInv, MissInv, NEW k \in prevTopKeys \ disturbed
    PROVE  k \in DOMAIN stats
<1>1. k \in Keys /\ k \in DOMAIN prevStmts
  BY DEF TypeInv, TypeOK, EverInv
<1> QED BY <1>1 DEF MissInv

\* Every step keeps it.
LEMMA TextStep ==
    TypeInv /\ EverInv /\ MissInv /\ TextInv /\ [Next]_vars => TextInv'
<1> SUFFICES ASSUME TypeInv, EverInv, MissInv, TextInv, [Next]_vars
             PROVE  TextInv'
  OBVIOUS
<1>t. TypeOK /\ Control /\ Nobody \notin Gatherers
  BY StatementsAssumption DEF TypeInv
<1>1. ASSUME UNCHANGED <<stmtMu, shown, queryMeta, prevTopKeys, pc, topMeta,
                         metaFailures>>,
             disturbed \subseteq disturbed'
      PROVE  TextInv'
  BY <1>1 DEF TextInv, EmittedHasText, HasText
<1>2. ASSUME NEW k \in Keys, Execute(k) \/ Forget(k) PROVE TextInv'
  BY <1>1, <1>2 DEF Execute, Forget, locals
<1>3. ASSUME NEW g \in Gatherers, QueryFails(g) PROVE TextInv'
  <2>1. shown' = {} /\ UNCHANGED <<queryMeta, prevTopKeys, pc, topMeta, disturbed,
                                   metaFailures>>
    BY <1>3 DEF QueryFails, locals
  <2> QED BY <2>1 DEF TextInv, EmittedHasText, HasText
<1>4. ASSUME NEW g \in Gatherers, Query(g) PROVE TextInv'
  <2>1. /\ stmtMu' # Nobody /\ \A h \in Gatherers : pc'[h] # "meta" /\ pc[h] # "meta"
        /\ UNCHANGED <<queryMeta, prevTopKeys, disturbed, metaFailures>>
    BY <1>4, <1>t DEF Query, TryLock, TypeOK, Control
  <2> QED BY <2>1 DEF TextInv, EmittedHasText, HasText
<1>5. ASSUME NEW g \in Gatherers, NEW k \in Keys, ScanRow(g, k) PROVE TextInv'
  BY <1>1, <1>5 DEF ScanRow
<1>6. ASSUME NEW g \in Gatherers, RowsEnd(g) PROVE TextInv'
  <2>1. /\ pc[g] = "rows" /\ stmtMu' = stmtMu /\ stmtMu # Nobody
        /\ \A h \in Gatherers : pc[h] # "meta"
        /\ \A h \in Gatherers : pc'[h] = "meta" => h = g
        /\ pc'[g] = "meta"
    BY <1>6, <1>t, OneScans DEF RowsEnd, TypeOK, Control
  <2>2. /\ UNCHANGED <<queryMeta, metaFailures>> /\ disturbed \subseteq disturbed'
        /\ shown' = prevTopKeys' \cap prevTopKeys
    BY <1>6 DEF RowsEnd, DebounceTop
  <2>3. prevTopKeys' \subseteq topMeta'[g]
    <3>1. PICK metrics \in [Dims -> SUBSET seen[g]], meta \in [Dims -> SUBSET seen[g]] :
              /\ \A d \in Dims : metrics[d] \subseteq meta[d]
              /\ prevTopKeys' = UNION {metrics[d] : d \in Dims}
              /\ topMeta' = [topMeta EXCEPT ![g] = UNION {meta[d] : d \in Dims}]
      BY <1>6 DEF RowsEnd
    <3>2. UNION {metrics[d] : d \in Dims} \subseteq UNION {meta[d] : d \in Dims}
      BY <3>1
    <3> QED BY <3>1, <3>2, <1>t DEF TypeOK
  <2>4. metaFailures = 0 => HasText(prevTopKeys \ disturbed)
    BY <2>1 DEF TextInv
  <2>5. metaFailures' = 0 => HasText(shown \ disturbed)'
    BY <2>2, <2>4 DEF HasText
  <2>6. EmittedHasText'
    BY <2>1 DEF EmittedHasText
  <2> QED BY <2>1, <2>2, <2>3, <2>5, <2>6 DEF TextInv, HasText
<1>7. ASSUME NEW g \in Gatherers, NoMeta(g) \/ MetaFails(g) \/ StoreMeta(g)
      PROVE  TextInv'
  <2>1. /\ pc[g] = "meta" /\ stmtMu' = Nobody
        /\ \A h \in Gatherers : pc'[h] # "meta"
        /\ UNCHANGED <<shown, prevTopKeys>>
        /\ shown \subseteq prevTopKeys /\ prevTopKeys \subseteq topMeta[g]
        /\ metaFailures = 0 => HasText(shown \ disturbed)
    BY <1>7, <1>t, OneScans
    DEF NoMeta, MetaFails, StoreMeta, Unlock, TextInv, TypeOK
  <2>2. CASE NoMeta(g)
    <3>1. prevTopKeys = {} /\ shown = {}
      BY <2>1, <2>2 DEF NoMeta
    <3> QED BY <2>1, <3>1 DEF TextInv, EmittedHasText, HasText
  <2>3. CASE MetaFails(g)
    <3>1. /\ UNCHANGED <<queryMeta, disturbed>> /\ metaFailures' # 0
          /\ metaFailures' <= 1 => metaFailures = 0
      BY <2>3, <1>t DEF MetaFails, Lesser, TypeOK
    <3> QED BY <2>1, <3>1 DEF TextInv, EmittedHasText, HasText
  <2>4. CASE StoreMeta(g)
    <3>1. PICK read \in SUBSET DOMAIN stats :
              /\ \E texts \in SUBSET (topMeta[g] \cap read) :
                    FirstOfEach(texts, read, topMeta[g]) /\ queryMeta' = texts
              /\ disturbed' = disturbed \cup (DOMAIN stats \ read)
      BY <2>4, Zenon DEF StoreMeta
    <3>2. \A k \in topMeta[g] \cap read : \E i \in queryMeta' : Qid[i] = Qid[k]
      BY <3>1 DEF FirstOfEach
    <3>3. \A k \in prevTopKeys \ disturbed' : k \in topMeta[g] \cap read
      BY <2>1, <3>1, TopIsThere
    <3>4. \A k \in prevTopKeys \ disturbed' : \E i \in queryMeta' : Qid[i] = Qid[k]
      BY <3>2, <3>3
    <3> QED BY <2>1, <3>4 DEF TextInv, EmittedHasText, HasText
  <2> QED BY <1>7, <2>2, <2>3, <2>4
<1>8. ASSUME NEW g \in Gatherers, WriteMetric(g) PROVE TextInv'
  BY <1>1, <1>8 DEF WriteMetric, locals
<1>9. CASE UNCHANGED vars
  BY <1>1, <1>9 DEF vars, locals
<1> QED BY <1>2, <1>3, <1>4, <1>5, <1>6, <1>7, <1>8, <1>9 DEF Next, Phase

\* Once a phase is over, each statement it emitted has its text, unless the
\* statement was disturbed or the text query failed twice in a row
\* (collectQueryMeta, selectTopStatements, debounceTop).
THEOREM EmittedStatementsHaveText == Spec => []EmittedHasText
<1> DEFINE Inv == TypeInv /\ EverInv /\ MissInv /\ TextInv
<1>1. Init => Inv
  BY TypeInit DEF Init, EverInv, MissInv, TextInv, NoRows, OneOffsStayOut,
                  EmittedHasText, HasText
<1>2. Inv /\ [Next]_vars => Inv'
  BY TypeStep, EverStep, MissStep, TextStep
<1>3. Inv => EmittedHasText
  BY DEF TextInv
<1> QED BY <1>1, <1>2, <1>3, PTL DEF Spec

-----------------------------------------------------------------------------
(* Latencies stay within their bounds *)

\* Every run is at least, or at most, this slow.
NoneSlower(le) == \A cost \in Costs : cost["time"] <= le
AllSlower(le)  == \A cost \in Costs : cost["time"] > le

\* The extremes of a row are times of runs.
Extremes(row) ==
    /\ row.fastest <= row.slowest
    /\ \A le \in Buckets : /\ NoneSlower(le) => row.slowest <= le
                           /\ AllSlower(le) => row.fastest > le

\* From one row of a statement to a later one: whether an extreme is new, and the
\* other calls with the time they took.
SlowestIsNew(a, b) == b.slowest > a.slowest
FastestIsNew(a, b) == b.fastest < a.fastest

OtherCalls(a, b) ==
    Calls(b) - Calls(a) - One(SlowestIsNew(a, b)) - One(FastestIsNew(a, b))

OtherTime(a, b) ==
    Time(b) - Time(a) - (IF SlowestIsNew(a, b) THEN b.slowest ELSE 0)
                      - (IF FastestIsNew(a, b) THEN b.fastest ELSE 0)

\* A new extreme is a call of the window, and the mean of the others is the mean
\* of runs.
Window(a, b) ==
    /\ a.slowest <= b.slowest /\ b.fastest <= a.fastest
    /\ OtherCalls(a, b) >= 0
    /\ \A le \in Buckets :
        /\ NoneSlower(le) => OtherTime(a, b) <= le * OtherCalls(a, b)
        /\ AllSlower(le)  => OtherTime(a, b) >= (le + 1) * OtherCalls(a, b)

\* It is so between every two rows of which a phase may take the difference, as
\* long as the statement was not disturbed.
WindowInv == \A k \in Keys \ disturbed :
    /\ k \in DOMAIN stats => Extremes(stats[k])
    /\ k \in DOMAIN prevStmts => Window(prevStmts[k], stats[k])
    /\ \A g \in Gatherers : pc[g] = "rows" /\ k \in DOMAIN snap[g] =>
        /\ Extremes(snap[g][k]) /\ Window(snap[g][k], stats[k])
        /\ k \in DOMAIN prevStmts => Window(prevStmts[k], snap[g][k])

\* One more call, no slower or no faster than m.
LEMMA OneMoreCall ==
    ASSUME NEW m \in Nat, NEW calls \in Int, NEW time \in Int, NEW x \in Nat
    PROVE  /\ m * calls \in Int /\ m * 0 = 0
           /\ m * (calls + 1) = m * calls + m
           /\ time <= m * calls /\ x <= m => time + x <= m * (calls + 1)
           /\ time >= m * calls /\ x >= m => time + x >= m * (calls + 1)
<1>1. m * calls \in Int /\ m * 0 = 0
  OBVIOUS
<1>2. m * (calls + 1) = m * calls + m
  OBVIOUS
<1>3. ASSUME NEW p \in Int
      PROVE  /\ time <= p /\ x <= m => time + x <= p + m
             /\ time >= p /\ x >= m => time + x >= p + m
  OBVIOUS
<1> QED
  BY <1>1, <1>2, <1>3

\* Or perhaps one more.
LEMMA PerhapsOneMore ==
    ASSUME NEW m \in Nat, NEW calls \in Int, NEW time \in Int, NEW x \in Nat,
           NEW more \in BOOLEAN
    PROVE  /\ time <= m * calls /\ x <= m =>
                time + (IF more THEN x ELSE 0) <= m * (calls + One(more))
           /\ time >= m * calls /\ x >= m =>
                time + (IF more THEN x ELSE 0) >= m * (calls + One(more))
<1>1. CASE more
  BY <1>1, OneMoreCall DEF One
<1>2. CASE ~more
  <2>1. One(more) = 0 /\ (IF more THEN x ELSE 0) = 0
    BY <1>2 DEF One
  <2>2. time + 0 = time /\ calls + 0 = calls
    OBVIOUS
  <2> QED
    BY <2>1, <2>2
<1> QED
  BY <1>1, <1>2

\* The numbers of a row, and of two.
LEMMA RowNumbers ==
    ASSUME NEW a \in Row, NEW b \in Row
    PROVE  /\ Calls(a) \in Nat /\ Time(a) \in Nat
           /\ a.slowest \in Nat /\ a.fastest \in Nat
           /\ OtherCalls(a, b) \in Int /\ OtherTime(a, b) \in Int
<1>1. \A row \in {a, b} : /\ Calls(row) \in Nat /\ Time(row) \in Nat
                           /\ row.slowest \in Nat /\ row.fastest \in Nat
  BY StatementsAssumption DEF Row, Calls, Time
<1> QED
  BY <1>1 DEF OtherCalls, OtherTime, One

\* The extremes of a row among its bounds.
LEMMA ExtremesBound ==
    ASSUME NEW b \in Row, Extremes(b), NEW x \in {b.slowest, b.fastest},
           NEW le \in Buckets
    PROVE  /\ NoneSlower(le) => x <= le
           /\ AllSlower(le) => x >= le + 1
<1>1. le \in Nat /\ b.slowest \in Nat /\ b.fastest \in Nat
  BY StatementsAssumption DEF Row
<1> QED
  BY <1>1 DEF Extremes

\* Nothing happened between a row and itself.
LEMMA WindowSame ==
    ASSUME NEW a \in Row
    PROVE  Window(a, a)
<1>1. OtherCalls(a, a) = 0 /\ OtherTime(a, a) = 0
  BY RowNumbers DEF OtherCalls, OtherTime, SlowestIsNew, FastestIsNew, One
<1>2. a.slowest <= a.slowest /\ a.fastest <= a.fastest
  BY RowNumbers
<1>3. ASSUME NEW le \in Buckets PROVE le * 0 = 0 /\ (le + 1) * 0 = 0
  BY StatementsAssumption
<1> QED
  BY <1>1, <1>2, <1>3 DEF Window

\* A run more.
LEMMA WindowRun ==
    ASSUME NEW a \in Row, NEW b \in Row, NEW c \in Row, NEW cost \in Costs,
           Extremes(b), Window(a, b),
           Calls(c) = Calls(b) + 1, Time(c) = Time(b) + cost["time"],
           c.fastest = Lesser(b.fastest, cost["time"]),
           c.slowest = Greater(b.slowest, cost["time"])
    PROVE  Window(a, c)
<1> DEFINE x == cost["time"]
           o == OtherCalls(a, b)
           t == OtherTime(a, b)
<1>1. x \in Nat /\ o \in Int /\ t \in Int
  BY RowNumbers, StatementsAssumption
<1>2. /\ Calls(a) \in Nat /\ Time(a) \in Nat /\ a.slowest \in Nat /\ a.fastest \in Nat
      /\ Calls(b) \in Nat /\ Time(b) \in Nat /\ b.slowest \in Nat /\ b.fastest \in Nat
  BY RowNumbers
<1>3. b.fastest <= b.slowest /\ a.slowest <= b.slowest /\ b.fastest <= a.fastest /\ o >= 0
  BY DEF Extremes, Window
<1>4. a.slowest <= c.slowest /\ c.fastest <= a.fastest
  BY <1>1, <1>2, <1>3 DEF Lesser, Greater
<1>5. \/ OtherCalls(a, c) = o /\ OtherTime(a, c) = t
      \/ \E y \in {x, b.slowest, b.fastest} :
            OtherCalls(a, c) = o + 1 /\ OtherTime(a, c) = t + y
  <2> USE <1>1, <1>2, <1>3 DEF OtherCalls, OtherTime, SlowestIsNew, FastestIsNew, One
  <2>1. CASE x > b.slowest
    <3>1. c.slowest = x /\ c.fastest = b.fastest
      BY <2>1 DEF Lesser, Greater
    <3>2. CASE b.slowest > a.slowest
      BY <2>1, <3>1, <3>2
    <3>3. CASE ~(b.slowest > a.slowest)
      BY <2>1, <3>1, <3>3
    <3> QED
      BY <3>2, <3>3
  <2>2. CASE x < b.fastest
    <3>1. c.slowest = b.slowest /\ c.fastest = x
      BY <2>2 DEF Lesser, Greater
    <3>2. CASE b.fastest < a.fastest
      BY <2>2, <3>1, <3>2
    <3>3. CASE ~(b.fastest < a.fastest)
      <4>1. c.fastest < a.fastest /\ (c.slowest > a.slowest <=> b.slowest > a.slowest)
        BY <2>2, <3>1, <3>3
      <4>2. OtherCalls(a, c) = o
        BY <3>3, <4>1
      <4>3. OtherTime(a, c) = t
        BY <3>1, <3>3, <4>1
      <4> QED
        BY <4>2, <4>3
    <3> QED
      BY <3>2, <3>3
  <2>3. CASE ~(x > b.slowest) /\ ~(x < b.fastest)
    <3>1. c.slowest = b.slowest /\ c.fastest = b.fastest
      BY <2>3 DEF Lesser, Greater
    <3> QED
      BY <3>1
  <2> QED
    BY <2>1, <2>2, <2>3
<1>6. ASSUME NEW le \in Buckets
      PROVE  /\ NoneSlower(le) => OtherTime(a, c) <= le * OtherCalls(a, c)
             /\ AllSlower(le) => OtherTime(a, c) >= (le + 1) * OtherCalls(a, c)
  <2>1. le \in Nat /\ le + 1 \in Nat
    BY StatementsAssumption
  <2>2. /\ NoneSlower(le) => t <= le * o
        /\ AllSlower(le) => t >= (le + 1) * o
    BY DEF Window
  <2>3. CASE OtherCalls(a, c) = o /\ OtherTime(a, c) = t
    BY <2>2, <2>3
  <2>4. ASSUME NEW y \in {x, b.slowest, b.fastest},
               OtherCalls(a, c) = o + 1, OtherTime(a, c) = t + y
        PROVE  /\ NoneSlower(le) => OtherTime(a, c) <= le * OtherCalls(a, c)
               /\ AllSlower(le) => OtherTime(a, c) >= (le + 1) * OtherCalls(a, c)
    <3>1. y \in Nat
      BY <1>1, <1>2
    <3>2. NoneSlower(le) => x <= le
      BY DEF NoneSlower
    <3>3. AllSlower(le) => x >= le + 1
      BY <1>1, <2>1 DEF AllSlower
    <3>4. (NoneSlower(le) => y <= le) /\ (AllSlower(le) => y >= le + 1)
      BY <3>2, <3>3, ExtremesBound
    <3> HIDE DEF o, t, x
    <3>5. NoneSlower(le) => t + y <= le * (o + 1)
      BY <1>1, <2>1, <2>2, <3>1, <3>4, OneMoreCall
    <3>6. AllSlower(le) => t + y >= (le + 1) * (o + 1)
      BY <1>1, <2>1, <2>2, <3>1, <3>4, OneMoreCall
    <3> QED
      BY <2>4, <3>5, <3>6
  <2> QED
    BY <1>5, <2>3, <2>4
<1>7. OtherCalls(a, c) >= 0
  BY <1>1, <1>3, <1>5
<1> QED
  BY <1>4, <1>6, <1>7 DEF Window

\* What feedHistogram makes of a window: no more calls than there were, and each
\* within the bounds of the runs.
LEMMA WindowPlaced ==
    ASSUME NEW b \in Row, NEW a \in Row, NEW growth \in [Dims -> Int], Feeds(growth),
           NEW le \in Buckets
    PROVE  /\ Placed(b, a, growth, le) <= growth["calls"]
           /\ /\ Extremes(b) /\ Window(a, b)
              /\ growth["calls"] = Calls(b) - Calls(a)
              /\ growth["time"] = Time(b) - Time(a)
              => /\ NoneSlower(le) => /\ Placed(b, a, growth, le) = growth["calls"]
                                      /\ growth["time"] <= le * growth["calls"]
                 /\ AllSlower(le) => /\ Placed(b, a, growth, le) = 0
                                     /\ growth["time"] >= le * growth["calls"]
<1> DEFINE n == growth["calls"]
           T == growth["time"]
           slow == NewSlowest(b, a, n)
           left == n - One(slow)
           fast == NewFastest(b, a, left)
           rest == left - One(fast)
           s == IF slow THEN b.slowest ELSE 0
           f == IF fast THEN b.fastest ELSE 0
           time == T - s - f
           placed == IF time <= le * rest THEN rest ELSE 0
<1>1. /\ n \in Nat /\ n > 0 /\ T \in Int /\ le \in Nat
      /\ b.slowest \in Nat /\ b.fastest \in Nat
      /\ a.slowest \in Nat /\ a.fastest \in Nat
  BY StatementsAssumption DEF Feeds, Row
<1>2. slow \in BOOLEAN /\ fast \in BOOLEAN
  BY DEF NewSlowest, NewFastest
<1>3. left \in Nat /\ left > 0
  BY <1>1 DEF One, NewSlowest
<1>4. rest \in Nat /\ rest > 0
  BY <1>1, <1>3 DEF One, NewFastest
<1>5. s \in Nat /\ f \in Nat /\ time \in Int
  BY <1>1
<1>6. Placed(b, a, growth, le)
        = One(slow /\ b.slowest <= le) + One(fast /\ b.fastest <= le) + placed
  BY DEF Placed
<1>7. n = rest + One(slow) + One(fast) /\ T = time + s + f
  BY <1>1 DEF One
<1>8. placed \in Nat /\ placed <= rest
  BY <1>4
<1>9. Placed(b, a, growth, le) <= n
  <2> HIDE DEF slow, fast, rest, placed, n
  <2> QED
    BY <1>2, <1>4, <1>6, <1>7, <1>8 DEF One
<1>10. ASSUME Extremes(b), Window(a, b), n = Calls(b) - Calls(a), T = Time(b) - Time(a)
       PROVE  /\ NoneSlower(le) => /\ Placed(b, a, growth, le) = n
                                   /\ T <= le * n
              /\ AllSlower(le) => Placed(b, a, growth, le) = 0 /\ T >= le * n
  <2> DEFINE o == OtherCalls(a, b)
             t == OtherTime(a, b)
  <2>1. o \in Int /\ t \in Int /\ o >= 0
    BY <1>10, RowNumbers DEF Window
  <2>2. /\ NoneSlower(le) => t <= le * o
        /\ AllSlower(le) => t >= (le + 1) * o
    BY <1>10 DEF Window
  <2>3. \/ rest = o /\ time = t
        \/ \E y \in {b.slowest, b.fastest} : rest = o + 1 /\ time = t + y
    <3>1. /\ o = n - One(SlowestIsNew(a, b)) - One(FastestIsNew(a, b))
          /\ t = T - (IF SlowestIsNew(a, b) THEN b.slowest ELSE 0)
                   - (IF FastestIsNew(a, b) THEN b.fastest ELSE 0)
      BY <1>10 DEF OtherCalls, OtherTime
    <3> DEFINE S == SlowestIsNew(a, b)
               F == FastestIsNew(a, b)
    <3>2. /\ slow <=> S /\ n > 1
          /\ fast <=> b.fastest > 0 /\ F /\ left > 1
      BY DEF NewSlowest, NewFastest, SlowestIsNew, FastestIsNew
    <3>3. S \in BOOLEAN /\ F \in BOOLEAN
      BY DEF SlowestIsNew, FastestIsNew
    <3> HIDE DEF n, T, slow, fast, S, F, o, t
    <3>4. CASE S /\ n = 1
      <4>1. ~F
        BY <1>1, <2>1, <3>1, <3>4 DEF One, S, F
      <4>2. ~slow /\ ~fast /\ o = 0 /\ rest = 1
        BY <1>1, <3>1, <3>2, <3>4, <4>1 DEF One, S, F
      <4>3. t = T - b.slowest /\ time = T
        BY <1>1, <3>1, <3>4, <4>1, <4>2 DEF S, F
      <4> QED
        BY <1>1, <4>2, <4>3
    <3>5. CASE ~(S /\ n = 1)
      <4>1. slow <=> S
        BY <1>1, <3>2, <3>5
      <4>2. One(slow) = One(S) /\ s = IF S THEN b.slowest ELSE 0
        BY <4>1 DEF One
      <4>3. CASE fast <=> F
        <5>1. rest = o
          BY <1>1, <3>1, <4>1, <4>3 DEF One, S, F
        <5>2. f = IF F THEN b.fastest ELSE 0
          BY <4>3
        <5>3. time = t
          BY <3>1, <4>2, <5>2 DEF S, F
        <5> QED
          BY <5>1, <5>3
      <4>4. CASE F /\ ~fast
        <5>1. rest = o + 1
          BY <1>1, <3>1, <4>1, <4>4 DEF One, S, F
        <5>2. time = T - s /\ t = T - s - b.fastest
          <6>1. f = 0 /\ (IF F THEN b.fastest ELSE 0) = b.fastest
            BY <4>4
          <6>2. time = T - s
            BY <1>1, <1>5, <6>1
          <6>3. t = T - s - b.fastest
            BY <3>1, <4>2, <6>1 DEF S, F
          <6> QED
            BY <6>2, <6>3
        <5>3. time = t + b.fastest
          BY <1>1, <1>5, <5>2
        <5> QED
          BY <5>1, <5>3
      <4> QED
        BY <3>2, <4>3, <4>4
    <3> QED
      BY <1>1, <3>4, <3>5
  <2>4. /\ NoneSlower(le) => time <= le * rest
        /\ AllSlower(le) => time >= (le + 1) * rest
    <3>1. CASE rest = o /\ time = t
      <4> HIDE DEF rest, time, o, t
      <4> QED
        BY <2>2, <3>1
    <3>2. ASSUME NEW y \in {b.slowest, b.fastest}, rest = o + 1, time = t + y
          PROVE  /\ NoneSlower(le) => time <= le * rest
                 /\ AllSlower(le) => time >= (le + 1) * rest
      <4>1. y \in Nat /\ le + 1 \in Nat
        BY <1>1
      <4>2. (NoneSlower(le) => y <= le) /\ (AllSlower(le) => y >= le + 1)
        BY <1>10, ExtremesBound
      <4> HIDE DEF rest, time, o, t
      <4>3. NoneSlower(le) => t + y <= le * (o + 1)
        BY <1>1, <2>1, <2>2, <4>1, <4>2, OneMoreCall
      <4>4. AllSlower(le) => t + y >= (le + 1) * (o + 1)
        BY <1>1, <2>1, <2>2, <4>1, <4>2, OneMoreCall
      <4> QED
        BY <3>2, <4>3, <4>4
    <3> HIDE DEF rest, time, o, t
    <3> QED
      BY <2>3, <3>1, <3>2
  <2>5. ASSUME NoneSlower(le) PROVE Placed(b, a, growth, le) = n /\ T <= le * n
    <3>1. b.slowest <= le /\ b.fastest <= le
      BY <1>10, <2>5, ExtremesBound
    <3>2. placed = rest
      BY <2>4, <2>5
    <3>3. Placed(b, a, growth, le) = One(slow) + One(fast) + rest
      BY <1>6, <3>1, <3>2 DEF One
    <3>4. time + s <= le * (rest + One(slow))
      <4>1. b.slowest <= le
        BY <1>1, <3>1
      <4>2. time <= le * rest
        BY <2>4, <2>5
      <4>3. rest \in Int /\ time \in Int /\ slow \in BOOLEAN
        BY <1>2, <1>4, <1>5
      <4> HIDE DEF rest, time, slow
      <4> QED
        BY <1>1, <4>1, <4>2, <4>3, PerhapsOneMore
    <3>5. time + s + f <= le * (rest + One(slow) + One(fast))
      <4>1. b.fastest <= le
        BY <1>1, <3>1
      <4> DEFINE r == rest + One(slow)
                 u == time + s
      <4>2. r \in Int /\ u \in Int /\ u <= le * r
        BY <1>4, <1>5, <3>4 DEF One
      <4> HIDE DEF r, u, fast
      <4>3. u + f <= le * (r + One(fast))
        BY <1>1, <1>2, <4>1, <4>2, PerhapsOneMore
      <4> QED
        BY <4>3 DEF r, u
    <3> HIDE DEF n, T, rest, slow, fast, s, f, time
    <3>6. Placed(b, a, growth, le) = n
      BY <1>4, <1>7, <3>3 DEF One
    <3> QED
      BY <1>7, <3>5, <3>6
  <2>6. ASSUME AllSlower(le) PROVE Placed(b, a, growth, le) = 0 /\ T >= le * n
    <3>1. b.slowest >= le + 1 /\ b.fastest >= le + 1
      BY <1>10, <2>6, ExtremesBound
    <3>2. (le + 1) * rest = le * rest + rest /\ le * rest \in Int
      <4> HIDE DEF rest
      <4> QED
        BY <1>1, <1>4
    <3>3. time >= le * rest + rest
      BY <2>4, <2>6, <3>2
    <3>4. placed = 0
      <4> HIDE DEF time, rest
      <4>1. ~(time <= le * rest)
        BY <1>4, <1>5, <3>2, <3>3
      <4> QED
        BY <4>1
    <3>5. ~(b.slowest <= le) /\ ~(b.fastest <= le)
      BY <1>1, <3>1
    <3>6. Placed(b, a, growth, le) = 0
      BY <1>6, <3>4, <3>5 DEF One
    <3>7. time >= le * rest
      <4> HIDE DEF time, rest
      <4> QED
        BY <1>4, <1>5, <3>2, <3>3
    <3>8. time + s >= le * (rest + One(slow))
      <4>1. b.slowest >= le
        BY <1>1, <3>1
      <4>2. time >= le * rest
        BY <3>7
      <4>3. rest \in Int /\ time \in Int /\ slow \in BOOLEAN
        BY <1>2, <1>4, <1>5
      <4> HIDE DEF rest, time, slow
      <4> QED
        BY <1>1, <4>1, <4>2, <4>3, PerhapsOneMore
    <3>9. time + s + f >= le * (rest + One(slow) + One(fast))
      <4>1. b.fastest >= le
        BY <1>1, <3>1
      <4> DEFINE r == rest + One(slow)
                 u == time + s
      <4>2. r \in Int /\ u \in Int /\ u >= le * r
        BY <1>4, <1>5, <3>8 DEF One
      <4> HIDE DEF r, u, fast
      <4>3. u + f >= le * (r + One(fast))
        BY <1>1, <1>2, <4>1, <4>2, PerhapsOneMore
      <4> QED
        BY <4>3 DEF r, u
    <3> HIDE DEF n, T, rest, slow, fast, s, f, time
    <3> QED
      BY <1>7, <3>6, <3>9
  <2> QED
    BY <2>5, <2>6
<1> QED
  BY <1>9, <1>10

\* Every step keeps the windows.
LEMMA WindowStep == TypeInv /\ MissInv /\ WindowInv /\ [Next]_vars => WindowInv'
<1> SUFFICES ASSUME TypeInv, MissInv, WindowInv, [Next]_vars PROVE WindowInv'
  OBVIOUS
<1>t. TypeOK /\ Control
  BY DEF TypeInv
<1>n. /\ \A k \in DOMAIN stats : k \in Keys /\ stats[k] \in Row
      /\ \A k \in DOMAIN prevStmts : k \in Keys /\ prevStmts[k] \in Row
      /\ \A g \in Gatherers : \A k \in DOMAIN snap[g] : k \in Keys /\ snap[g][k] \in Row
  BY RowsTyped
<1>m. \A k \in Keys \ disturbed :
        /\ k \in DOMAIN prevStmts => k \in DOMAIN stats
        /\ \A g \in Gatherers : pc[g] = "rows" =>
            /\ k \in DOMAIN prevStmts => k \in DOMAIN snap[g]
            /\ k \in DOMAIN snap[g] => k \in DOMAIN stats
  BY DEF MissInv
<1>1. ASSUME NEW k \in Keys, Execute(k) PROVE WindowInv'
  <2>1. PICK cost \in Costs :
            stats' = [i \in DOMAIN stats \cup {k} |->
                         IF i = k THEN Ran(k, cost, ran[k] + 1) ELSE stats[i]]
    BY <1>1 DEF Execute
  <2>2. UNCHANGED <<prevStmts, pc, snap, disturbed>>
    BY <1>1 DEF Execute, locals
  <2> DEFINE row == Ran(k, cost, ran[k] + 1)
  <2>3. row \in Row /\ stats'[k] = row
        /\ \A i \in DOMAIN stats \ {k} : stats'[i] = stats[i]
    BY <2>1, RanIsRow, <1>t DEF TypeOK
  <2>4. cost["time"] \in Nat /\ cost["calls"] = 1
    BY StatementsAssumption
  <2>5. CASE k \notin DOMAIN stats
    <3>1. row.fastest = cost["time"] /\ row.slowest = cost["time"]
      BY <2>5 DEF Ran
    <3>2. Extremes(row)
      <4> HIDE DEF row
      <4> QED
        BY <2>4, <3>1 DEF Extremes, NoneSlower, AllSlower
    <3> HIDE DEF row
    <3>3. \A i \in DOMAIN stats' : i = k \/ (i \in DOMAIN stats /\ i # k)
      BY <2>1
    <3> QED
      BY <1>m, <2>2, <2>3, <2>5, <3>2, <3>3 DEF WindowInv
  <2>6. CASE k \in DOMAIN stats
    <3> DEFINE b == stats[k]
    <3>1. /\ Calls(row) = Calls(b) + 1 /\ Time(row) = Time(b) + cost["time"]
          /\ row.fastest = Lesser(b.fastest, cost["time"])
          /\ row.slowest = Greater(b.slowest, cost["time"])
      BY <2>4, <2>6, StatementsAssumption DEF Ran, Calls, Time
    <3>2. b \in Row
      BY <2>6, <1>n
    <3> HIDE DEF row
    <3>3. ASSUME k \notin disturbed PROVE Extremes(b) /\ Extremes(row)
      <4>1. Extremes(b)
        BY <2>6, <3>3 DEF WindowInv
      <4>2. b.fastest \in Nat /\ b.slowest \in Nat /\ row.fastest <= row.slowest
        BY <2>4, <3>1, <3>2, <4>1 DEF Row, Lesser, Greater, Extremes
      <4>3. ASSUME NEW le \in Buckets
            PROVE  /\ NoneSlower(le) => row.slowest <= le
                   /\ AllSlower(le) => row.fastest > le
        <5>1. /\ NoneSlower(le) => b.slowest <= le /\ cost["time"] <= le
              /\ AllSlower(le) => b.fastest > le /\ cost["time"] > le
          BY <4>1 DEF Extremes, NoneSlower, AllSlower
        <5> HIDE DEF b
        <5> QED
          BY <3>1, <5>1 DEF Lesser, Greater
      <4> QED
        BY <4>1, <4>2, <4>3 DEF Extremes
    <3>4. ASSUME k \notin disturbed, NEW a \in Row, Window(a, b) PROVE Window(a, row)
      <4> HIDE DEF b
      <4> QED
        BY <2>3, <3>1, <3>2, <3>3, <3>4, WindowRun
    <3>5. ASSUME k \notin disturbed
          PROVE  /\ Extremes(row)
                 /\ k \in DOMAIN prevStmts => Window(prevStmts[k], row)
                 /\ \A g \in Gatherers : pc[g] = "rows" /\ k \in DOMAIN snap[g] =>
                        Window(snap[g][k], row)
      BY <1>n, <3>3, <3>4, <3>5 DEF WindowInv
    <3>6. DOMAIN stats' = DOMAIN stats
      BY <2>1, <2>6
    <3> QED
      BY <1>m, <2>2, <2>3, <3>5, <3>6 DEF WindowInv
  <2> QED
    BY <2>5, <2>6
<1>2. ASSUME NEW k \in Keys, Forget(k) PROVE WindowInv'
  <2>1. /\ UNCHANGED <<prevStmts, pc, snap>>
        /\ disturbed' = disturbed \cup {k}
        /\ DOMAIN stats' = DOMAIN stats \ {k}
        /\ \A i \in DOMAIN stats' : stats'[i] = stats[i]
    BY <1>2 DEF Forget, locals
  <2>2. \A i \in Keys \ disturbed' : /\ i \in Keys \ disturbed
                                       /\ i \in DOMAIN stats' <=> i \in DOMAIN stats
    BY <2>1
  <2> QED
    BY <1>m, <2>1, <2>2 DEF WindowInv
<1>3. ASSUME NEW g \in Gatherers, Query(g) PROVE WindowInv'
  <2>1. /\ UNCHANGED <<stats, prevStmts, disturbed>>
        /\ snap'[g] = stats
        /\ \A h \in Gatherers : pc'[h] = "rows" => h = g
    BY <1>3, <1>t, StatementsAssumption
    DEF Query, postgres, TryLock, TypeOK, Control
  <2>2. \A k \in DOMAIN stats : Window(stats[k], stats[k])
    BY <1>n, WindowSame
  <2> QED
    BY <1>m, <2>1, <2>2 DEF WindowInv
<1>4. ASSUME NEW g \in Gatherers, NEW k \in Keys, ScanRow(g, k) PROVE WindowInv'
  <2> DEFINE row == snap[g][k]
  <2>1. /\ UNCHANGED <<stats, pc, snap, disturbed>>
        /\ pc[g] = "rows" /\ k \in DOMAIN snap[g] /\ row \in Row
        /\ prevStmts' = [i \in DOMAIN prevStmts \cup {k} |->
                            IF i = k THEN row ELSE prevStmts[i]]
        /\ \A h \in Gatherers : pc[h] = "rows" => h = g
    BY <1>4, <1>t, <1>n, OneScans DEF ScanRow, postgres, TypeOK
  <2>2. Window(row, row)
    BY <2>1, WindowSame
  <2>3. /\ DOMAIN prevStmts' = DOMAIN prevStmts \cup {k} /\ prevStmts'[k] = row
        /\ \A i \in DOMAIN prevStmts \ {k} : prevStmts'[i] = prevStmts[i]
    BY <2>1
  <2>4. \A i \in Keys \ disturbed : i \in DOMAIN prevStmts' =>
            /\ Window(prevStmts'[i], stats[i])
            /\ i \in DOMAIN snap[g] => Window(prevStmts'[i], snap[g][i])
    BY <2>1, <2>2, <2>3 DEF WindowInv
  <2> QED
    BY <2>1, <2>4 DEF WindowInv
<1>5. ASSUME NEW g \in Gatherers, RowsEnd(g) PROVE WindowInv'
  <2>1. /\ UNCHANGED stats /\ disturbed \subseteq disturbed'
        /\ prevStmts' = [k \in DOMAIN prevStmts \cap seen[g] |-> prevStmts[k]]
        /\ pc' = [pc EXCEPT ![g] = "meta"] /\ pc[g] = "rows"
    BY <1>5 DEF RowsEnd, postgres
  <2>2. \A h \in Gatherers : pc'[h] # "rows"
    BY <2>1, <1>t, OneScans DEF TypeOK
  <2>3. \A k \in DOMAIN prevStmts' : k \in DOMAIN prevStmts /\ prevStmts'[k] = prevStmts[k]
    BY <2>1
  <2> QED
    BY <2>1, <2>2, <2>3 DEF WindowInv
<1>6. ASSUME NEW g \in Gatherers,
             \/ QueryFails(g) \/ NoMeta(g) \/ MetaFails(g) \/ StoreMeta(g)
             \/ WriteMetric(g)
      PROVE  WindowInv'
  <2>1. /\ UNCHANGED <<stats, prevStmts, snap>>
        /\ disturbed \subseteq disturbed'
        /\ \A h \in Gatherers : pc'[h] = "rows" => pc[h] = "rows"
    BY <1>6, <1>t DEF QueryFails, NoMeta, MetaFails, StoreMeta, Unlock, WriteMetric,
                      postgres, locals, TypeOK
  <2> QED
    BY <2>1 DEF WindowInv
<1>7. CASE UNCHANGED vars
  BY <1>7 DEF vars, postgres, locals, WindowInv
<1> QED
  BY <1>1, <1>2, <1>3, <1>4, <1>5, <1>6, <1>7 DEF Next, Phase

\* Every step keeps the latencies within their bounds: the histogram is fed with
\* the difference of two rows of a window.
LEMMA LatencyStep ==
    TypeInv /\ WindowInv /\ LatenciesWithinBounds /\ [Next]_vars
        => LatenciesWithinBounds'
<1> SUFFICES ASSUME TypeInv, WindowInv, LatenciesWithinBounds, [Next]_vars
             PROVE  LatenciesWithinBounds'
  OBVIOUS
<1>t. TypeOK /\ Control
  BY DEF TypeInv
<1>1. ASSUME UNCHANGED histogram, disturbed \subseteq disturbed'
      PROVE  LatenciesWithinBounds'
  BY <1>1 DEF histogram, LatenciesWithinBounds
<1>2. ASSUME NEW k \in Keys, Execute(k) \/ Forget(k) PROVE LatenciesWithinBounds'
  BY <1>1, <1>2 DEF Execute, Forget
<1>3. ASSUME NEW g \in Gatherers, NEW k \in Keys, ScanRow(g, k)
      PROVE  LatenciesWithinBounds'
  <2> DEFINE row    == snap[g][k]
             prev   == Before(k, row)
             growth == Growth(k, row)
             n      == growth["calls"]
             T      == growth["time"]
  <2>1. CASE ~Feeds(growth)
    BY <1>1, <1>3, <2>1 DEF ScanRow
  <2>2. CASE Feeds(growth)
    <3>1. /\ histBuckets' = [le \in Buckets |->
                histBuckets[le] + Placed(row, prev, growth, le)]
          /\ histCount' = histCount + n /\ histSum' = histSum + T
          /\ disturbed' = disturbed
      BY <1>3, <2>2 DEF ScanRow, FeedHistogram
    <3>2. pc[g] = "rows" /\ k \in DOMAIN snap[g] /\ row \in Row
      BY <1>3, RowsTyped DEF ScanRow
    <3>3. prev \in Row /\ growth \in [Dims -> Int]
      BY <3>2, <1>t, GrowthTyped DEF TypeOK
    <3>4. /\ n = Calls(row) - Calls(prev) /\ T = Time(row) - Time(prev)
          /\ n \in Int /\ T \in Int
      BY <3>3, StatementsAssumption DEF Growth, Calls, Time
    <3>5. k \in DOMAIN prevStmts /\ prev = prevStmts[k]
      <4>1. ASSUME k \notin DOMAIN prevStmts PROVE FALSE
        <5>1. prev = row
          BY <4>1 DEF Before
        <5>2. n = 0
          BY <3>2, <3>4, <5>1, RowNumbers
        <5> QED
          BY <2>2, <5>2 DEF Feeds
      <4> QED
        BY <4>1 DEF Before
    <3>6. k \notin disturbed => Extremes(row) /\ Window(prev, row)
      BY <3>2, <3>5 DEF WindowInv
    <3> HIDE DEF row, prev, growth, n, T
    <3>7. ASSUME NEW le \in Buckets
          PROVE  /\ Placed(row, prev, growth, le) \in Nat
                 /\ Placed(row, prev, growth, le) <= n
                 /\ disturbed = {} =>
                      /\ NoneSlower(le) => /\ Placed(row, prev, growth, le) = n
                                           /\ T <= le * n
                      /\ AllSlower(le) => /\ Placed(row, prev, growth, le) = 0
                                          /\ T >= le * n
      BY <2>2, <3>2, <3>3, <3>4, <3>6, PlacedTyped, WindowPlaced DEF n, T
    <3>8. ASSUME NEW le \in Buckets
          PROVE  /\ histBuckets'[le] <= histCount'
                 /\ disturbed = {} =>
                      /\ NoneSlower(le) => /\ histBuckets'[le] = histCount'
                                           /\ histSum' <= le * histCount'
                      /\ AllSlower(le) => /\ histBuckets'[le] = 0
                                          /\ histSum' >= le * histCount'
      <4> DEFINE placed == Placed(row, prev, growth, le)
      <4>1. /\ histBuckets'[le] = histBuckets[le] + placed
            /\ histBuckets[le] \in Nat /\ histCount \in Nat /\ histSum \in Nat
            /\ le \in Nat /\ placed \in Nat
        BY <1>t, <3>1, <3>7, StatementsAssumption DEF TypeOK
      <4>2. /\ histBuckets[le] <= histCount
            /\ disturbed = {} =>
                  /\ NoneSlower(le) => /\ histBuckets[le] = histCount
                                       /\ histSum <= le * histCount
                  /\ AllSlower(le) => /\ histBuckets[le] = 0
                                      /\ histSum >= le * histCount
        BY DEF LatenciesWithinBounds, NoneSlower, AllSlower
      <4>3. /\ le * (histCount + n) = le * histCount + le * n
            /\ le * histCount \in Int /\ le * n \in Int
        BY <3>4, <4>1
      <4> DEFINE p == le * histCount
                 q == le * n
      <4>4. le * histCount' = p + q /\ p \in Int /\ q \in Int
        BY <3>1, <4>3
      <4>5. /\ placed <= n
            /\ disturbed = {} => /\ NoneSlower(le) => placed = n /\ T <= q
                                 /\ AllSlower(le) => placed = 0 /\ T >= q
        BY <3>7
      <4>6. disturbed = {} => /\ NoneSlower(le) => histSum <= p
                              /\ AllSlower(le) => histSum >= p
        BY <4>2
      <4> HIDE DEF p, q, placed
      <4>7. histBuckets'[le] <= histCount'
        BY <3>1, <3>4, <4>1, <4>2, <4>5
      <4>8. ASSUME disturbed = {}, NoneSlower(le)
            PROVE  histBuckets'[le] = histCount' /\ histSum' <= le * histCount'
        BY <3>1, <3>4, <4>1, <4>2, <4>4, <4>5, <4>6, <4>8
      <4>9. ASSUME disturbed = {}, AllSlower(le)
            PROVE  histBuckets'[le] = 0 /\ histSum' >= le * histCount'
        BY <3>1, <3>4, <4>1, <4>2, <4>4, <4>5, <4>6, <4>9
      <4> QED
        BY <4>7, <4>8, <4>9
    <3> QED
      BY <3>1, <3>8 DEF LatenciesWithinBounds, NoneSlower, AllSlower
  <2> QED
    BY <2>1, <2>2
<1>4. ASSUME NEW g \in Gatherers, Query(g) \/ QueryFails(g) \/ RowsEnd(g) \/ NoMeta(g)
                                \/ MetaFails(g) \/ StoreMeta(g) \/ WriteMetric(g)
      PROVE  LatenciesWithinBounds'
  <2>1. UNCHANGED histogram /\ disturbed \subseteq disturbed'
    BY <1>4 DEF Query, QueryFails, RowsEnd, NoMeta, MetaFails, StoreMeta, Unlock,
                WriteMetric, histogram
  <2> QED
    BY <1>1, <2>1
<1>5. CASE UNCHANGED vars
  BY <1>1, <1>5 DEF vars
<1> QED
  BY <1>2, <1>3, <1>4, <1>5 DEF Next, Phase

\* No bucket of the histogram holds more calls than there are, and unless a statement
\* was reset no call is placed above the slowest nor below the fastest run, though
\* feedHistogram knows of a window only the new extremes and the sum.
THEOREM LatenciesStayWithinBounds == Spec => []LatenciesWithinBounds
<1> DEFINE Inv == TypeInv /\ MissInv /\ WindowInv /\ LatenciesWithinBounds
<1>1. Init => Inv
  <2> SUFFICES ASSUME Init PROVE WindowInv /\ LatenciesWithinBounds /\ MissInv
    BY TypeInit
  <2>1. WindowInv /\ MissInv
    BY DEF Init, MissInv, WindowInv, NoRows
  <2>2. \A le \in Buckets : le * 0 = 0
    BY StatementsAssumption
  <2>3. LatenciesWithinBounds
    BY <2>2 DEF Init, LatenciesWithinBounds
  <2> QED
    BY <2>1, <2>3
<1>2. Inv /\ [Next]_vars => Inv'
  BY TypeStep, MissStep, WindowStep, LatencyStep
<1>3. Inv => LatenciesWithinBounds
  OBVIOUS
<1> QED BY <1>1, <1>2, <1>3, PTL DEF Spec
=============================================================================
