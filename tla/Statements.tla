------------------------------ MODULE Statements ------------------------------
(***************************************************************************)
(* The statements phase of the PostgreSQL collector                        *)
(* (internal/topsrv/postgres/statements.go).  The registry is gathered by  *)
(* the /metrics handler and by the metrics pusher, so two calls of         *)
(* collectStatements may overlap; a mutex lets one of them through.  The   *)
(* phase reads the cumulative counters of every statement, subtracts those *)
(* of the previous phase, feeds a histogram with the difference, ranks the *)
(* statements, emits those that led twice in a row, and fetches the texts  *)
(* of the leaders with a second query.                                     *)
(*                                                                         *)
(* A statement is a member of Keys ("dbid:queryid"); Qid maps it to its    *)
(* queryid, which two databases may share.  Times are whole numbers.  The  *)
(* extension is installed: without it the phase does nothing.              *)
(***************************************************************************)
EXTENDS Integers, FiniteSets, Functions

CONSTANTS
    Gatherers,        \* who may gather: the scrape handler, the pusher
    Keys,
    Qid,
    Dims,             \* the ranked counters: calls, time, blocks read, ...
    Costs,            \* what a run of a statement may add to each counter
    Buckets,          \* queryDurationBuckets
    topStatementsN,
    topMetaN,
    Faults,           \* which of FaultKinds may occur
    Nobody,           \* the holder of a free mutex
    MaxRuns,          \* bound: runs of all statements together
    MaxResets         \* bound: evictions and resets of a statement

FaultKinds == {"query", "rows", "meta"}

ASSUME StatementsAssumption ==
    /\ Nobody \notin Gatherers
    /\ IsFiniteSet(Keys)
    /\ DOMAIN Qid = Keys
    /\ {"calls", "time"} \subseteq Dims
    /\ Costs \subseteq [Dims -> Nat]
    /\ \A cost \in Costs : cost["calls"] = 1
    /\ Buckets \subseteq Nat
    /\ topStatementsN \in Nat /\ topMetaN \in Nat
    /\ topStatementsN <= topMetaN
    /\ Faults \subseteq FaultKinds
    /\ MaxRuns \in Nat /\ MaxResets \in Nat

VARIABLES
    \* PostgreSQL
    stats,        \* the rows of pg_stat_statements
    ran,          \* runs of each statement, over all evictions and resets
    resets,
    \* the collector
    stmtMu,       \* who holds c.stmtMu
    prevStmts,
    prevTopKeys,
    queryMeta,    \* the statements whose text is held
    histBuckets,
    histCount,
    histSum,
    \* the locals of a phase
    pc,
    snap,         \* the rows its first query returned
    seen,         \* those it has scanned
    delta,        \* by how much their counters grew
    topMeta,
    unread,       \* its histogram metric, which refers to histBuckets, is not
                  \* yet turned into text by Registry.Gather
    \* history
    shown,        \* the statements the last phase emitted
    fed,          \* calls of each statement the histogram was fed with
    base,         \* calls it had when it was first seen
    disturbed,    \* statements evicted or reset, or missing in a cut result
    metaFailures  \* failures of the second query in a row, counted up to two

postgres  == <<stats, ran, resets>>
histogram == <<histBuckets, histCount, histSum>>
locals    == <<snap, seen, delta, topMeta>>
vars      == <<postgres, stmtMu, prevStmts, prevTopKeys, queryMeta, histogram,
               pc, locals, unread, shown, fed, base, disturbed, metaFailures>>

-----------------------------------------------------------------------------
(* Data *)

\* ever is history: the runs of the statement when the row was last written
Row == [count : [Dims -> Nat], fastest : Nat, slowest : Nat, ever : Nat]

AreRows(rows) == DOMAIN rows \subseteq Keys /\ rows \in [DOMAIN rows -> Row]

Calls(row) == row.count["calls"]
Time(row)  == row.count["time"]
NoRows     == [k \in {} |-> {}]
NoGrowth   == [d \in Dims |-> 0]

Lesser(a, b)  == IF a < b THEN a ELSE b
Greater(a, b) == IF a > b THEN a ELSE b
One(b)        == IF b THEN 1 ELSE 0

\* the row of a statement after its n-th run, which cost this much
Ran(k, cost, n) ==
    IF k \in DOMAIN stats
    THEN [count   |-> [d \in Dims |-> stats[k].count[d] + cost[d]],
          fastest |-> Lesser(stats[k].fastest, cost["time"]),
          slowest |-> Greater(stats[k].slowest, cost["time"]),
          ever    |-> n]
    ELSE [count |-> cost, fastest |-> cost["time"], slowest |-> cost["time"],
          ever |-> n]

-----------------------------------------------------------------------------
(* PostgreSQL *)

TotalRuns == FoldFunction(+, 0, ran)

Execute(k) == \E cost \in Costs :
    /\ TotalRuns < MaxRuns
    /\ ran' = [ran EXCEPT ![k] = @ + 1]
    /\ stats' = [i \in DOMAIN stats \cup {k} |->
                    IF i = k THEN Ran(k, cost, ran[k] + 1) ELSE stats[i]]
    /\ UNCHANGED <<resets, stmtMu, prevStmts, prevTopKeys, queryMeta, histogram,
                   pc, locals, unread, shown, fed, base, disturbed,
                   metaFailures>>

\* pg_stat_statements_reset(), or an eviction to make room
Forget(k) ==
    /\ k \in DOMAIN stats
    /\ resets < MaxResets
    /\ resets' = resets + 1
    /\ stats' = [i \in DOMAIN stats \ {k} |-> stats[i]]
    /\ disturbed' = disturbed \cup {k}
    /\ UNCHANGED <<ran, stmtMu, prevStmts, prevTopKeys, queryMeta, histogram, pc,
                   locals, unread, shown, fed, base, metaFailures>>

-----------------------------------------------------------------------------
(* collectStatements: the first query *)

\* bug: no mutex
NoMutex == TRUE

\* c.stmtMu.TryLock(); who finds it locked skips the phase
TryLock == stmtMu = Nobody

QueryFails(g) ==
    /\ pc[g] = "idle" /\ ~unread[g]
    /\ TryLock
    /\ "query" \in Faults
    /\ shown' = {}
    /\ UNCHANGED <<postgres, stmtMu, prevStmts, prevTopKeys, queryMeta, histogram,
                   pc, locals, unread, fed, base, disturbed, metaFailures>>

Query(g) ==
    /\ pc[g] = "idle" /\ ~unread[g]
    /\ TryLock
    /\ stmtMu' = g
    /\ pc' = [pc EXCEPT ![g] = "rows"]
    /\ snap' = [snap EXCEPT ![g] = stats]
    /\ seen' = [seen EXCEPT ![g] = {}]
    /\ delta' = [delta EXCEPT ![g] = [k \in Keys |-> NoGrowth]]
    /\ UNCHANGED <<postgres, prevStmts, prevTopKeys, queryMeta, histogram, topMeta,
                   unread, shown, fed, base, disturbed, metaFailures>>

-----------------------------------------------------------------------------
(* scanStatements and feedHistogram *)

Unseen == [count |-> NoGrowth, fastest |-> 0, slowest |-> 0, ever |-> 0]

\* bug: what a statement did before it was first seen is taken for growth
BeforeFromZero(k, row) == IF k \in DOMAIN prevStmts THEN prevStmts[k] ELSE Unseen

\* the counters of the previous phase; a statement seen first has not grown
Before(k, row) == IF k \in DOMAIN prevStmts THEN prevStmts[k] ELSE row

Growth(k, row) == [d \in Dims |-> row.count[d] - Before(k, row).count[d]]

\* bug: a reset is not told from growth
FeedsAny(growth) == growth["calls"] /= 0

Feeds(growth) == growth["calls"] > 0 /\ growth["time"] >= 0

\* bug: the slowest call so far is placed again whenever there are calls
AnySlowest(row, prev, calls) == calls > 1

\* the slowest call so far, and then the fastest, fell into this window
NewSlowest(row, prev, calls) == row.slowest > prev.slowest /\ calls > 1
NewFastest(row, prev, calls) ==
    row.fastest > 0 /\ row.fastest < prev.fastest /\ calls > 1

\* by how much the bucket of the calls no slower than le grows: the outliers
\* on their own, the other calls at their mean
Placed(row, prev, growth, le) ==
    LET slow == NewSlowest(row, prev, growth["calls"])
        left == growth["calls"] - One(slow)
        fast == NewFastest(row, prev, left)
        rest == left - One(fast)
        time == growth["time"] - (IF slow THEN row.slowest ELSE 0)
                               - (IF fast THEN row.fastest ELSE 0)
    IN  One(slow /\ row.slowest <= le) + One(fast /\ row.fastest <= le)
        + (IF time <= le * rest THEN rest ELSE 0)

FeedHistogram(k, row, growth) ==
    /\ histBuckets' = [le \in Buckets |->
            histBuckets[le] + Placed(row, Before(k, row), growth, le)]
    /\ histCount' = histCount + growth["calls"]
    /\ histSum' = histSum + growth["time"]
    /\ fed' = [fed EXCEPT ![k] = @ + growth["calls"]]

ScanRow(g, k) ==
    /\ pc[g] = "rows"
    /\ k \in DOMAIN snap[g] \ seen[g]
    /\ LET row    == snap[g][k]
           growth == Growth(k, row)
       IN  /\ IF Feeds(growth)
              THEN FeedHistogram(k, row, growth)
              ELSE UNCHANGED <<histogram, fed>>
           /\ delta' = [delta EXCEPT ![g][k] = growth]
           /\ prevStmts' = [i \in DOMAIN prevStmts \cup {k} |->
                                IF i = k THEN row ELSE prevStmts[i]]
           /\ base' = IF k \in DOMAIN prevStmts THEN base
                      ELSE [base EXCEPT ![k] = Calls(row)]
    /\ seen' = [seen EXCEPT ![g] = @ \cup {k}]
    /\ UNCHANGED <<postgres, stmtMu, prevTopKeys, queryMeta, pc, snap, topMeta,
                   unread, shown, disturbed, metaFailures>>

-----------------------------------------------------------------------------
(* selectTopStatements and debounceTop *)

\* leaders are the first n statements by d, of those that grew; ties fall
\* either way
Lead(leaders, d, n, grew) ==
    LET able == {k \in DOMAIN grew : grew[k][d] > 0}
    IN  /\ leaders \subseteq able
        /\ Cardinality(leaders) = Lesser(n, Cardinality(able))
        /\ \A a \in leaders, b \in able \ leaders : grew[a][d] >= grew[b][d]

\* bug: a statement is emitted as soon as it leads
EmitAtOnce(top) == top

DebounceTop(top) == top \cap prevTopKeys

\* the result ends, or the connection is lost, or a row cannot be scanned,
\* which ends it too; rows.Err() is not looked at
RowsEnd(g) ==
    /\ pc[g] = "rows"
    /\ seen[g] = DOMAIN snap[g] \/ "rows" \in Faults
    /\ disturbed' = disturbed \cup (DOMAIN snap[g] \ seen[g])
    /\ prevStmts' = [k \in DOMAIN prevStmts \cap seen[g] |-> prevStmts[k]]
    /\ LET grew == [k \in seen[g] |-> delta[g][k]]
       IN  \E metrics \in [Dims -> SUBSET seen[g]] :
           \E meta \in [Dims -> SUBSET seen[g]] :
                /\ \A d \in Dims : /\ Lead(metrics[d], d, topStatementsN, grew)
                                   /\ Lead(meta[d], d, topMetaN, grew)
                                   /\ metrics[d] \subseteq meta[d]
                /\ LET top == UNION {metrics[d] : d \in Dims}
                   IN  prevTopKeys' = top /\ shown' = DebounceTop(top)
                /\ topMeta' = [topMeta EXCEPT ![g] = UNION {meta[d] : d \in Dims}]
    /\ unread' = [unread EXCEPT ![g] = histCount > 0]
    /\ pc' = [pc EXCEPT ![g] = "meta"]
    /\ snap' = [snap EXCEPT ![g] = NoRows]
    /\ seen' = [seen EXCEPT ![g] = {}]
    /\ delta' = [delta EXCEPT ![g] = [k \in Keys |-> NoGrowth]]
    /\ UNCHANGED <<postgres, stmtMu, queryMeta, histogram, fed, base, metaFailures>>

-----------------------------------------------------------------------------
(* collectQueryMeta: the second query *)

Unlock(g) ==
    /\ pc' = [pc EXCEPT ![g] = "idle"]
    /\ stmtMu' = Nobody
    /\ topMeta' = [topMeta EXCEPT ![g] = {}]
    /\ UNCHANGED <<postgres, prevStmts, prevTopKeys, histogram, snap, seen, delta,
                   unread, shown, fed, base>>

\* bug: the first row of a queryid is taken to settle it, wanted or not
FirstOfAny(texts, read, top) ==
    LET First(k) == \A i \in read : Qid[i] = Qid[k] =>
                        Time(stats[i]) <= Time(stats[k])
    IN  texts = {k \in top \cap read : First(k)}

\* the first wanted row of each queryid, in the order of their times
FirstOfEach(texts, read, top) ==
    /\ \A a, b \in texts : Qid[a] = Qid[b] => a = b
    /\ \A k \in top \cap read : \E a \in texts :
            Qid[a] = Qid[k] /\ Time(stats[k]) <= Time(stats[a])

NoMeta(g) ==
    /\ pc[g] = "meta" /\ topMeta[g] = {}
    /\ Unlock(g)
    /\ UNCHANGED <<queryMeta, disturbed, metaFailures>>

MetaFails(g) ==
    /\ pc[g] = "meta" /\ topMeta[g] /= {}
    /\ "meta" \in Faults
    /\ Unlock(g)
    /\ metaFailures' = Lesser(2, metaFailures + 1)
    /\ UNCHANGED <<queryMeta, disturbed>>

\* the rows come in the order of their times, and may be cut short
StoreMeta(g) == \E read \in SUBSET DOMAIN stats :
    /\ pc[g] = "meta" /\ topMeta[g] /= {}
    /\ read = DOMAIN stats \/ "rows" \in Faults
    /\ \A a \in read, b \in DOMAIN stats \ read : Time(stats[a]) >= Time(stats[b])
    /\ \E texts \in SUBSET (topMeta[g] \cap read) :
            FirstOfEach(texts, read, topMeta[g]) /\ queryMeta' = texts
    /\ Unlock(g)
    /\ metaFailures' = 0
    /\ disturbed' = disturbed \cup (DOMAIN stats \ read)

\* Registry.Gather takes the metrics out of a channel while the collector goes
\* on, and returns when it has written all of them
WriteMetric(g) ==
    /\ unread[g]
    /\ unread' = [unread EXCEPT ![g] = FALSE]
    /\ UNCHANGED <<postgres, stmtMu, prevStmts, prevTopKeys, queryMeta, histogram,
                   pc, locals, shown, fed, base, disturbed, metaFailures>>

-----------------------------------------------------------------------------

Init ==
    /\ stats = NoRows
    /\ ran = [k \in Keys |-> 0]
    /\ resets = 0
    /\ stmtMu = Nobody
    /\ prevStmts = NoRows
    /\ prevTopKeys = {}
    /\ queryMeta = {}
    /\ histBuckets = [le \in Buckets |-> 0]
    /\ histCount = 0
    /\ histSum = 0
    /\ pc = [g \in Gatherers |-> "idle"]
    /\ snap = [g \in Gatherers |-> NoRows]
    /\ seen = [g \in Gatherers |-> {}]
    /\ delta = [g \in Gatherers |-> [k \in Keys |-> NoGrowth]]
    /\ topMeta = [g \in Gatherers |-> {}]
    /\ unread = [g \in Gatherers |-> FALSE]
    /\ shown = {}
    /\ fed = [k \in Keys |-> 0]
    /\ base = [k \in Keys |-> 0]
    /\ disturbed = {}
    /\ metaFailures = 0

Phase(g) ==
    \/ Query(g)
    \/ QueryFails(g)
    \/ \E k \in Keys : ScanRow(g, k)
    \/ RowsEnd(g)
    \/ NoMeta(g)
    \/ MetaFails(g)
    \/ StoreMeta(g)
    \/ WriteMetric(g)

Next ==
    \/ \E k \in Keys : Execute(k) \/ Forget(k)
    \/ \E g \in Gatherers : Phase(g)

Spec == Init /\ [][Next]_vars

-----------------------------------------------------------------------------
(* Properties *)

\* Every variable has its type; the counters of the histogram, unsigned in
\* the code, never shrink below zero (feedHistogram).
TypeOK ==
    /\ AreRows(stats) /\ ran \in [Keys -> Nat] /\ resets \in Nat
    /\ stmtMu \in Gatherers \cup {Nobody}
    /\ AreRows(prevStmts)
    /\ prevTopKeys \subseteq Keys /\ queryMeta \subseteq Keys
    /\ histBuckets \in [Buckets -> Nat] /\ histCount \in Nat /\ histSum \in Nat
    /\ pc \in [Gatherers -> {"idle", "rows", "meta"}]
    /\ DOMAIN snap = Gatherers /\ \A g \in Gatherers : AreRows(snap[g])
    /\ seen \in [Gatherers -> SUBSET Keys]
    /\ delta \in [Gatherers -> [Keys -> [Dims -> Int]]]
    /\ topMeta \in [Gatherers -> SUBSET Keys]
    /\ unread \in [Gatherers -> BOOLEAN]
    /\ shown \subseteq Keys
    /\ fed \in [Keys -> Nat] /\ base \in [Keys -> Nat]
    /\ disturbed \subseteq Keys
    /\ metaFailures \in 0..2

\* No call is counted twice: the histogram was never fed with more calls of a
\* statement than ran, whatever two gatherers, resets, evictions and results
\* cut short do to the previous counters (stmtMu, scanStatements).
NoCallCountedTwice == \A k \in Keys : fed[k] <= ran[k]

\* "fed from every statement regardless of ranking, so latency percentiles
\* have no such gap" (docs/metrics.md): of a statement that was not reset nor
\* missing in a cut result, every call since it was first seen is in the
\* histogram, phases that were skipped and queries that failed included.
NothingMissed == \A k \in DOMAIN prevStmts \ disturbed :
    fed[k] + base[k] = Calls(prevStmts[k])

\* feedHistogram places outliers on their own and the others at a mean that
\* preserves the sum: no bucket holds more calls than there are, and unless a
\* statement was reset no call is placed above the slowest nor below the
\* fastest that a run can take.
LatenciesWithinBounds ==
    /\ \A le \in Buckets : histBuckets[le] <= histCount
    /\ disturbed = {} =>
        \A le \in Buckets :
            /\ (\A cost \in Costs : cost["time"] <= le) =>
                    histBuckets[le] = histCount /\ histSum <= le * histCount
            /\ (\A cost \in Costs : cost["time"] > le) =>
                    histBuckets[le] = 0 /\ histSum >= le * histCount

\* "keeps one-off statements (migrations, tests, ad-hoc queries) out of the
\* TSDB" (debounceTop): an emitted statement ran three times at least, once
\* to be seen and once in each of two windows.
OneOffsStayOut == \A k \in shown : ran[k] >= 3

\* The metrics set is a subset of the meta set (selectTopStatements): once a
\* phase is over, the text of each statement it emitted is held under its
\* queryid, and one failed text query does not take it away.
EmittedHasText ==
    stmtMu = Nobody /\ metaFailures <= 1 =>
        \A k \in shown \ disturbed : \E i \in queryMeta : Qid[i] = Qid[k]

\* "prevStmts and histBuckets are plain maps, and a concurrent map write is a
\* fatal error" (collectStatements): the map is not written while a metric
\* that refers to it is still to be read.
HistogramGuarded == [][histBuckets' # histBuckets =>
                            \A g \in Gatherers : ~unread[g]]_vars
=============================================================================
