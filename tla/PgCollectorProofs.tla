--------------------------- MODULE PgCollectorProofs ---------------------------
(***************************************************************************)
(* Proofs about PgCollector, for every set of gathers, all refresh         *)
(* intervals that PgAssumption allows and every bound.                     *)
(***************************************************************************)
EXTENDS PgCollector, TLAPS

\* The first state is typed.
LEMMA PgTypeInit == PgInit => PgTypeOK
<1> SUFFICES ASSUME PgInit PROVE PgTypeOK
  OBVIOUS
<1>1. Never \in Int
  BY PgAssumption DEF Never
<1>2. scans \in [Gathers -> [Scans -> {"running", "done", "failed"}]]
  BY DEF PgInit, NoScans
<1>3. /\ pc \in [Gathers -> Steps] /\ age \in [Gathers -> 0..1]
      /\ number \in [Gathers -> Nat]
  BY DEF PgInit, Steps
<1>4. /\ pool \in Databases \cup {None} /\ opened \subseteq Databases
      /\ cfgDB \in Databases
  BY DEF PgInit, Databases
<1> QED
  BY <1>1, <1>2, <1>3, <1>4 DEF PgInit, PgTypeOK

\* Every step keeps the types.
LEMMA PgTypeStep == PgTypeOK /\ [PgNext]_pgVars => PgTypeOK'
<1> SUFFICES ASSUME PgTypeOK, [PgNext]_pgVars PROVE PgTypeOK'
  OBVIOUS
<1> USE DEF PgTypeOK, Goto, poolVars, sampVars, cacheVars
<1>1. ASSUME NEW g \in Gathers, Collect(g) PROVE PgTypeOK'
  BY <1>1 DEF Collect, Steps
<1>2. ASSUME NEW g \in Gathers, EnsurePool(g) PROVE PgTypeOK'
  BY <1>2 DEF EnsurePool, Steps
<1>3. ASSUME NEW g \in Gathers, Ping(g) PROVE PgTypeOK'
  BY <1>3 DEF Ping, Steps
<1>4. ASSUME NEW g \in Gathers, SwitchToLargest(g) PROVE PgTypeOK'
  BY <1>4 DEF SwitchToLargest, Steps, Databases
<1>5. ASSUME NEW g \in Gathers, Features(g) PROVE PgTypeOK'
  BY <1>5 DEF Features, Steps
<1>6. ASSUME NEW g \in Gathers, CollectSettings(g) PROVE PgTypeOK'
  BY <1>6, SMTT(30) DEF CollectSettings, Steps
<1>7. ASSUME NEW g \in Gathers, SettingsRefreshed(g) PROVE PgTypeOK'
  BY <1>7 DEF SettingsRefreshed, Steps
<1>8. ASSUME NEW g \in Gathers, tryBeginBloatRefresh(g) PROVE PgTypeOK'
  <2>1. pc' \in [Gathers -> Steps]
    BY <1>8 DEF tryBeginBloatRefresh, Steps
  <2>2. scans' \in [Gathers -> [Scans -> {"running", "done", "failed"}]]
    BY <1>8 DEF tryBeginBloatRefresh
  <2>3. number' \in [Gathers -> Nat] /\ begun' \in Nat /\ bloatAt' \in Int
    BY <1>8 DEF tryBeginBloatRefresh
  <2> QED
    BY <1>8, <2>1, <2>2, <2>3 DEF tryBeginBloatRefresh
<1>9. ASSUME NEW g \in Gathers, NEW s \in Scans, ScanEnds(g, s) PROVE PgTypeOK'
  BY <1>9 DEF ScanEnds
<1>10. ASSUME NEW g \in Gathers, StoreBloat(g) PROVE PgTypeOK'
  BY <1>10, PgAssumption DEF StoreBloat, Steps, NoScans, Never
<1>11. CASE SamplerReturns
  BY <1>11 DEF SamplerReturns
<1>12. CASE Close
  BY <1>12 DEF Close
<1>13. CASE Closer
  BY <1>13 DEF Closer, ClosePool, PoolClosed
<1>14. CASE PgTick
  BY <1>14 DEF PgTick
<1>15. CASE UNCHANGED pgVars
  BY <1>15 DEF pgVars
<1> QED
  BY <1>1, <1>2, <1>3, <1>4, <1>5, <1>6, <1>7, <1>8, <1>9, <1>10, <1>11, <1>12,
     <1>13, <1>14, <1>15 DEF PgNext, Gather

\* Every variable of the collector keeps its type.
THEOREM PgTypeCorrect == PgSpec => []PgTypeOK
  BY PgTypeInit, PgTypeStep, PTL DEF PgSpec

-----------------------------------------------------------------------------
(* The pool *)

\* The pool that is open is the one the collector uses, until Close; whoever is
\* past ensureReady has one, whoever is inside of it holds initMu and is the
\* first; and the label is that of the pool, for it is read after the swap.
PoolInv ==
    /\ closing \in {"no", "sampler"} => opened = IF pool = None THEN {} ELSE {pool}
    /\ \A g \in Gathers : pc[g] \notin {"idle", "init"} => pool # None
    /\ sampler = "running" => pool # None
    /\ \A g \in Gathers : pc[g] \in {"ping", "switch", "features"} => initMu = g
    /\ \A g \in Gathers : pc[g] \in {"switch", "features"} => ~initDone
    /\ database # NoLabel => initDone
    /\ database \in {NoLabel, pool}

\* There is no pool at first.
LEMMA PoolInit == PgInit => PoolInv
  BY DEF PgInit, PoolInv

\* Every step of a gather, of the sampler and of Close keeps the pool in order.
LEMMA PoolStep == PgTypeOK /\ PoolInv /\ [PgNext]_pgVars => PoolInv'
<1> SUFFICES ASSUME PgTypeOK, PoolInv, [PgNext]_pgVars PROVE PoolInv'
  OBVIOUS
<1> USE DEF PgTypeOK, PoolInv, Goto, poolVars, sampVars, cacheVars
<1>0. None \notin Databases \cup Gathers
  BY PgAssumption DEF Databases
<1>1. ASSUME NEW g \in Gathers, Collect(g) PROVE PoolInv'
  BY <1>1 DEF Collect
<1>2. ASSUME NEW g \in Gathers, EnsurePool(g) PROVE PoolInv'
  BY <1>0, <1>2 DEF EnsurePool
<1>3. ASSUME NEW g \in Gathers, Ping(g) PROVE PoolInv'
  BY <1>3 DEF Ping
<1>4. ASSUME NEW g \in Gathers, SwitchToLargest(g) PROVE PoolInv'
  BY <1>4, PgAssumption DEF SwitchToLargest
<1>5. ASSUME NEW g \in Gathers, Features(g) PROVE PoolInv'
  BY <1>5 DEF Features
<1>6. ASSUME NEW g \in Gathers, CollectSettings(g) PROVE PoolInv'
  BY <1>6 DEF CollectSettings
<1>7. ASSUME NEW g \in Gathers, SettingsRefreshed(g) PROVE PoolInv'
  BY <1>7 DEF SettingsRefreshed
<1>8. ASSUME NEW g \in Gathers, tryBeginBloatRefresh(g) PROVE PoolInv'
  BY <1>8 DEF tryBeginBloatRefresh
<1>9. ASSUME NEW g \in Gathers, NEW s \in Scans, ScanEnds(g, s) PROVE PoolInv'
  BY <1>9 DEF ScanEnds
<1>10. ASSUME NEW g \in Gathers, StoreBloat(g) PROVE PoolInv'
  BY <1>10 DEF StoreBloat
<1>11. CASE SamplerReturns
  BY <1>11 DEF SamplerReturns
<1>12. CASE Close
  BY <1>12 DEF Close
<1>13. CASE Closer
  BY <1>13 DEF Closer, ClosePool, PoolClosed
<1>14. CASE PgTick
  BY <1>14 DEF PgTick
<1>15. CASE UNCHANGED pgVars
  BY <1>15 DEF pgVars
<1> QED
  BY <1>1, <1>2, <1>3, <1>4, <1>5, <1>6, <1>7, <1>8, <1>9, <1>10, <1>11, <1>12,
     <1>13, <1>14, <1>15 DEF PgNext, Gather

\* A pool in order is an open one for whoever uses it.
LEMMA PoolSafe == PoolInv => PoolStaysOpen
  BY DEF PoolInv, PoolStaysOpen, Busy

\* Until Close, all that gathers and the sampler ask goes to the one open pool.
THEOREM PoolSafety == PgSpec => []PoolStaysOpen
<1>1. PgSpec => []PoolInv
  BY PoolInit, PoolStep, PgTypeCorrect, PTL DEF PgSpec
<1> QED
  BY <1>1, PoolSafe, PTL

-----------------------------------------------------------------------------
(* The caches *)

\* A settings query is the newest while its gather holds settingsMu; a scan is
\* the newest, and the only one, because it began less than bloatRefreshInterval
\* ago, which is longer than its gather may last.
CacheInv ==
    /\ settings <= begun /\ tables <= begun /\ indexes <= begun
    /\ \A g \in Gathers : number[g] <= begun
    /\ \A g \in Gathers : pc[g] = "refresh" =>
        settingsMu = g /\ settings <= number[g]
    /\ \A g \in Gathers : pc[g] = "scan" =>
        /\ tables <= number[g] /\ indexes <= number[g]
        /\ clock - bloatAt <= age[g]
    /\ \A g, h \in Gathers : pc[g] = "scan" /\ pc[h] = "scan" => g = h

\* Nothing is cached at first.
LEMMA CacheInit == PgInit => CacheInv
  BY DEF PgInit, CacheInv

\* Every step keeps the owner of a refresh apart from the owners before it.
LEMMA CacheStep ==
    PgTypeOK /\ CacheInv /\ [PgNext]_pgVars =>
        /\ CacheInv'
        /\ settings' >= settings /\ tables' >= tables /\ indexes' >= indexes
<1> DEFINE Goal == /\ CacheInv'
                   /\ settings' >= settings /\ tables' >= tables
                   /\ indexes' >= indexes
<1> SUFFICES ASSUME PgTypeOK, CacheInv, [PgNext]_pgVars PROVE Goal
  OBVIOUS
<1> USE DEF PgTypeOK, CacheInv, Goto, poolVars, sampVars, cacheVars
<1>1. ASSUME NEW g \in Gathers, Collect(g) PROVE Goal
  BY <1>1 DEF Collect
<1>2. ASSUME NEW g \in Gathers,
             EnsurePool(g) \/ Ping(g) \/ SwitchToLargest(g) \/ Features(g)
      PROVE  Goal
  BY <1>2 DEF EnsurePool, Ping, SwitchToLargest, Features
<1>3. ASSUME NEW g \in Gathers, CollectSettings(g) PROVE Goal
  <2>1. None \notin Gathers
    BY PgAssumption
  <2>2. CASE clock - settingsAt > settingRefreshInterval
    <3>1. /\ number' = [number EXCEPT ![g] = begun + 1] /\ begun' = begun + 1
          /\ pc' = [pc EXCEPT ![g] = "refresh"] /\ settingsMu' = g
          /\ settingsMu = None
      BY <1>3, <2>2 DEF CollectSettings
    <3> QED
      BY <1>3, <2>1, <3>1 DEF CollectSettings
  <2>3. CASE ~(clock - settingsAt > settingRefreshInterval)
    BY <1>3, <2>3 DEF CollectSettings
  <2> QED
    BY <2>2, <2>3
<1>4. ASSUME NEW g \in Gathers, SettingsRefreshed(g) PROVE Goal
  BY <1>4 DEF SettingsRefreshed
<1>5. ASSUME NEW g \in Gathers, tryBeginBloatRefresh(g) PROVE Goal
  <2>1. CASE Fresh
    BY <1>5, <2>1 DEF tryBeginBloatRefresh
  <2>2. CASE ~Fresh
    <3>1. /\ number' = [number EXCEPT ![g] = begun + 1] /\ begun' = begun + 1
          /\ pc' = [pc EXCEPT ![g] = "scan"] /\ bloatAt' = clock
      BY <1>5, <2>2 DEF tryBeginBloatRefresh
    <3>2. \A h \in Gathers : pc[h] # "scan"
      BY <2>2, PgAssumption DEF Fresh
    <3> QED
      BY <1>5, <3>1, <3>2 DEF tryBeginBloatRefresh
  <2> QED
    BY <2>1, <2>2
<1>6. ASSUME NEW g \in Gathers, NEW s \in Scans, ScanEnds(g, s) PROVE Goal
  BY <1>6 DEF ScanEnds
<1>7. ASSUME NEW g \in Gathers, StoreBloat(g) PROVE Goal
  BY <1>7 DEF StoreBloat
<1>8. CASE SamplerReturns \/ Close \/ Closer
  BY <1>8 DEF SamplerReturns, Close, Closer, ClosePool, PoolClosed
<1>9. CASE PgTick
  BY <1>9 DEF PgTick
<1>10. CASE UNCHANGED pgVars
  BY <1>10 DEF pgVars
<1> QED
  BY <1>1, <1>2, <1>3, <1>4, <1>5, <1>6, <1>7, <1>8, <1>9, <1>10 DEF PgNext, Gather

\* No cache is ever replaced by the result of an earlier query.
THEOREM CacheOrder == PgSpec => CachesOnlyForward
<1>1. PgSpec => []CacheInv
  BY CacheInit, CacheStep, PgTypeCorrect, PTL DEF PgSpec
<1>2. PgTypeOK /\ CacheInv /\ [PgNext]_pgVars =>
          [settings' >= settings /\ tables' >= tables /\ indexes' >= indexes]_pgVars
  BY CacheStep
<1> QED
  BY <1>1, <1>2, PgTypeCorrect, PTL DEF PgSpec, CachesOnlyForward
=============================================================================
