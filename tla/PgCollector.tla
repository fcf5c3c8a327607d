------------------------------ MODULE PgCollector ------------------------------
(***************************************************************************)
(* The Postgres collector around its queries                               *)
(* (internal/topsrv/postgres: collector.go, bloat.go, settings.go and the  *)
(* application-name sampler of statements.go): the pool that the first     *)
(* Collect creates and the detection may replace, the caches that          *)
(* concurrent gathers of /metrics and of the metrics pusher refresh, the   *)
(* sampler, and Close.                                                     *)
(*                                                                         *)
(* A pool is known by the database it connects to.  What a query returns   *)
(* is left out (Statements.tla has the statements): a query succeeds or    *)
(* fails, and on a closed pool it fails.  A scan or a settings query is    *)
(* known by its number, in the order in which they begin.                  *)
(***************************************************************************)
EXTENDS Integers, FiniteSets

CONSTANTS
    Gathers,              \* the gathers that may run at the same time
    Configured, Largest,  \* the database of the DSN and the largest one
    bloatRefreshInterval, settingRefreshInterval,
    MaxCollects,          \* bound: calls of Collect
    MaxClock              \* bound: the clock of the caches

None  == "none"
NoLabel == ""
Never == -(bloatRefreshInterval + settingRefreshInterval + 1)

\* a unit of the clock is longer than collectTimeout
ASSUME PgAssumption ==
    /\ None \notin Gathers \cup {Configured, Largest}
    /\ bloatRefreshInterval \in Nat \ {0} /\ settingRefreshInterval \in Nat
    /\ MaxCollects \in Nat /\ MaxClock \in Nat

VARIABLES
    pool, opened,         \* c.pool, and the pools that are open
    cfgDB,                \* cfg.ConnConfig.Database
    initMu,               \* the gather that holds initMu
    initDone, database,
    sampler, sampleCtx,   \* the goroutine of the sampler; is it cancelled
    pc, age,              \* where a gather is, the clock's units since it began
    number,               \* its scan or its settings query
    settingsMu, settings, settingsAt,
    bloatAt,              \* bloatLastRefresh
    tables, indexes,      \* bloatTables and bloatIndexes: the scans they are from
    scans,                \* the two goroutines of refreshBloat
    begun,                \* scans and settings queries so far
    clock, collects, closing

poolVars  == <<pool, opened, cfgDB, initMu, initDone, database>>
sampVars  == <<sampler, sampleCtx>>
cacheVars == <<number, settingsMu, settings, settingsAt, bloatAt, tables, indexes,
               scans, begun>>
pgVars    == <<poolVars, sampVars, pc, age, cacheVars, clock, collects, closing>>

Databases == {Configured, Largest}
Steps == {"idle", "init", "ping", "switch", "features", "settings", "refresh",
          "bloat", "scan"}
Scans == {"tables", "indexes"}
NoScans == [s \in Scans |-> "failed"]

Goto(g, step) == pc' = [pc EXCEPT ![g] = step]

-----------------------------------------------------------------------------
(* ensureReady and detectFeatures, under initMu *)

Collect(g) ==
    /\ pc[g] = "idle" /\ collects < MaxCollects
    /\ collects' = collects + 1
    /\ age' = [age EXCEPT ![g] = 0]
    /\ Goto(g, "init")
    /\ UNCHANGED <<poolVars, sampVars, cacheVars, clock, closing>>

EnsurePool(g) ==
    /\ pc[g] = "init" /\ initMu = None
    /\ \/ /\ pool # None
          /\ initMu' = g
          /\ Goto(g, "ping")
          /\ UNCHANGED <<pool, opened>>
       \/ /\ pool = None
          /\ pool' = cfgDB /\ opened' = opened \cup {cfgDB}
          /\ initMu' = g
          /\ Goto(g, "ping")
       \/ /\ pool = None                      \* connect: error
          /\ Goto(g, "idle")
          /\ UNCHANGED <<pool, opened, initMu>>
    /\ UNCHANGED <<cfgDB, initDone, database, sampVars, age, cacheVars, clock,
                   collects, closing>>

\* The ping of the pool, which every gather makes
Ping(g) ==
    /\ pc[g] = "ping"
    /\ \/ /\ pool \in opened /\ initDone
          /\ Goto(g, "settings") /\ initMu' = None
       \/ /\ pool \in opened /\ ~initDone
          /\ Goto(g, "switch") /\ UNCHANGED initMu
       \/ Goto(g, "idle") /\ initMu' = None
    /\ UNCHANGED <<pool, opened, cfgDB, initDone, database, sampVars, age, cacheVars,
                   clock, collects, closing>>

\* bug: the old pool is closed before the new one is there
CloseThenConnect(g) ==
    /\ pc[g] = "switch"
    /\ \/ /\ Goto(g, "features")
          /\ UNCHANGED <<pool, opened, cfgDB, initMu>>
       \/ /\ opened' = opened \ {pool}
          /\ Goto(g, "idle") /\ initMu' = None
          /\ UNCHANGED <<pool, cfgDB>>
    /\ UNCHANGED <<initDone, database, sampVars, age, cacheVars, clock, collects,
                   closing>>

\* switchToLargestDB
SwitchToLargest(g) ==
    /\ pc[g] = "switch"
    /\ \/ /\ Goto(g, "features")              \* unknown, or the configured one
          /\ UNCHANGED <<pool, opened, cfgDB, initMu>>
       \/ /\ pool \in opened /\ cfgDB # Largest
          /\ cfgDB' = Largest
          /\ pool' = Largest /\ opened' = (opened \ {pool}) \cup {Largest}
          /\ Goto(g, "features")
          /\ UNCHANGED initMu
       \/ /\ pool \in opened /\ cfgDB # Largest    \* reconnect: error
          /\ Goto(g, "idle") /\ initMu' = None
          /\ UNCHANGED <<pool, opened, cfgDB>>
    /\ UNCHANGED <<initDone, database, sampVars, age, cacheVars, clock, collects,
                   closing>>

\* the rest of detectFeatures: no probe fails it, the sampler starts last
Features(g) ==
    /\ pc[g] = "features"
    /\ database' \in {database} \cup {d \in {pool} : pool \in opened}
    /\ \/ sampler' = "running" /\ pool \in opened
       \/ UNCHANGED sampler
    /\ initDone' = TRUE /\ initMu' = None
    /\ Goto(g, "settings")
    /\ UNCHANGED <<pool, opened, cfgDB, sampleCtx, age, cacheVars, clock, collects,
                   closing>>

-----------------------------------------------------------------------------
(* After the queries whose results are not kept: the settings, then the bloat *)

CollectSettings(g) ==
    /\ pc[g] = "settings" /\ settingsMu = None
    /\ IF clock - settingsAt > settingRefreshInterval
       THEN /\ settingsMu' = g
            /\ begun' = begun + 1
            /\ number' = [number EXCEPT ![g] = begun + 1]
            /\ Goto(g, "refresh")
       ELSE /\ Goto(g, "bloat")
            /\ UNCHANGED <<settingsMu, begun, number>>
    /\ UNCHANGED <<poolVars, sampVars, age, settings, settingsAt, bloatAt, tables,
                   indexes, scans, clock, collects, closing>>

\* refreshSettingsLocked ends, and settingsMu is released
SettingsRefreshed(g) ==
    /\ pc[g] = "refresh"
    /\ \/ /\ pool \in opened
          /\ settings' = number[g] /\ settingsAt' = clock
       \/ UNCHANGED <<settings, settingsAt>>
    /\ settingsMu' = None
    /\ number' = [number EXCEPT ![g] = 0]
    /\ Goto(g, "bloat")
    /\ UNCHANGED <<poolVars, sampVars, age, bloatAt, tables, indexes, scans,
                   begun, clock, collects, closing>>

Fresh == clock - bloatAt <= bloatRefreshInterval

\* bug: the owner of the refresh does not bump bloatLastRefresh
BeginUnowned(g) ==
    /\ pc[g] = "bloat"
    /\ IF Fresh
       THEN Goto(g, "idle") /\ UNCHANGED <<begun, number, scans>>
       ELSE /\ begun' = begun + 1
            /\ number' = [number EXCEPT ![g] = begun + 1]
            /\ scans' = [scans EXCEPT ![g] = [s \in Scans |-> "running"]]
            /\ Goto(g, "scan")
    /\ UNCHANGED <<poolVars, sampVars, age, settingsMu, settings, settingsAt, bloatAt,
                   tables, indexes, clock, collects, closing>>

\* The code reads the time before it locks bloatMu, here the two are one step:
\* nothing is done under the lock that would take time.
tryBeginBloatRefresh(g) ==
    /\ pc[g] = "bloat"
    /\ IF Fresh
       THEN Goto(g, "idle") /\ UNCHANGED <<bloatAt, begun, number, scans>>
       ELSE /\ bloatAt' = clock
            /\ begun' = begun + 1
            /\ number' = [number EXCEPT ![g] = begun + 1]
            /\ scans' = [scans EXCEPT ![g] = [s \in Scans |-> "running"]]
            /\ Goto(g, "scan")
    /\ UNCHANGED <<poolVars, sampVars, age, settingsMu, settings, settingsAt, tables,
                   indexes, clock, collects, closing>>

ScanEnds(g, s) ==
    /\ pc[g] = "scan" /\ scans[g][s] = "running"
    /\ \E r \in {"failed"} \cup {o \in {"done"} : pool \in opened} :
        scans' = [scans EXCEPT ![g][s] = r]
    /\ UNCHANGED <<poolVars, sampVars, pc, age, number, settingsMu, settings,
                   settingsAt, bloatAt, tables, indexes, begun, clock, collects,
                   closing>>

\* refreshBloat after wg.Wait
StoreBloat(g) ==
    /\ pc[g] = "scan" /\ \A s \in Scans : scans[g][s] # "running"
    /\ tables'  = IF scans[g].tables = "done" THEN number[g] ELSE tables
    /\ indexes' = IF scans[g].indexes = "done" THEN number[g] ELSE indexes
    /\ bloatAt' = IF \A s \in Scans : scans[g][s] = "failed" THEN Never ELSE bloatAt
    /\ number' = [number EXCEPT ![g] = 0]
    /\ scans' = [scans EXCEPT ![g] = NoScans]
    /\ Goto(g, "idle")
    /\ UNCHANGED <<poolVars, sampVars, age, settingsMu, settings, settingsAt, begun,
                   clock, collects, closing>>

-----------------------------------------------------------------------------
(* The sampler and Close *)

\* the goroutine samples every second until its context is cancelled
SamplerReturns ==
    /\ sampler = "running" /\ sampleCtx
    /\ sampler' = "done"
    /\ UNCHANGED <<poolVars, sampleCtx, pc, age, cacheVars, clock, collects, closing>>

\* Close takes no lock; it looks for a sampler first
Close ==
    /\ closing = "no"
    /\ closing' = "sampler"
    /\ sampleCtx' = (sampler # "none")
    /\ UNCHANGED <<poolVars, sampler, pc, age, cacheVars, clock, collects>>

ClosePool ==
    /\ closing = "sampler"
    /\ sampleCtx => sampler = "done"
    /\ closing' = "pool"
    /\ opened' = opened \ {pool}
    /\ UNCHANGED <<pool, cfgDB, initMu, initDone, database, sampVars, pc, age, cacheVars,
                   clock, collects>>

\* pool.Close waits until every connection has been given back
Busy(g) == pc[g] \in {"ping", "switch", "features", "settings", "refresh", "scan"}

PoolClosed ==
    /\ closing = "pool"
    /\ pool # None => \A g \in Gathers : ~Busy(g)
    /\ closing' = "closed"
    /\ UNCHANGED <<poolVars, sampVars, pc, age, cacheVars, clock, collects>>

-----------------------------------------------------------------------------
(* The specification *)

\* environment: no gather lasts longer than a unit, for collectTimeout ends its
\* queries
PgTick ==
    /\ clock < MaxClock
    /\ \A g \in Gathers : pc[g] = "idle" \/ age[g] = 0
    /\ clock' = clock + 1
    /\ age' = [g \in Gathers |-> IF pc[g] = "idle" THEN 0 ELSE 1]
    /\ UNCHANGED <<poolVars, sampVars, pc, cacheVars, collects, closing>>

PgInit ==
    /\ pool = None /\ opened = {} /\ cfgDB = Configured
    /\ initMu = None /\ initDone = FALSE /\ database = NoLabel
    /\ sampler = "none" /\ sampleCtx = FALSE
    /\ pc = [g \in Gathers |-> "idle"] /\ age = [g \in Gathers |-> 0]
    /\ number = [g \in Gathers |-> 0]
    /\ settingsMu = None /\ settings = 0 /\ settingsAt = Never
    /\ bloatAt = Never /\ tables = 0 /\ indexes = 0
    /\ scans = [g \in Gathers |-> NoScans]
    /\ begun = 0 /\ clock = 0 /\ collects = 0
    /\ closing = "no"

Gather(g) ==
    \/ EnsurePool(g) \/ Ping(g) \/ SwitchToLargest(g) \/ Features(g)
    \/ CollectSettings(g) \/ SettingsRefreshed(g)
    \/ tryBeginBloatRefresh(g) \/ (\E s \in Scans : ScanEnds(g, s)) \/ StoreBloat(g)

Closer == ClosePool \/ PoolClosed

PgNext ==
    \/ \E g \in Gathers : Collect(g) \/ Gather(g)
    \/ SamplerReturns \/ Close \/ Closer \/ PgTick

PgSpec == PgInit /\ [][PgNext]_pgVars

-----------------------------------------------------------------------------
(* Properties *)

\* Types of the collector.
PgTypeOK ==
    /\ pool \in Databases \cup {None} /\ opened \subseteq Databases
    /\ cfgDB \in Databases
    /\ initMu \in Gathers \cup {None} /\ initDone \in BOOLEAN
    /\ database \in Databases \cup {NoLabel}
    /\ sampler \in {"none", "running", "done"} /\ sampleCtx \in BOOLEAN
    /\ pc \in [Gathers -> Steps] /\ age \in [Gathers -> 0..1]
    /\ number \in [Gathers -> Nat]
    /\ settingsMu \in Gathers \cup {None} /\ settings \in Nat /\ settingsAt \in Int
    /\ bloatAt \in Int /\ tables \in Nat /\ indexes \in Nat
    /\ scans \in [Gathers -> [Scans -> {"running", "done", "failed"}]]
    /\ begun \in Nat /\ clock \in Nat /\ collects \in Nat
    /\ closing \in {"no", "sampler", "pool", "closed"}

\* Until Close, whatever a gather or the sampler asks goes to one open pool, no
\* other is left open, and the label of the metrics is empty or the database that
\* the pool connects to: the detection that swaps the pools is done under initMu
\* and before anybody else uses them.
PoolStaysOpen ==
    closing \in {"no", "sampler"} =>
        /\ ((\E g \in Gathers : Busy(g)) \/ sampler = "running") => pool \in opened
        /\ opened \subseteq {pool}
        /\ database \in {NoLabel, pool}

\* What a gather has cached of the settings and of the bloat is never replaced by
\* the result of an earlier query, however the gathers overlap.
CachesOnlyForward ==
    [][settings' >= settings /\ tables' >= tables /\ indexes' >= indexes]_pgVars
=============================================================================
