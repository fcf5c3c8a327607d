------------------------------ MODULE AgentProofs ------------------------------
(***************************************************************************)
(* Proofs about Agent: the agent is a composition, so that whatever holds  *)
(* of its access logs and of its Postgres collector alone holds in it; and *)
(* Shutdown closes nothing that is in use.  For every set of hosts and all *)
(* bounds.                                                                 *)
(***************************************************************************)
EXTENDS Agent, AccessLogProofs, PgCollectorProofs

-----------------------------------------------------------------------------
(* The agent implements its parts *)

\* The agent starts as its parts do.
LEMMA AgentInitParts == AgentInit => LogInit /\ PgInit
  BY DEF AgentInit

\* Every step of the agent is one of each part or leaves it alone.
LEMMA AgentStepParts == [AgentNext]_agentVars => [LogNext]_logVars /\ [PgNext]_pgVars
<1> SUFFICES ASSUME [AgentNext]_agentVars PROVE [LogNext]_logVars /\ [PgNext]_pgVars
  OBVIOUS
<1>1. CASE AgentNext /\ AppRun
  <2>1. [LogNext]_logVars
    BY <1>1 DEF AgentNext, Ended, AppRun, RunCollectors, RunObservers, RunLogs,
       RunPusher, RunServer, Listen, RunReturns, LogNext, LogRegister
  <2>2. UNCHANGED pgVars
    BY <1>1 DEF AppRun, RunCollectors, RunObservers, RunLogs, RunPusher, RunServer,
       Listen, RunReturns
  <2> QED
    BY <2>1, <2>2
<1>2. CASE AgentNext /\ LogLine
  BY <1>2 DEF AgentNext, Ended, LogLine, LogNext, LogStep
<1>3. CASE AgentNext /\ LogsReturn
  BY <1>3 DEF AgentNext, Ended, LogsReturn, LogNext, LogStep
<1>4. CASE SamplerStep
  BY <1>4 DEF SamplerStep, PgNext
<1>5. ASSUME NEW g \in Gathers, StartGather(g) \/ GatherStep(g)
      PROVE  [LogNext]_logVars /\ [PgNext]_pgVars
  BY <1>5 DEF StartGather, GatherStep, PgNext
<1>6. ASSUME NEW g \in bg, Finish(g) PROVE [LogNext]_logVars /\ [PgNext]_pgVars
  BY <1>6 DEF Finish
<1>7. CASE AgentNext /\ Signal
  BY <1>7 DEF AgentNext, Ended, Signal, LogNext
<1>8. CASE Main
  BY <1>8 DEF Main, Shutdown, Drained, CloseClosers, Exit, PgNext
<1>9. CASE HttpShutdown \/ HttpDown \/ HttpTimeout \/ Timeout
  BY <1>9 DEF HttpShutdown, HttpDown, HttpTimeout, Timeout
<1>10. CASE AgentNext /\ Time
  BY <1>10 DEF AgentNext, Ended, Time, LogNext, PgNext
<1>11. CASE UNCHANGED agentVars
  BY <1>11 DEF agentVars
<1> QED
  BY <1>1, <1>2, <1>3, <1>4, <1>5, <1>6, <1>7, <1>8, <1>9, <1>10, <1>11
  DEF AgentNext

\* Every step of the agent is a step of the access logs or leaves them alone.
THEOREM AgentTails == AgentSpec => LogSpec
  BY AgentInitParts, AgentStepParts, PTL DEF AgentSpec, LogSpec

\* Every step of the agent is a step of the Postgres collector or leaves it alone.
THEOREM AgentCollects == AgentSpec => PgSpec
  BY AgentInitParts, AgentStepParts, PTL DEF AgentSpec, PgSpec

\* What is proved of the parts holds in the agent.
COROLLARY AgentParts ==
    AgentSpec => /\ []SeriesBounded /\ OverflowIsCrowded /\ []CountsConserved
                 /\ []BotLossIsWarned /\ []FilteredForCause
                 /\ []PoolStaysOpen /\ CachesOnlyForward
  BY AgentTails, AgentCollects, SeriesSafety, OverflowSafety, CountSafety, BotSafety,
     FilterSafety, PoolSafety, CacheOrder

-----------------------------------------------------------------------------
(* Types *)

\* The variables of app.go and main.go
AppTypeOK ==
    /\ run \in {"registering", "tailing", "pushing", "listen", "serving", "waiting",
                "returned"}
    /\ main \in {"running", "cancelled", "draining", "closing", "exited", "crashed"}
    /\ bg \subseteq Goroutines /\ closers \in BOOLEAN
    /\ srv \in {"none", "set", "listening", "closing"}
    /\ expired \in BOOLEAN /\ httpExpired \in BOOLEAN /\ late \in BOOLEAN

\* The first state is typed.
LEMMA AppTypeInit == AgentInit => AppTypeOK
  BY DEF AgentInit, AppTypeOK

\* Every step keeps the types.
LEMMA AppTypeStep == AppTypeOK /\ [AgentNext]_agentVars => AppTypeOK'
<1> SUFFICES ASSUME AppTypeOK, [AgentNext]_agentVars PROVE AppTypeOK'
  OBVIOUS
<1> USE DEF AppTypeOK, appVars, Background, Goroutines
<1>1. CASE RunCollectors
  <2>1. WithPostgres \in BOOLEAN /\ Scanners \subseteq {"smart", "packages"}
    BY DEF WithPostgres, Scanners
  <2> QED
    BY <1>1, <2>1 DEF RunCollectors
<1>2. CASE RunObservers
  <2>1. bg' \subseteq bg \cup {"bot", "web"}
    BY <1>2 DEF RunObservers
  <2>2. UNCHANGED <<run, main, closers, srv, expired, httpExpired, late>>
    BY <1>2 DEF RunObservers
  <2> QED
    BY <2>1, <2>2
<1>3. CASE RunLogs
  <2>1. bg' \subseteq bg \cup {"logs"} /\ run' = "tailing"
    BY <1>3 DEF RunLogs
  <2>2. UNCHANGED <<main, closers, srv, expired, httpExpired, late>>
    BY <1>3 DEF RunLogs
  <2> QED
    BY <2>1, <2>2
<1>4. CASE RunPusher
  BY <1>4 DEF RunPusher
<1>5. CASE RunServer
  BY <1>5 DEF RunServer
<1>6. CASE Listen
  BY <1>6 DEF Listen
<1>7. CASE RunReturns
  BY <1>7 DEF RunReturns
<1>8. CASE LogLine \/ SamplerStep
  <2>1. UNCHANGED appVars
    BY <1>8 DEF LogLine, SamplerStep
  <2> QED
    BY <2>1
<1>9. CASE LogsReturn
  BY <1>9 DEF LogsReturn
<1>10. ASSUME NEW g \in Gathers, StartGather(g) \/ GatherStep(g) PROVE AppTypeOK'
  <2>1. UNCHANGED appVars
    BY <1>10 DEF StartGather, GatherStep
  <2> QED
    BY <2>1
<1>11. ASSUME NEW g \in bg, Finish(g) PROVE AppTypeOK'
  BY <1>11 DEF Finish
<1>12. CASE Signal
  BY <1>12 DEF Signal
<1>13. CASE Shutdown
  BY <1>13 DEF Shutdown
<1>14. CASE Drained
  BY <1>14 DEF Drained
<1>15. CASE CloseClosers
  BY <1>15 DEF CloseClosers
<1>16. CASE Exit
  BY <1>16 DEF Exit
<1>17. CASE HttpShutdown
  BY <1>17 DEF HttpShutdown
<1>18. CASE HttpDown
  BY <1>18 DEF HttpDown
<1>19. CASE HttpTimeout
  BY <1>19 DEF HttpTimeout
<1>20. CASE Timeout
  BY <1>20 DEF Timeout
<1>21. CASE Time
  <2>1. UNCHANGED appVars
    BY <1>21 DEF Time
  <2> QED
    BY <2>1
<1>22. CASE UNCHANGED agentVars
  BY <1>22 DEF agentVars
<1> QED
  BY <1>1, <1>2, <1>3, <1>4, <1>5, <1>6, <1>7, <1>8, <1>9, <1>10, <1>11,
     <1>12, <1>13, <1>14, <1>15, <1>16, <1>17, <1>18, <1>19, <1>20, <1>21,
     <1>22 DEF AgentNext, AppRun, Main

\* Every variable of the agent keeps its type.
THEOREM AgentTypeCorrect == AgentSpec => []AgentTypeOK
<1>1. AgentSpec => []AppTypeOK
  BY AppTypeInit, AppTypeStep, PTL DEF AgentSpec
<1>2. AppTypeOK /\ LogTypeOK /\ PgTypeOK => AgentTypeOK
  BY DEF AppTypeOK, AgentTypeOK
<1> QED
  BY <1>1, <1>2, AgentTails, AgentCollects, LogTypeCorrect, PgTypeCorrect, PTL

-----------------------------------------------------------------------------
(* Shutdown *)

\* A signal that is not late finds App.Run past its registrations, so that no
\* goroutine is added after it.  A gather that is under way has its pusher, or a
\* server, which takes no new one once it is closing; so the wait group, in which
\* the server drains too, waits for every gather.
QuietInv ==
    /\ run # "registering" => stage \notin {"start", "collectors", "bots", "webs"}
    /\ main # "running" /\ ~late => run \in {"listen", "serving", "waiting", "returned"}
    /\ run \in {"registering", "tailing", "pushing"} => srv = "none"
    /\ srv = "none" => run \notin {"listen", "serving"} /\ "http" \notin bg
    /\ pc["push"] # "idle" => "pusher" \in bg
    /\ pc["scrape"] # "idle" => srv \in {"listening", "closing"}
    /\ main \in {"draining", "closing"} /\ ~late /\ "http" \notin bg /\ ~httpExpired =>
        srv \in {"none", "closing"} /\ pc["scrape"] = "idle"
    /\ main = "closing" /\ ~late /\ ~expired => bg = {}

\* Nothing runs and nothing is shut down at first.
LEMMA QuietInit == AgentInit => QuietInv
<1>1. AgentInit => pc["push"] = "idle" /\ pc["scrape"] = "idle"
  BY AgentAssumption DEF AgentInit, PgInit
<1> QED
  BY <1>1 DEF AgentInit, QuietInv

\* A step of a gather starts no other.
LEMMA GatherActive ==
    ASSUME PgTypeOK, NEW g \in Gathers, Gather(g), NEW h \in Gathers
    PROVE  pc'[h] # "idle" => pc[h] # "idle"
<1> USE DEF Goto, PgTypeOK
<1>1. CASE EnsurePool(g)
  BY <1>1 DEF EnsurePool
<1>2. CASE Ping(g)
  BY <1>2 DEF Ping
<1>3. CASE SwitchToLargest(g)
  BY <1>3 DEF SwitchToLargest
<1>4. CASE Features(g)
  BY <1>4 DEF Features
<1>5. CASE CollectSettings(g)
  BY <1>5 DEF CollectSettings
<1>6. CASE SettingsRefreshed(g)
  BY <1>6 DEF SettingsRefreshed
<1>7. CASE tryBeginBloatRefresh(g)
  BY <1>7 DEF tryBeginBloatRefresh
<1>8. CASE \E s \in Scans : ScanEnds(g, s)
  BY <1>8 DEF ScanEnds
<1>9. CASE StoreBloat(g)
  BY <1>9 DEF StoreBloat
<1> QED
  BY <1>1, <1>2, <1>3, <1>4, <1>5, <1>6, <1>7, <1>8, <1>9 DEF Gather

\* Every step keeps the wait group ahead of the closers.
LEMMA QuietStep == PgTypeOK /\ QuietInv /\ [AgentNext]_agentVars => QuietInv'
<1> SUFFICES ASSUME PgTypeOK, QuietInv, [AgentNext]_agentVars PROVE QuietInv'
  OBVIOUS
<1> USE DEF QuietInv, appVars, Background
<1>0. pgVars' = pgVars => pc' = pc
  BY DEF pgVars
<1>1. CASE RunCollectors \/ RunObservers \/ RunLogs
  <2>1. run = "registering"
    BY <1>1 DEF RunCollectors, RunObservers, RunLogs, RegisterCollectors,
       RegisterBotLogs, RegisterWebLogs, StartTailing
  <2>2. \/ run' = run
        \/ run' = "tailing" /\ stage' \in {"tailing", "none"}
    BY <1>1 DEF RunCollectors, RunObservers, RunLogs, StartTailing
  <2>3. /\ UNCHANGED <<main, srv, late, expired, httpExpired>> /\ pc' = pc
        /\ bg \subseteq bg' /\ ("http" \in bg' => "http" \in bg)
    BY <1>0, <1>1 DEF RunCollectors, RunObservers, RunLogs, Scanners
  <2> QED
    BY <2>1, <2>2, <2>3
<1>2. CASE RunPusher \/ RunServer \/ Listen \/ RunReturns
  <2>1. UNCHANGED stage /\ pc' = pc
    BY <1>0, <1>2 DEF RunPusher, RunServer, Listen, RunReturns, logVars
  <2>2. CASE RunPusher
    <3>1. /\ run = "tailing" /\ run' = "pushing" /\ bg \subseteq bg'
          /\ ("http" \in bg' => "http" \in bg)
          /\ UNCHANGED <<main, srv, late, expired, httpExpired>>
      BY <2>2 DEF RunPusher
    <3> QED
      BY <2>1, <3>1
  <2>3. CASE RunServer
    <3>1. /\ run = "pushing" /\ run' \in {"listen", "waiting"}
          /\ (run' = "listen" => srv' = "set") /\ (srv' = srv \/ srv' = "set")
          /\ UNCHANGED <<main, bg, late, expired, httpExpired>>
      BY <2>3 DEF RunServer
    <3> QED
      BY <2>1, <3>1
  <2>4. CASE Listen
    BY <2>1, <2>4 DEF Listen
  <2>5. CASE RunReturns
    BY <2>1, <2>5 DEF RunReturns
  <2> QED
    BY <1>2, <2>2, <2>3, <2>4, <2>5
<1>3. CASE LogLine \/ LogsReturn
  <2>1. stage' = stage \/ stage' = "returned"
    BY <1>3 DEF LogLine, LogsReturn, TailRead, TailSend, TailStop, Process,
       CollectorReturns
  <2> QED
    BY <1>0, <1>3, <2>1 DEF LogLine, LogsReturn
<1>4. CASE SamplerStep
  BY <1>4 DEF SamplerStep, SamplerReturns, logVars
<1>5. ASSUME NEW g \in Gathers, StartGather(g) PROVE QuietInv'
  <2>1. \A h \in Gathers : h # g => pc'[h] = pc[h]
    BY <1>5 DEF StartGather, Collect, Goto, PgTypeOK
  <2> QED
    BY <1>5, <2>1, AgentAssumption DEF StartGather, logVars
<1>6. ASSUME NEW g \in Gathers, GatherStep(g) PROVE QuietInv'
  <2>1. \A h \in Gathers : pc'[h] # "idle" => pc[h] # "idle"
    BY <1>6, GatherActive DEF GatherStep
  <2> QED
    BY <1>6, <2>1, AgentAssumption DEF GatherStep, logVars
<1>7. ASSUME NEW g \in bg, Finish(g) PROVE QuietInv'
  BY <1>0, <1>7 DEF Finish, logVars
<1>8. CASE Signal
  BY <1>0, <1>8 DEF Signal, Cancel
<1>9. CASE Shutdown \/ Drained \/ Exit
  BY <1>0, <1>9 DEF Shutdown, Drained, Exit, logVars
<1>10. CASE CloseClosers
  <2>1. pc' = pc
    BY <1>10 DEF CloseClosers, Close, Closer, ClosePool, PoolClosed
  <2> QED
    BY <1>10, <2>1 DEF CloseClosers, logVars
<1>11. CASE HttpShutdown \/ HttpDown \/ HttpTimeout \/ Timeout
  BY <1>0, <1>11 DEF HttpShutdown, HttpDown, HttpTimeout, Timeout, logVars
<1>12. CASE Time
  <2>1. pc' = pc /\ stage' = stage
    BY <1>0, <1>12 DEF Time, Tick, PgTick, logVars
  <2> QED
    BY <1>12, <2>1 DEF Time
<1>13. CASE UNCHANGED agentVars
  BY <1>0, <1>13 DEF agentVars, logVars
<1> QED
  BY <1>1, <1>2, <1>3, <1>4, <1>5, <1>6, <1>7, <1>8, <1>9, <1>10, <1>11, <1>12, <1>13
  DEF AgentNext, AppRun, Main

\* The closers run when nothing uses what they close.
THEOREM QuietSafety == AgentSpec => []QuietBeforeClose
<1>1. AgentSpec => []PgTypeOK
  BY AgentCollects, PgTypeCorrect, PTL
<1>2. AgentSpec => []QuietInv
  BY <1>1, QuietInit, QuietStep, PTL DEF AgentSpec
<1>3. QuietInv => QuietBeforeClose
  BY AgentAssumption DEF QuietInv, QuietBeforeClose
<1> QED
  BY <1>2, <1>3, PTL
=============================================================================
