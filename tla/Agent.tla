--------------------------------- MODULE Agent ---------------------------------
(***************************************************************************)
(* The agent: App.Run and App.Shutdown (internal/app/app.go) and main      *)
(* (cmd/topsrv/main.go) around the access logs (AccessLog.tla) and the     *)
(* Postgres collector (PgCollector.tla).                                   *)
(*                                                                         *)
(* main runs App.Run in a goroutine and waits for a signal; Run registers  *)
(* the components in an order and starts their goroutines under one wait   *)
(* group; Shutdown drains the HTTP server and waits for the group, both    *)
(* under one deadline, and then closes the closers.  The goroutines that   *)
(* other modules model (the shippers, the pusher of metrics, the updater)  *)
(* are names here: they run, and some time after the cancellation end.     *)
(*                                                                         *)
(* A host says in addition to what AccessLog.tla reads from it:            *)
(*   postgres             its section, and whether it is found running     *)
(*   smart, packages      are these collectors on                          *)
(*   listen, update       is there a [Server], an [Update]                 *)
(*   signal, gathers, until   bounds: the signal, calls of Collect, clocks *)
(***************************************************************************)
EXTENDS AccessLog, PgCollector

VARIABLES
    run,              \* where App.Run is
    main,             \* where main is
    bg,               \* the goroutines of a.bg
    closers,          \* is the Postgres collector in a.closers
    srv,              \* a.srv
    expired,          \* shutdownTimeout
    httpExpired,      \* httpShutdownTimeout
    late              \* history: the signal came before Run had set a.srv

appVars   == <<run, main, bg, closers, srv, expired, httpExpired, late>>
agentVars == <<logVars, pgVars, appVars>>

Goroutines == {"smart", "packages", "bot", "web", "logs", "pusher", "updater", "http"}

ASSUME AgentAssumption == Gathers = {"scrape", "push"}

Ended == main \in {"exited", "crashed"} \/ panicked

-----------------------------------------------------------------------------
(* App.Run *)

Background(S) == bg' = bg \cup S

\* registerPostgres: the section comes before what is found
WithPostgres ==
    LET pg == host.postgres
    IN  IF pg.section THEN ~pg.disabled /\ pg.valid ELSE pg.running /\ pg.valid

\* registerSmart and registerPackages
Scanners == {g \in {"smart", "packages"} : host[g]}

\* registerCollectors
RunCollectors ==
    /\ RegisterCollectors
    /\ closers' = WithPostgres
    /\ Background(Scanners)
    /\ UNCHANGED <<pgVars, run, main, srv, expired, httpExpired, late>>

RunObservers ==
    /\ \/ RegisterBotLogs /\ Background({g \in {"bot"} : bot'.on})
       \/ RegisterWebLogs /\ Background({g \in {"web"} : web'.on})
    /\ UNCHANGED <<pgVars, run, main, closers, srv, expired, httpExpired, late>>

RunLogs ==
    /\ StartTailing
    /\ Background({g \in {"logs"} : collector.on})
    /\ run' = "tailing"
    /\ UNCHANGED <<pgVars, main, closers, srv, expired, httpExpired, late>>

\* the pusher and the updater; then a server, or the wait for the context
RunPusher ==
    /\ run = "tailing"
    /\ Background(IF host.push
                  THEN {"pusher"} \cup {g \in {"updater"} : host.update}
                  ELSE {})
    /\ run' = "pushing"
    /\ UNCHANGED <<logVars, pgVars, main, closers, srv, expired, httpExpired, late>>

RunServer ==
    /\ run = "pushing"
    /\ IF host.listen THEN srv' = "set" /\ run' = "listen"
       ELSE UNCHANGED srv /\ run' = "waiting"
    /\ UNCHANGED <<logVars, pgVars, main, bg, closers, expired, httpExpired, late>>

\* ListenAndServe: it fails at once after Shutdown, which is no error
Listen ==
    /\ run = "listen"
    /\ \/ srv = "set" /\ srv' = "listening" /\ run' = "serving" /\ UNCHANGED main
       \/ srv = "closing" /\ run' = "returned" /\ UNCHANGED <<srv, main>>
       \/ srv = "set" /\ main' = "crashed" /\ run' = "returned" /\ UNCHANGED srv
    /\ UNCHANGED <<logVars, pgVars, bg, closers, expired, httpExpired, late>>

RunReturns ==
    /\ \/ run = "waiting" /\ ctxDone
       \/ run = "serving" /\ srv = "closing"
    /\ run' = "returned"
    /\ UNCHANGED <<logVars, pgVars, main, bg, closers, srv, expired, httpExpired, late>>

AppRun == RunCollectors \/ RunObservers \/ RunLogs \/ RunPusher \/ RunServer \/ Listen
          \/ RunReturns

-----------------------------------------------------------------------------
(* The goroutines *)

\* a scrape of the server, or a gather of the pusher; the last one is that of
\* its final push
StartGather(g) ==
    /\ Collect(g)
    /\ closers /\ collects < host.gathers
    /\ CASE g = "scrape" -> srv = "listening"
         [] g = "push"   -> "pusher" \in bg
    /\ UNCHANGED <<logVars, appVars>>

GatherStep(g) == Gather(g) /\ UNCHANGED <<logVars, appVars>>

SamplerStep == SamplerReturns /\ UNCHANGED <<logVars, appVars>>

\* the collector's goroutine, its tails, and nginx
LogLine ==
    /\ \/ \E path \in tailing :
            \/ \E request \in host.requests : TailRead(path, request)
            \/ TailSend(path)
            \/ TailStop(path)
       \/ Process
    /\ UNCHANGED <<pgVars, appVars>>

LogsReturn ==
    /\ CollectorReturns
    /\ bg' = bg \ {"logs"}
    /\ UNCHANGED <<pgVars, run, main, closers, srv, expired, httpExpired, late>>

\* a goroutine ends some time after the cancellation
Finish(g) ==
    /\ g \in bg \ {"logs", "http"} /\ ctxDone
    /\ g = "pusher" => pc["push"] = "idle"
    /\ bg' = bg \ {g}
    /\ UNCHANGED <<logVars, pgVars, run, main, closers, srv, expired, httpExpired, late>>

-----------------------------------------------------------------------------
(* main and App.Shutdown *)

Signal ==
    /\ main = "running" /\ host.signal
    /\ Cancel
    /\ main' = "cancelled"
    /\ late' = (run \notin {"listen", "serving", "waiting"})
    /\ UNCHANGED <<pgVars, run, bg, closers, srv, expired, httpExpired>>

\* bug: the goroutine that shuts the server down is not in the group
ShutdownApart ==
    /\ main = "cancelled"
    /\ main' = "draining"
    /\ srv' = IF srv = "none" THEN srv ELSE "closing"
    /\ UNCHANGED <<logVars, pgVars, run, bg, closers, expired, httpExpired, late>>

\* a.srv is read once
Shutdown ==
    /\ main = "cancelled"
    /\ main' = "draining"
    /\ Background({g \in {"http"} : srv # "none"})
    /\ UNCHANGED <<logVars, pgVars, run, closers, srv, expired, httpExpired, late>>

\* srv.Shutdown takes no new request
HttpShutdown ==
    /\ "http" \in bg /\ srv # "closing"
    /\ srv' = "closing"
    /\ UNCHANGED <<logVars, pgVars, run, main, bg, closers, expired, httpExpired, late>>

\* it returns when no handler is active, or at its deadline
HttpDown ==
    /\ "http" \in bg /\ srv = "closing"
    /\ pc["scrape"] = "idle" \/ httpExpired
    /\ bg' = bg \ {"http"}
    /\ UNCHANGED <<logVars, pgVars, run, main, closers, srv, expired, httpExpired, late>>

HttpTimeout ==
    /\ "http" \in bg /\ ~httpExpired
    /\ httpExpired' = TRUE
    /\ UNCHANGED <<logVars, pgVars, run, main, bg, closers, srv, expired, late>>

Timeout ==
    /\ main = "draining" /\ ~expired
    /\ expired' = TRUE /\ httpExpired' = TRUE
    /\ UNCHANGED <<logVars, pgVars, run, main, bg, closers, srv, late>>

\* bug: without a deadline
DrainedAlways ==
    /\ main = "draining" /\ bg = {}
    /\ main' = "closing"
    /\ UNCHANGED <<logVars, pgVars, run, bg, closers, srv, expired, httpExpired, late>>

Drained ==
    /\ main = "draining" /\ (bg = {} \/ expired)
    /\ main' = "closing"
    /\ UNCHANGED <<logVars, pgVars, run, bg, closers, srv, expired, httpExpired, late>>

\* the closers, and then main returns
CloseClosers ==
    /\ main = "closing" /\ closers
    /\ Close \/ Closer
    /\ UNCHANGED <<logVars, appVars>>

Exit ==
    /\ main = "closing" /\ (closers => closing = "closed")
    /\ main' = "exited"
    /\ UNCHANGED <<logVars, pgVars, run, bg, closers, srv, expired, httpExpired, late>>

Main == Shutdown \/ Drained \/ CloseClosers \/ Exit

-----------------------------------------------------------------------------
(* The specification *)

AgentInit ==
    /\ LogInit /\ PgInit
    /\ run = "registering" /\ main = "running" /\ bg = {} /\ closers = FALSE
    /\ srv = "none" /\ expired = FALSE /\ httpExpired = FALSE /\ late = FALSE

\* environment
Time ==
    \/ Tick /\ collector.on /\ now < host.until /\ UNCHANGED <<pgVars, appVars>>
    \/ PgTick /\ collects > 0 /\ Start + clock < host.until
       /\ UNCHANGED <<logVars, appVars>>

AgentNext ==
    /\ ~Ended
    /\ \/ AppRun \/ LogLine \/ LogsReturn \/ SamplerStep
       \/ \E g \in Gathers : StartGather(g) \/ GatherStep(g)
       \/ \E g \in bg : Finish(g)
       \/ Signal \/ Main \/ HttpShutdown \/ HttpDown \/ HttpTimeout \/ Timeout \/ Time

\* main runs, and its deadline is a timer; queries end at collectTimeout, and the
\* sampler looks at its context between two.  Nothing makes the other goroutines
\* end.
AgentFairness ==
    /\ WF_agentVars(~Ended /\ (Main \/ Timeout))
    /\ WF_agentVars(~Ended /\ (SamplerStep \/ \E g \in Gathers : GatherStep(g)))

AgentSpec == AgentInit /\ [][AgentNext]_agentVars /\ AgentFairness

-----------------------------------------------------------------------------
(* Properties *)

\* Types of the whole agent.
AgentTypeOK ==
    /\ LogTypeOK /\ PgTypeOK
    /\ run \in {"registering", "tailing", "pushing", "listen", "serving", "waiting",
                "returned"}
    /\ main \in {"running", "cancelled", "draining", "closing", "exited", "crashed"}
    /\ bg \subseteq Goroutines /\ closers \in BOOLEAN
    /\ srv \in {"none", "set", "listening", "closing"}
    /\ expired \in BOOLEAN /\ httpExpired \in BOOLEAN /\ late \in BOOLEAN

\* The closers run only when every goroutine has ended and no gather is under way,
\* unless a deadline cut the wait short or the signal overtook App.Run: the HTTP
\* server drains inside the wait group.
QuietBeforeClose ==
    main = "closing" /\ ~expired /\ ~late =>
        bg = {} /\ (httpExpired \/ \A g \in Gathers : pc[g] = "idle")

\* After the signal the agent ends, whatever its goroutines are doing, and even if
\* the signal comes while App.Run is still registering.
ShutdownEnds == main = "cancelled" ~> Ended
=============================================================================
