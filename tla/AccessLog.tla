------------------------------- MODULE AccessLog -------------------------------
(***************************************************************************)
(* Access logs: from the configuration of the agent and the log_formats    *)
(* that discovery found to the metrics and the events of a line            *)
(* (internal/app/app.go, internal/topsrv/nginx/log.go and uricounters.go,  *)
(* internal/topsrv/botlog and internal/topsrv/weblog).                     *)
(*                                                                         *)
(* App.Run registers the log collector, then the bot and the web observer, *)
(* then starts the collector, which tails every log into one channel and   *)
(* handles its lines one after the other.                                  *)
(*                                                                         *)
(* A request is a function from the nginx variables it sets to values.     *)
(* Values are opaque: normalizePath is a constant, a user agent is known   *)
(* to the bot list or not, a body of any size counts one.  Values of JSON  *)
(* formats are quoted and lines are written in the configured format.      *)
(***************************************************************************)
EXTENDS Discovery

CONSTANTS
    Setups,           \* the configured hosts: a set of records
    Bots,             \* the user agents that MatchUA knows
    Status4xx, Status5xx,
    NormalPath,       \* normalizeURI and normalizePath: a function of raw URIs
    MaxExtras,
    maxCardinalityTagged,
    maxCardinalityURI,
    uriIdleTTL, uriSweepInterval,
    ChanCap,          \* the capacity of the channel of lines
    Start, MaxNow     \* bound: the wall clock

Families == {"4xx", "5xx", "bytes"}
Statuses == Status4xx \cup Status5xx \cup {""}

ASSUME LogAssumption ==
    /\ MaxExtras \in Nat /\ ChanCap \in Nat
    /\ maxCardinalityURI \in Nat /\ maxCardinalityTagged \in Nat
    /\ uriIdleTTL \in Nat /\ uriSweepInterval \in Nat
    /\ Start \in Nat /\ MaxNow \in Nat /\ Start >= uriSweepInterval
    /\ IsFiniteSet(Status4xx) /\ IsFiniteSet(Status5xx)

ASSUME SetupAssumption ==
    \A h \in Setups : \A s \in {h.angie, h.nginx} : s.labels \in Seq(ToSet(s.labels))

VARIABLES
    host,             \* the host: a member of Setups
    stage,            \* how far App.Run has come with the access logs
    collector,        \* a.logCollector and what it was made from
    bot, web,         \* the observers
    warned,           \* kinds of topsrv_collector_config_warnings_total
    ctxDone,          \* the context of App.Run is cancelled
    tailing,          \* the logs that a goroutine tails
    hand,             \* the line each of them holds
    lines,            \* the channel
    requests,         \* statusCounts or taggedCounts
    uris,             \* uri4xx, uri5xx, bytesByURI
    now,              \* nowUnix()
    panicked,
    \* history
    written,          \* the number of lines nginx wrote so far
    last,             \* the line handled last, and what became of it
    hits, evicted     \* of each family: lines counted, counts swept away

observers == <<bot, web, warned>>
metrics   == <<requests, uris, hits, evicted>>
tails     == <<tailing, hand>>
logVars   == <<host, stage, collector, observers, ctxDone, tails, lines, metrics,
               now, panicked, written, last>>

-----------------------------------------------------------------------------
(* log_formats and aliases *)

DefaultLogFormat ==
    Text({"remote_addr", "time_local", "request", "status", "body_bytes_sent",
          "http_referer", "http_user_agent", "request_time",
          "upstream_response_time"})

URICandidates == <<"request_uri", "request", "uri">>

Candidates == [
    UserAgent  |-> <<"http_user_agent">>,
    Host       |-> <<"host", "http_host">>,
    ServerName |-> <<"server_name">>,
    RemoteAddr |-> <<"remote_addr", "realip_remote_addr", "http_x_real_ip",
                     "http_x_forwarded_for">>,
    Referer    |-> <<"http_referer", "http_referrer", "referer">>,
    Method     |-> <<"request_method", "request">>,
    Time       |-> <<"msec", "time_iso8601", "time_local">>]

NoAliases == [s \in DOMAIN Candidates |-> ""]

\* the first member of the sequence that is in S, or ""
FirstIn(seq, S) ==
    LET i == SelectInSeq(seq, LAMBDA x : x \in S)
    IN  IF i = 0 THEN "" ELSE seq[i]

DetectAliases(format) == [s \in DOMAIN Candidates |->
    LET v == FirstIn(Candidates[s], Vars(format))
    IN  IF v = "" THEN "" ELSE format.name[v]]

DefaultAliases == [s \in DOMAIN Candidates |->
    IF s \in {"Method", "Time"} THEN "" ELSE Head(Candidates[s])]

WithFallback(a, b) == [s \in DOMAIN a |-> IF a[s] = "" THEN b[s] ELSE a[s]]

Names(a) == FoldLeft(LAMBDA out, n : IF n = "" THEN out ELSE Append(out, n), <<>>,
                     <<a.UserAgent, a.Host, a.ServerName, a.RemoteAddr, a.Referer>>)

Unique(seq) == FoldLeft(LAMBDA out, x :
                    IF x \in ToSet(out) THEN out ELSE Append(out, x), <<>>, seq)

mergeUnique(base, extras) == Unique(base \o extras)

Capped(seq) == IF Len(seq) <= MaxExtras THEN seq ELSE SubSeq(seq, 1, MaxExtras)

\* the place of a name, or 0: slices.Index and indexOrSkip
IndexOf(seq, name) ==
    IF name = "" THEN 0 ELSE SelectInSeq(seq, LAMBDA x : x = name)

-----------------------------------------------------------------------------
(* registerNginx, registerAngie and discoverAccessLogs *)

Timed(format, isJSON) ==
    \/ "request_time" \in Vars(format)
    \/ isJSON /\ \E v \in Vars(format) : format.name[v] = "request_time"

Usable(log, discovered) ==
    /\ log.name \in DOMAIN discovered.formats
    /\ \/ host.bot.enabled
       \/ Timed(discovered.formats[log.name], log.name \in discovered.json)

\* the first directive of a path counts
DiscoverAccessLogs(discovered) ==
    LET usable == SelectSeq(discovered.logs, LAMBDA log : Usable(log, discovered))
        paths  == Unique([i \in 1..Len(usable) |-> usable[i].path])
        log(p) == usable[SelectInSeq(usable, LAMBDA l : l.path = p)]
        format(l) == discovered.formats[l.name]
    IN  [paths   |-> paths,
         formats |-> [p \in ToSet(paths) |-> format(log(p))],
         json    |-> {p \in ToSet(paths) : log(p).name \in discovered.json},
         format  |-> IF usable = <<>> THEN NoFormat ELSE format(Head(usable))]

\* A server has a section of the configuration or not, with the logs, their
\* format and the ExtraLabels; it is running, with a configuration file that the
\* process names, or not.
WebServer == IF host.angie.section \/ host.angie.running THEN host.angie
             ELSE host.nginx

NoLogs == [paths |-> <<>>, formats |-> <<>>, json |-> {}, format |-> NoFormat]

LogConfig ==
    LET s == WebServer
    IN  IF s.section /\ s.logs /= <<>>
        THEN [NoLogs EXCEPT !.paths = s.logs, !.format = s.format]
        ELSE IF s.running /\ "main" \in DOMAIN s.conf
             THEN DiscoverAccessLogs(DiscoverConfig(s.conf))
        ELSE NoLogs

ExtraLabels == IF WebServer.section THEN WebServer.labels ELSE <<>>

\* Where a parser finds the variables: under their keys in JSON, under their own
\* names in text, and nowhere in a text that is taken for JSON.
AsRead(format, isJSON) ==
    IF isJSON /\ format.json THEN format
    ELSE [json |-> format.json,
          name |-> [v \in Vars(format) |-> IF isJSON THEN "" ELSE v]]

\* formatFor of resolveBotlogAliases and formatOf of CheckFormats
FormatOf(cfg, path) ==
    AsRead(IF path \in DOMAIN cfg.formats THEN cfg.formats[path] ELSE cfg.format,
           path \in cfg.json)

-----------------------------------------------------------------------------
(* registerLogCollector *)

highCardLabelDenylist ==
    {"remote_addr", "http_user_agent", "http_referer", "http_x_forwarded_for",
     "request_id", "args", "query_string", "uid_got", "uid_set", "http_cookie"}

\* bug: the canonical names go before those the format uses
DefaultsFirst(cfg, path) ==
    WithFallback(WithFallback(host.bot.override, DefaultAliases),
                 DetectAliases(FormatOf(cfg, path)))

Resolved(cfg, path) ==
    WithFallback(WithFallback(host.bot.override,
                              DetectAliases(FormatOf(cfg, path))),
                 DefaultAliases)

StreamsEnabled == host.bot.enabled \/ host.web.enabled

Aliases(cfg) == IF StreamsEnabled THEN Resolved(cfg, Head(cfg.paths))
                ELSE NoAliases

Mismatched(cfg) == {p \in ToSet(cfg.paths) : Resolved(cfg, p) /= Aliases(cfg)}

ProxyHost == "proxy_host"

RequiredFields(aliases) ==
    Names(aliases) \o (IF host.web.enabled THEN <<ProxyHost>> ELSE <<>>)

ExtractFields(aliases) ==
    IF StreamsEnabled THEN mergeUnique(ExtraLabels, RequiredFields(aliases))
    ELSE ExtraLabels

WarnIf(cond, kind) == IF cond THEN {kind} ELSE {}

CollectorWarnings(cfg, aliases, extract) ==
    WarnIf(ToSet(ExtraLabels) \cap highCardLabelDenylist /= {}, "high_card_label")
    \cup WarnIf(StreamsEnabled /\ Mismatched(cfg) /= {}, "botlog_alias_mismatch")
    \cup WarnIf(host.bot.enabled /\ aliases.UserAgent = "", "botlog_no_ua_field")
    \cup WarnIf(host.bot.enabled /\ aliases.Time = "", "botlog_no_time_field")
    \cup WarnIf(host.bot.enabled /\ aliases.Method = "", "botlog_no_method_field")
    \cup WarnIf(Len(extract) > MaxExtras, "truncated_extract")
    \cup WarnIf(~(ToSet(ExtraLabels) \subseteq ToSet(Capped(extract))),
                "missing_extract")

\* NewLogCollector: an empty format is replaced in its own copy only
NoCollector == [on |-> FALSE, cfg |-> NoLogs, aliases |-> NoAliases,
                extract |-> <<>>, labelIdx |-> <<>>]

RegisterCollectors ==
    /\ stage = "start"
    /\ stage' = "collectors"
    /\ LET cfg     == LogConfig
           aliases == Aliases(cfg)
           extract == ExtractFields(aliases)
       IN  IF cfg.paths = <<>>
           THEN UNCHANGED <<collector, warned>>
           ELSE /\ collector' =
                    [on       |-> TRUE,
                     cfg      |-> cfg,
                     aliases  |-> aliases,
                     extract  |-> Capped(extract),
                     labelIdx |-> [k \in 1..Len(ExtraLabels) |->
                                    IndexOf(Capped(extract), ExtraLabels[k])]]
                /\ warned' = CollectorWarnings(cfg, aliases, extract)
    /\ UNCHANGED <<host, bot, web, ctxDone, tails, lines, metrics, now, panicked,
                   written, last>>

-----------------------------------------------------------------------------
(* registerBotLogs and registerWebLogs *)

\* Validate: the other settings have defaults
EndpointKnown(stream) == stream.endpoint \/ host.push

NoBot == [on |-> FALSE, idxUA |-> 0]

RegisterBotLogs ==
    /\ stage = "collectors"
    /\ stage' = "bots"
    /\ bot' = IF /\ host.bot.enabled /\ host.bot.token /= ""
                 /\ EndpointKnown(host.bot) /\ collector.on
              THEN [on    |-> TRUE,
                    idxUA |-> IndexOf(collector.extract,
                                      collector.aliases.UserAgent)]
              ELSE NoBot
    /\ UNCHANGED <<host, collector, web, warned, ctxDone, tails, lines, metrics,
                   now, panicked, written, last>>

unsafeVars == {"request_body", "http_cookie", "http_authorization"}

\* vars has a member of the sequence: anyOf
AnyOf(vars, seq) == ToSet(seq) \cap vars /= {}

NoClientIP(vars) ==
    collector.aliases.RemoteAddr \notin vars /\ ~AnyOf(vars, Candidates.RemoteAddr)

\* what keeps checkPath from having a path shipped, in its order
Fatal(vars) == FirstIn(<<"weblog_unsafe_format", "weblog_no_client_ip",
                         "weblog_incomplete_format">>,
    WarnIf(unsafeVars \cap vars /= {}, "weblog_unsafe_format")
    \cup WarnIf(NoClientIP(vars), "weblog_no_client_ip")
    \cup WarnIf("status" \notin vars \/ ~AnyOf(vars, URICandidates),
                "weblog_incomplete_format"))

Advice(vars) ==
    WarnIf(~AnyOf(vars, Candidates.Time), "weblog_no_timestamp")
    \cup WarnIf(~AnyOf(vars, Candidates.Method), "weblog_no_method")
    \cup WarnIf("upstream_response_time" \notin vars, "weblog_no_upstream")
    \cup WarnIf(~AnyOf(vars, <<"request_id", "http_x_request_id">>),
                "weblog_no_request_id")
    \cup WarnIf("upstream_status" \notin vars, "weblog_no_upstream_status")
    \cup WarnIf(host.web.upstreams /= {} /\ ProxyHost \notin vars,
                "weblog_upstream_filter_disabled")

Known(path) == path \in ToSet(collector.cfg.paths)

VarsOf(path) == Vars(FormatOf(collector.cfg, path))

Accepted == {p \in host.web.paths : Known(p) /\ Fatal(VarsOf(p)) = ""}

FormatWarnings ==
    UNION {IF ~Known(p) THEN {"weblog_unknown_path"}
           ELSE IF p \in Accepted THEN Advice(VarsOf(p))
           ELSE {Fatal(VarsOf(p))} : p \in host.web.paths}

\* bug: one format with the variable is enough for a filter
SomeCarry(var) == \E p \in Accepted : var \in VarsOf(p)

EveryCarries(var) == \A p \in Accepted : var \in VarsOf(p)

NoWeb == [on |-> FALSE, paths |-> {}, requireUpstream |-> FALSE,
          upstreams |-> FALSE, idxProxyHost |-> 0]

WebValid ==
    /\ host.web.token /= "" /\ host.web.token /= host.bot.token
    /\ host.web.paths /= {} /\ EndpointKnown(host.web)

RegisterWebLogs ==
    /\ stage = "bots"
    /\ stage' = "webs"
    /\ IF host.web.enabled /\ WebValid /\ collector.on
       THEN /\ warned' = warned \cup FormatWarnings
            /\ web' = IF Accepted = {} THEN NoWeb
                      ELSE [on    |-> TRUE,
                            paths |-> Accepted,
                            requireUpstream |->
                                /\ host.web.requireUpstream
                                /\ EveryCarries("upstream_response_time"),
                            upstreams |->
                                /\ host.web.upstreams /= {}
                                /\ EveryCarries(ProxyHost),
                            idxProxyHost |-> IndexOf(collector.extract, ProxyHost)]
       ELSE UNCHANGED <<warned, web>>
    /\ UNCHANGED <<host, collector, bot, ctxDone, tails, lines, metrics, now,
                   panicked, written, last>>

-----------------------------------------------------------------------------
(* The tails *)

\* App.Run starts the collector, if there is one; a log that cannot be tailed
\* is left out
StartTailing ==
    /\ stage = "webs"
    /\ IF collector.on
       THEN /\ stage' = "tailing"
            /\ tailing' = ToSet(collector.cfg.paths) \ host.untailable
            /\ hand' = [p \in ToSet(collector.cfg.paths) |-> <<>>]
       ELSE /\ stage' = "none"
            /\ UNCHANGED tails
    /\ UNCHANGED <<host, collector, observers, ctxDone, lines, metrics, now,
                   panicked, written, last>>

\* nginx writes a line, which the goroutine of the log reads
TailRead(path, request) ==
    /\ path \in tailing /\ hand[path] = <<>>
    /\ written < host.lines
    /\ written' = written + 1
    /\ hand' = [hand EXCEPT ![path] = <<request>>]
    /\ UNCHANGED <<host, stage, collector, observers, ctxDone, tailing, lines,
                   metrics, now, panicked, last>>

\* bug: lines are read ahead without limit
SendUnbounded(path) ==
    /\ path \in tailing /\ hand[path] /= <<>>
    /\ lines' = Append(lines, [path |-> path, request |-> Head(hand[path])])
    /\ hand' = [hand EXCEPT ![path] = <<>>]
    /\ UNCHANGED <<host, stage, collector, observers, ctxDone, tailing, metrics,
                   now, panicked, written, last>>

\* the channel has room, whether anybody still receives from it or not
TailSend(path) ==
    /\ path \in tailing /\ hand[path] /= <<>>
    /\ Len(lines) < ChanCap
    /\ lines' = Append(lines, [path |-> path, request |-> Head(hand[path])])
    /\ hand' = [hand EXCEPT ![path] = <<>>]
    /\ UNCHANGED <<host, stage, collector, observers, ctxDone, tailing, metrics,
                   now, panicked, written, last>>

\* only between two lines does a goroutine look at the context
TailStop(path) ==
    /\ ctxDone
    /\ path \in tailing /\ hand[path] = <<>>
    /\ tailing' = tailing \ {path}
    /\ UNCHANGED <<host, stage, collector, observers, ctxDone, hand, lines, metrics,
                   now, panicked, written, last>>

-----------------------------------------------------------------------------
(* A line as the parser reads it *)

\* what a client sent in the place of a request line
Blob == "SSH-2.0"

\* the value of a variable for a request: the URI variables differ in form only,
\* but $request alone has what is no request line
Value(request, v) ==
    LET uri   == v \in ToSet(URICandidates)
        name  == IF uri THEN "uri" ELSE v
        value == IF name \in DOMAIN request THEN request[name] ELSE "-"
    IN  IF uri /\ v # "request" /\ value = Blob THEN "-" ELSE value

ParserFormat(path) ==
    IF FormatOf(collector.cfg, path) = NoFormat THEN DefaultLogFormat
    ELSE FormatOf(collector.cfg, path)

\* what the parser finds under a name, which for JSON is a key
Field(format, request, name) ==
    LET vars == {v \in Vars(format) : format.name[v] = name}
    IN  IF vars = {} THEN "" ELSE Value(request, CHOOSE v \in vars : TRUE)

Absent(value) == value \in {"", "-"}

fillLine(format, request) ==
    LET get(name) == Field(format, request, name)
        at  == SelectInSeq(URICandidates, LAMBDA v : ~Absent(get(v)))
        uri == IF at = 0 THEN "" ELSE get(URICandidates[at])
    IN  [status   |-> get("status"),
         raw      |-> IF uri = Blob THEN "" ELSE uri,
         uri      |-> IF uri = "" THEN "" ELSE NormalPath[uri],
         body     |-> ~Absent(get("body_bytes_sent")),
         upstream |-> get("upstream_response_time"),
         extras   |-> [i \in 1..Len(collector.extract) |->
                        get(collector.extract[i])]]

\* p.Extras[idx], or "" when the collector does not read the variable
Extra(line, idx) == IF idx = 0 THEN "" ELSE line.extras[idx]

\* a line that is not in the format of its log
Malformed(request) == DOMAIN request = {}

\* a log whose text is taken for JSON
Misread(path) ==
    path \in collector.cfg.json /\ ~FormatOf(collector.cfg, path).json

\* what the parsers return on, without a word
Unparsed(path, request) == Malformed(request) \/ Misread(path)

-----------------------------------------------------------------------------
(* uricounters.go *)

overflowMarker == "/:other"

NewCounters == [m |-> <<>>, lastSweep |-> 0]

Idle(u, t) == {k \in DOMAIN u.m : t - u.m[k].lastSeen > uriIdleTTL}

\* bug: sweeps are as rare as keys are long-lived
LateSweep(u, t) ==
    IF t - u.lastSweep <= uriIdleTTL + uriSweepInterval THEN u
    ELSE [m         |-> [k \in DOMAIN u.m \ Idle(u, t) |-> u.m[k]],
          lastSweep |-> t]

sweep(u, t) ==
    IF t - u.lastSweep < uriSweepInterval THEN u
    ELSE [m         |-> [k \in DOMAIN u.m \ Idle(u, t) |-> u.m[k]],
          lastSweep |-> t]

Bump(u, key, t) ==
    [u EXCEPT !.m = [k \in DOMAIN u.m \cup {key} |->
        IF k # key THEN u.m[k]
        ELSE [count    |-> 1 + IF key \in DOMAIN u.m THEN u.m[key].count ELSE 0,
              lastSeen |-> t]]]

Full(u) == Cardinality(DOMAIN u.m) >= maxCardinalityURI

\* bug: until September 2026 a full map stopped accepting keys
StopAccepting(u, key, overflow, t) ==
    IF key \in DOMAIN u.m \/ ~Full(u) THEN Bump(u, key, t) ELSE u

\* bug: the size is not looked at again after the sweep
SweepAndTake(u, key, overflow, t) ==
    IF key \in DOMAIN u.m THEN Bump(u, key, t)
    ELSE Bump(IF Full(u) THEN sweep(u, t) ELSE u, key, t)

add(u, key, overflow, t) ==
    IF key \in DOMAIN u.m THEN Bump(u, key, t)
    ELSE LET s == IF Full(u) THEN sweep(u, t) ELSE u
         IN  Bump(s, IF Full(s) THEN overflow ELSE key, t)

-----------------------------------------------------------------------------
(* recordLine: the request durations and the cache counters, which only grow
   and are read by nobody but a scrape, are left out *)

LabelValues(line) == [k \in DOMAIN collector.labelIdx |->
    LET v == Extra(line, collector.labelIdx[k]) IN IF v = "-" THEN "" ELSE v]

Tagged == collector.labelIdx /= <<>>

CountRequest(key) ==
    IF key \in DOMAIN requests THEN [requests EXCEPT ![key] = @ + 1]
    ELSE IF Tagged /\ Cardinality(DOMAIN requests) >= maxCardinalityTagged
         THEN requests
         ELSE [k \in DOMAIN requests \cup {key} |->
                IF k = key THEN 1 ELSE requests[k]]

Counts(line, family) ==
    /\ line.status /= "" /\ line.uri /= ""
    /\ CASE family = "4xx"   -> line.status \in Status4xx
         [] family = "5xx"   -> line.status \in Status5xx
         [] family = "bytes" -> line.body

Key(family, line, uri) ==
    <<IF family = "bytes" THEN "" ELSE line.status, uri>>

Count(u) == [k \in DOMAIN u.m |-> u.m[k].count]

\* history: the keys that add sweeps to make room, /:other itself among them
Evicted(u, key, t) ==
    IF key \in DOMAIN u.m \/ ~Full(u) THEN {} ELSE DOMAIN u.m \ DOMAIN sweep(u, t).m

\* the new counters of a family
Recorded(line, f) ==
    IF Counts(line, f)
    THEN add(uris[f], Key(f, line, line.uri), Key(f, line, overflowMarker), now)
    ELSE uris[f]

recordLine(line) ==
    /\ requests' = IF line.status = "" THEN requests
                   ELSE CountRequest(<<line.status, LabelValues(line)>>)
    /\ uris' = [f \in Families |-> Recorded(line, f)]
    /\ hits' = [f \in Families |-> hits[f] + IF Counts(line, f) THEN 1 ELSE 0]
    /\ evicted' = [f \in Families |-> evicted[f] +
                    IF Counts(line, f)
                    THEN SumFunctionOnSet(Count(uris[f]),
                            Evicted(uris[f], Key(f, line, line.uri), now))
                    ELSE 0]

\* key.extra is an array of MaxExtras values
Overruns(line) == line.status /= "" /\ Len(collector.labelIdx) > MaxExtras

-----------------------------------------------------------------------------
(* OnLogLine of the two observers *)

BotShips(line) == bot.on /\ Extra(line, bot.idxUA) \in Bots

WebOutcome(line, path) ==
    IF ~web.on THEN "off"
    ELSE IF path \notin web.paths THEN "path"
    ELSE IF web.requireUpstream /\ Absent(line.upstream) THEN "upstream"
    ELSE IF web.upstreams /\ Extra(line, web.idxProxyHost) \notin host.web.upstreams
         THEN "proxy_host"
    ELSE IF line.raw \in host.web.excluded THEN "prefix"
    ELSE "shipped"

Nothing == [path |-> "", request |-> <<>>, bot |-> FALSE, web |-> "off"]

\* runPaths takes the next line
Process ==
    /\ stage = "tailing" /\ lines /= <<>>
    /\ lines' = Tail(lines)
    /\ LET path    == Head(lines).path
           request == Head(lines).request
           line    == fillLine(ParserFormat(path), request)
       IN  \/ /\ Unparsed(path, request)
              /\ last' = [path |-> path, request |-> request,
                          bot  |-> FALSE, web |-> "unparsed"]
              /\ UNCHANGED <<metrics, panicked>>
           \/ /\ ~Unparsed(path, request) /\ Overruns(line)
              /\ panicked' = TRUE
              /\ UNCHANGED <<metrics, last>>
           \/ /\ ~Unparsed(path, request) /\ ~Overruns(line)
              /\ recordLine(line)
              /\ last' = [path |-> path, request |-> request,
                          bot  |-> BotShips(line),
                          web  |-> WebOutcome(line, path)]
              /\ UNCHANGED panicked
    /\ UNCHANGED <<host, stage, collector, observers, ctxDone, tails, now, written>>

\* the select of runPaths chooses freely between the two
CollectorReturns ==
    /\ stage = "tailing" /\ ctxDone
    /\ stage' = "returned"
    /\ UNCHANGED <<host, collector, observers, ctxDone, tails, lines, metrics, now,
                   panicked, written, last>>

-----------------------------------------------------------------------------
(* The specification *)

\* environment: seconds pass
Tick ==
    /\ now < MaxNow
    /\ now' = now + 1
    /\ UNCHANGED <<host, stage, collector, observers, ctxDone, tails, lines, metrics,
                   panicked, written, last>>

Cancel ==
    /\ ~ctxDone
    /\ ctxDone' = TRUE
    /\ UNCHANGED <<host, stage, collector, observers, tails, lines, metrics, now,
                   panicked, written, last>>

LogInit ==
    /\ host \in Setups
    /\ stage = "start"
    /\ collector = NoCollector /\ bot = NoBot /\ web = NoWeb /\ warned = {}
    /\ ctxDone = FALSE
    /\ tailing = {} /\ hand = <<>> /\ lines = <<>>
    /\ requests = <<>> /\ uris = [f \in Families |-> NewCounters]
    /\ now = Start
    /\ panicked = FALSE
    /\ written = 0 /\ last = Nothing
    /\ hits = [f \in Families |-> 0] /\ evicted = [f \in Families |-> 0]

LogRegister ==
    \/ RegisterCollectors
    \/ RegisterBotLogs
    \/ RegisterWebLogs
    \/ StartTailing

LogStep ==
    \/ \E path \in tailing :
        \/ \E request \in host.requests : TailRead(path, request)
        \/ TailSend(path)
        \/ TailStop(path)
    \/ Process
    \/ CollectorReturns

\* a panic ends the process
LogNext == ~panicked /\ (LogRegister \/ LogStep \/ Tick \/ Cancel)

LogSpec == LogInit /\ [][LogNext]_logVars

-----------------------------------------------------------------------------
(* Properties *)

\* Types of the pipeline, and the channel that never holds more than it can.
LogTypeOK ==
    /\ stage \in {"start", "collectors", "bots", "webs", "tailing", "none", "returned"}
    /\ collector.on \in BOOLEAN /\ ctxDone \in BOOLEAN /\ panicked \in BOOLEAN
    /\ \A f \in Families : \A k \in DOMAIN uris[f].m :
        uris[f].m[k].count \in Nat /\ uris[f].m[k].lastSeen \in Nat
    /\ Len(lines) <= ChanCap /\ now \in Nat /\ written \in Nat
    /\ tailing \subseteq ToSet(collector.cfg.paths)

\* what Collect exports by URI, and as http_requests_total
Series(family) == DOMAIN uris[family].m
RequestSeries  == DOMAIN requests

\* Of a family of URI series at most maxCardinalityURI have a path of their own,
\* besides one overflow series per status, and with ExtraLabels there are at most
\* maxCardinalityTagged request series: recordLine and uriCounters.add bound what
\* a scanner can make the agent export.
SeriesBounded ==
    /\ \A f \in Families :
        Cardinality({k \in Series(f) : k[2] # overflowMarker})
            <= maxCardinalityURI
    /\ Tagged => Cardinality(RequestSeries) <= maxCardinalityTagged

\* Every line of a family is counted once, under its path or under /:other, until
\* an idle series is evicted with its count, and http_requests_total without
\* labels is never below the sum of the 4xx or of the 5xx series.
CountsConserved ==
    \A f \in Families :
        /\ hits[f] = evicted[f] + SumFunction(Count(uris[f]))
        /\ ~Tagged /\ f # "bytes" =>
            hits[f] <= SumFunctionOnSet(requests,
                        {k \in DOMAIN requests :
                            k[1] \in IF f = "4xx" THEN Status4xx ELSE Status5xx})

\* the counters of a family have counted a line under /:other
Overflows(u, v) == \E k \in DOMAIN v.m :
    k[2] = overflowMarker /\ (k \in DOMAIN u.m => u.m[k] # v.m[k])

PathOf(l) == fillLine(ParserFormat(l.path), l.request).uri

\* A line with another path is counted under /:other only while maxCardinalityURI
\* series are live: each was hit within uriIdleTTL, give or take the interval
\* between two sweeps.
OverflowIsCrowded ==
    [][\A f \in Families :
        Overflows(uris[f], uris'[f]) /\ PathOf(last') # overflowMarker =>
            /\ Cardinality(DOMAIN uris'[f].m) >= maxCardinalityURI
            /\ \A k \in DOMAIN uris'[f].m :
                now - uris'[f].m[k].lastSeen <= uriIdleTTL + uriSweepInterval]_logVars

\* the log has the variable, if it is JSON under a key of its own
HasOwn(path, v) ==
    LET format == ParserFormat(path)
    IN  /\ v \in Vars(format)
        /\ format.json =>
            /\ format.name[v] # ""
            /\ \A w \in Vars(format) : format.name[w] = format.name[v] => w = v

\* A request of a known bot whose log carries $http_user_agent becomes an event
\* of the bot stream, unless a warning told at startup that the field is lost.
\* This is not so for a log in a text format whose name an earlier JSON format,
\* one that is commented out for example, had too: it stays marked as JSON, all of
\* its lines are lost, and no warning says so.
BotLossIsWarned ==
    /\ bot.on /\ last # Nothing
    /\ ~Malformed(last.request) /\ ~Misread(last.path)
    /\ host.bot.override = NoAliases
    /\ HasOwn(last.path, "http_user_agent")
    /\ Value(last.request, "http_user_agent") \in Bots
    => last.bot \/ {"botlog_alias_mismatch", "truncated_extract"} \cap warned # {}

\* the web stream reads a variable under its own name, which is no other's, and
\* the URI under that of any of the URI variables
Canonical(path) ==
    LET format == ParserFormat(path)
    IN  /\ \A v \in {"upstream_response_time", ProxyHost} \cap Vars(format) :
            format.name[v] = v /\ HasOwn(path, v)
        /\ \A w \in Vars(format) :
            format.name[w] \in ToSet(URICandidates) <=> w \in ToSet(URICandidates)

RawURI(request) ==
    IF Absent(Value(request, "uri")) THEN "" ELSE Value(request, "uri")

Reached(request) == ~Absent(Value(request, "upstream_response_time"))

Listed(request) == Value(request, ProxyHost) \in host.web.upstreams

\* The web stream drops a line that can be parsed only for a cause that is true of
\* the request itself, and ships one that a configured filter should have dropped,
\* or no line of a path, only after a warning; nothing comes from a log with
\* cookies or credentials.  This is not so for a JSON log with other keys for what
\* the filters read: CheckFormats looks for the variable, the observer for its name.
FilteredForCause ==
    web.on /\ last # Nothing /\ "truncated_extract" \notin warned
           /\ Canonical(last.path) =>
    CASE last.web = "off" -> TRUE
      [] last.web = "unparsed" -> Unparsed(last.path, last.request)
      [] last.web = "path" ->
            \/ last.path \notin host.web.paths
            \/ Fatal(VarsOf(last.path)) \in warned
      [] last.web = "upstream" ->
            host.web.requireUpstream /\ ~Reached(last.request)
      [] last.web = "proxy_host" ->
            host.web.upstreams # {} /\ ~Listed(last.request)
      [] last.web = "prefix" -> RawURI(last.request) \in host.web.excluded
      [] last.web = "shipped" ->
            /\ last.path \in host.web.paths
            /\ unsafeVars \cap Vars(ParserFormat(last.path)) = {}
            /\ host.web.requireUpstream => \/ Reached(last.request)
                                           \/ "weblog_no_upstream" \in warned
            /\ host.web.upstreams # {} => \/ Listed(last.request)
                                          \/ "weblog_upstream_filter_disabled" \in warned

\* What the warning truncated_extract says: an allowlist whose $proxy_host was
\* truncated away is not applied.
UnreadAllowlistIsOff ==
    last.web = "proxy_host" => ~Listed(last.request)
=============================================================================
