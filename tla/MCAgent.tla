-------------------------------- MODULE MCAgent --------------------------------
(* Hosts, log_formats and requests for the model checker. *)
EXTENDS Agent, TLC

\* log_formats: what a busy front node logs, and variations of it
full   == Text({"remote_addr", "request", "status", "body_bytes_sent", "msec",
                "http_user_agent", "request_time", "upstream_response_time",
                "proxy_host"})
Without(format, vars) ==
    [format EXCEPT !.name = [v \in DOMAIN @ \ vars |-> @[v]]]
Renamed(format, v, key) == [json |-> TRUE, name |-> [format.name EXCEPT ![v] = key]]
static == Without(full, {"upstream_response_time", "proxy_host"})
cookie == [full EXCEPT !.name = @ @@ [v \in {"http_cookie"} |-> v]]

\* the access_log directives of a host
Directives == [
    one     |-> <<<<"a", full>>>>,
    stale   |-> <<<<"a", full>>>>,
    static  |-> <<<<"a", full>>, <<"b", static>>>>,
    cookie  |-> <<<<"a", full>>, <<"b", cookie>>>>,
    noaddr  |-> <<<<"a", full>>, <<"b", Without(full, {"remote_addr"})>>>>,
    json    |-> <<<<"a", full>>, <<"b", Renamed(full, "http_user_agent", "ua")>>>>,
    agent   |-> <<<<"a", Without(full, {"http_user_agent"})>>,
                  <<"b", Renamed(full, "http_user_agent", "ua")>>>>,
    urt     |-> <<<<"a", Renamed(full, "upstream_response_time", "urt")>>>>,
    untimed |-> <<<<"a", NoFormat>>, <<"b", Without(full, {"request_time"})>>,
                  <<"b", full>>>>]

Labels == [
    none  |-> <<>>,
    one   |-> <<"server_name">>,
    four  |-> <<"http_platform", "http_version", "scheme", "http_user_agent">>,
    nine  |-> <<"n1", "n2", "n3", "n4", "n5", "n6", "n7", "n8", "n9">>]

\* an earlier format of a name that is given again
Earlier == [d \in DOMAIN Directives |->
    IF d = "stale" THEN [name |-> "f1", format |-> Renamed(full, "http_user_agent", "ua")]
    ELSE [name |-> "f2", format |-> static]]

\* the configuration: the log_formats and an include of two files, one of which
\* cannot be read
FormatName == <<"f1", "f2", "f3">>
Conf(logs, earlier) ==
    [main  |-> <<[kind |-> "log_format"] @@ earlier>>
               \o [i \in DOMAIN logs |->
                    [kind |-> "log_format", name |-> FormatName[i], format |-> logs[i][2]]]
               \o <<[kind |-> "include", matches |-> <<"gone", "sites">>]>>,
     sites |-> <<[kind |-> "access_log", path |-> "off", name |-> "f1"]>>
               \o [i \in DOMAIN logs |->
                    [kind |-> "access_log", path |-> logs[i][1], name |-> FormatName[i]]]]

Server(conf, kind, labels, on) ==
    [section    |-> on,
     logs       |-> IF on /\ kind = "explicit" THEN <<"a">> ELSE <<>>,
     format     |-> IF labels = "none" THEN NoFormat ELSE full,
     labels     |-> Labels[labels],
     running    |-> on,
     conf       |-> conf]

request == [status |-> "404", uri |-> "/a", body_bytes_sent |-> "9",
            http_user_agent |-> "GPTBot", upstream_response_time |-> "0.1",
            proxy_host |-> "app", server_name |-> "s", http_platform |-> "ios"]

asset == [request EXCEPT !.status = "500", !.upstream_response_time = "-",
                         !.proxy_host = "-", !.http_user_agent = "Mozilla"]
other == [request EXCEPT !.proxy_host = "blog", !.http_user_agent = "Mozilla"]
login == [request EXCEPT !.uri = "/login?x"]
garbage == [v \in {} |-> ""]
blob == [asset EXCEPT !.uri = Blob]
scan == {[request EXCEPT !.uri = u] : u \in {"/a", "/b", "/c?1"}}

\* the rest of a host: what is on besides the logs, and the bounds
plain == [lines |-> 1, requests |-> {request, asset, other, login, blob, garbage},
          postgres |-> [section |-> FALSE, disabled |-> FALSE, valid |-> TRUE,
                        running |-> FALSE],
          push |-> FALSE, smart |-> FALSE, packages |-> FALSE, listen |-> FALSE,
          update |-> FALSE, signal |-> FALSE, gathers |-> 0, until |-> Start]

Roles == [
    logs |-> plain,
    \* scanners fill the URI series
    uris |-> [plain EXCEPT !.lines = 4, !.until = MaxNow, !.requests = scan],
    \* others that stay, while /:other goes idle and comes back
    crowd |-> [plain EXCEPT !.lines = 6, !.until = Start + 2, !.requests = scan],
    \* gathers that overlap, and the caches that age
    gathers |-> [plain EXCEPT !.postgres.running = TRUE, !.listen = TRUE, !.push = TRUE,
                !.gathers = 2, !.until = Start + 1],
    \* signals at any time: with Postgres; with logs; without a server
    stopGather |-> [plain EXCEPT !.postgres.running = TRUE, !.listen = TRUE,
                !.push = TRUE, !.gathers = 1, !.signal = TRUE],
    stopLogs |-> [plain EXCEPT !.lines = 2, !.requests = {request},
                !.signal = TRUE],
    stopPush |-> [plain EXCEPT !.postgres.section = TRUE, !.postgres.disabled = TRUE,
                !.push = TRUE, !.update = TRUE, !.smart = TRUE, !.packages = TRUE,
                !.signal = TRUE]]

Stream(mode, token) ==
    [enabled |-> mode # "off", endpoint |-> TRUE,
     token   |-> IF mode = "off" THEN "off" ELSE token]

HostOf(c, conf) ==
    [angie |-> Server(conf, c.kind, c.labels, c.kind = "angie"),
     nginx |-> Server(conf, c.kind, c.labels, c.kind \in {"nginx", "explicit"}),
     bot   |-> [override |-> IF c.bot = "renamed"
                             THEN [NoAliases EXCEPT !.UserAgent = "ua"] ELSE NoAliases]
               @@ Stream(c.bot, "bot"),
     web   |-> [paths |-> {"a", "b"}, requireUpstream |-> c.web # "list",
                upstreams |-> IF c.web = "list" THEN {"app"} ELSE {},
                excluded |-> {"/login?x"}]
               @@ Stream(c.web, c.web),
     untailable |-> {}] @@ Roles[c.role]

Case(logs, kind, labels, bots, webs, role) ==
    [logs |-> logs, kind |-> kind, labels |-> labels, bot |-> bots, web |-> webs,
     role |-> role]

\* every combination of these, by the digits of an index up to 648
Digit(i, place, seq) == seq[((i \div place) % Len(seq)) + 1]

Combination(i) == Case(
    Digit(i, 1, <<"one", "stale", "static", "cookie", "noaddr", "json", "agent", "urt", "untimed">>),
    Digit(i, 9, <<"nginx", "explicit">>),
    Digit(i, 18, <<"none", "one", "four", "nine">>),
    Digit(i, 72, <<"off", "bot", "renamed">>),
    Digit(i, 216, <<"off", "reached", "list">>), "logs")

Others == <<
    Case("one", "angie", "none", "off", "off", "uris"),
    Case("one", "angie", "none", "off", "off", "crowd"),
    Case("one", "none", "none", "off", "off", "gathers"),
    Case("one", "none", "none", "off", "off", "stopGather"),
    Case("static", "nginx", "none", "bot", "reached", "stopLogs"),
    Case("one", "none", "none", "off", "off", "stopPush")>>

HostOfCase(c) == HostOf(c, Conf(Directives[c.logs], Earlier[c.logs]))

MCSetups == {HostOfCase(Combination(i)) : i \in 1..648}
            \cup {HostOfCase(c) : c \in ToSet(Others)}

MCNormalPath == [u \in {"/a", "/b", "/c?1", "/login?x", Blob} |->
    CASE u = "/c?1" -> "/c" [] u = "/login?x" -> "/login" [] u = Blob -> "/:invalid"
      [] OTHER -> u]
MCBots == {"GPTBot"}
MC4xx == {"403", "404"}
MC5xx == {"500"}
=============================================================================
