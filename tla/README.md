# SNIrelay: TLA+ models, model checking and proofs

SNIrelay is a layer-4 relay: it accepts TCP connections, reads the host name
from the TLS ClientHello or the HTTP `Host` header, and forwards the bytes
through an upstream proxy. It is a multi-threaded tokio program with a panel
(HTTP API, SQLite), per-domain daily limits that are kept in a state file, an
upstream monitor and dnsmasq integration. This directory models its logic in
TLA+, checks the models with TLC on small instances and proves the central
properties with TLAPS for every value of the constants.

Paths below are relative to the repository; the Rust code is in `src/`.

## 1. Inventory

| Component | Code | State | Operations |
|---|---|---|---|
| Domain limiter | `domain_limiter.rs` 45-110, 273-380 | per key three independent atomics (`day`, `bytes`, `connections`), one `dirty` flag | `check_connection`, `account_bytes`, `refresh_if_new_day`, `resolve_limit_key` |
| Limiter persistence | `domain_limiter.rs` 130-272, `service.rs` 60-76, 150-196 | state file, temporary file | `load`, `build_snapshot`, `persist_now`, `flush_if_dirty`, periodic task, final persist |
| Relay service | `service.rs` 91-561 | semaphore `connection_slots`, shutdown watch channel, listener tasks, session tasks, connection metrics | `run`, `run_listener`, `handle_connection` |
| Splice | `service.rs` 871-938 | two copy tasks per session | `splice`, `copy_counting` |
| Upstream connector | `proxy_connector.rs` | one TCP stream per attempt | direct, SOCKS5, HTTP CONNECT |
| Upstream registry | `upstream_registry.rs` | `RwLock<UpstreamRegistry>` replaced by the panel | `connect_candidates`, per-client profile |
| Upstream monitor | `upstream_monitor.rs`, `telegram.rs` | health per endpoint, failure streak, time of the last alert | probe loop, `apply_probe_result`, alerts |
| Panel API | `panel/api.rs`, `panel/mod.rs` | live registry, client ACL, hosts table, YAML files, UFW rules | add / delete / replace handlers |
| Client ACL, UFW, hosts | `client_acl.rs`, `ufw.rs`, `hosts.rs` | entries (an empty ACL allows everybody) | lookup, rewrite |
| DNS query log | `panel/dnsmasq_query_log.rs`, `panel/db.rs` | file offset, pending map, rows, saved offset | `ingest_once`, prune, clear |
| dnsmasq files | `panel/dnsmasq_store.rs`, `panel/api.rs` 30-49, 370-812 | the `*.conf` files of a directory, the running dnsmasq | `load_domains`, `save_domains`, `reload`, seven handlers |
| Traffic aggregation | `panel/traffic.rs` | bounded queue, batch | record, flush |
| Panel sessions | `panel/mod.rs`, `panel/db.rs` | sessions, users | log in, log out, expiry |
| Metrics | `metrics.rs` | atomic counters | connection events, refresh, endpoint |
| Host name extraction | `sni.rs`, `service.rs` 636-766 | none | parse a ClientHello or a request head |
| Self-loop guard, process limits | `self_loop.rs`, `limits.rs` | none | `would_loop`, `effective_connection_limit` |
| Configuration, start-up, logging | `config.rs`, `main.rs`, `logging.rs` | none after the start | parse, validate |

Interactions. `main` builds the service; `run` spawns one `run_listener` per
address, each of which takes a permit of `connection_slots`, accepts, and moves
the permit into a spawned session. A session asks the ACL, peeks the host name,
calls the limiter (`check_connection`), resolves the destination, asks the
registry for candidates, connects, replays what it peeked and splices; the two
copy tasks call `account_bytes` after every chunk. A timer task and `run` itself
write the limiter's counters to disk. The panel replaces the registry, the ACL
and the hosts table under the sessions, and the monitor reads the registry.

What is hard, and therefore what the properties are about:

* the limiter resets three atomics one after the other while other threads read
  and add (midnight), and compares counts that are stale;
* the snapshot of the counters is not atomic, the dirty mark is cleared after
  the write, and two writers share one temporary file;
* the process may be killed at any instant and starts from the file it left;
* permits travel from the semaphore through listeners to sessions and must come
  back on every path, including `select!` dropping a half-done acquire;
* shutdown races with accepts; clients and upstreams may be silent for ever;
* panel handlers read, clone, change and write back without a common lock, in
  memory, in one YAML file and in a directory of dnsmasq files;
* the query log is read with an offset into a file that grows and is truncated
  under it, and rows, offset and ids are saved in separate statements;
* samples wait in a bounded queue and are written in batches that may fail.

`PROJECT.json` lists each hazard at its line with the properties that cover it.

## 2. Modules

| Module | Models | Role |
|---|---|---|
| `DomainLimiter` | `domain_limiter.rs`, callers in `service.rs` | one step per atomic operation |
| `LimiterPersistence` | the same with its state file | EXTENDS `DomainLimiter`; savers, files, crashes, restarts |
| `SessionGate` | nothing directly | abstract specification: what `max_connections` promises |
| `RelayService` | `service.rs`, connection metrics | listeners, semaphore, session stages, shutdown |
| `SessionStream` | `service.rs` 636-766, 505-541, 871-938, `proxy_connector.rs` 412-655, `sni.rs` | the bytes of one session: extraction, handshake, replay, splice |
| `PanelStore` | `panel/api.rs` 975-1562, `upstream_registry.rs`, `client_acl.rs`, `ufw.rs` | concurrent panel requests, live values, the YAML file, the firewall |
| `UpstreamMonitor` | `upstream_monitor.rs`, `telegram.rs`, `proxy_connector.rs` 105-442, `main.rs` 160-213 | start-up wait, probe rounds, thresholds, alerts |
| `DnsmasqStore` | `panel/dnsmasq_store.rs`, `panel/api.rs` 30-49, 370-812 | concurrent domain requests, the files of the directory, the running dnsmasq |
| `PanelApi` | | EXTENDS `PanelStore` and `DnsmasqStore`: all requests that change something outside the database |
| `DnsQueryLog` | `panel/dnsmasq_query_log.rs`, `panel/db.rs` 399-523 | the log file, the ingest task, rows and offset |
| `TrafficAggregator` | `panel/traffic.rs`, `panel/db.rs` 174-211 | queue, batch, transaction |
| `PanelDb` | | EXTENDS `DnsQueryLog` and `TrafficAggregator`: the two tasks that write the database |
| `DomainLimiterProofs`, `LimiterPersistenceProofs`, `RelayServiceProofs`, `SessionStreamProofs`, `UpstreamMonitorProofs`, `PanelStoreProofs` | | theorems about the module of that name |
| `PanelApiProofs` | | theorems about `DnsmasqStore` and `PanelApi` |
| `PanelDbProofs` | | theorems about `DnsQueryLog`, `TrafficAggregator` and `PanelDb` |
| `MC*` | | constants for TLC |

A definition whose comment begins with "Mutant" is a plausible bug of the code:
replacing the named definition by it makes TLC refute the property it is listed
with, which shows that the property says something about the code.

### DomainLimiter

A task is `<<s, "conn">>` (the `handle_connection` of session `s`), `<<s, "up">>`
and `<<s, "down">>` (its copy tasks) or `<<v, "save">>` (a task in
`persist_now`). `pc` says before which atomic operation a task stands, `today`
and `reg` are its locals. `Refresh` is `refresh_if_new_day` in five steps: read
the clock, load the day, exchange it, zero the bytes, zero the connections.
`CheckBandwidth`, `LoadConnections` and `Increment` are `check_connection`;
`AccountBytes`, `AddBytes` and `MarkAdded` are `account_bytes`. `Midnight` moves
the clock between any two steps. `admitted` is a history variable.

Abstractions: a host name is the key it resolves to (or `NoKey`); atomics are
sequentially consistent (the code uses acquire/release and relaxed operations on
single variables; weaker orders would add behaviours, so that a violation found
here is real and a property that holds is claimed for the interleaving model);
a spurious failure of `compare_exchange_weak` is a stuttering step; the clock
does not go back; the bytes peeked before the splice are not counted, as in the
code; 64-bit counters do not overflow in a day.

### LimiterPersistence

`Tick` and `Shutdown` begin a `persist_now` of the saver `"periodic"` or
`"final"`. Its steps are: for each key a refresh and the three loads of
`snapshot()`, `OpenTmp` (truncate), `WriteTmp`, `Rename`, `ClearDirty`;
`PersistFails` is an I/O error at any of them. The temporary file is one file
with one name: `fd` follows a descriptor through the other saver's rename, and a
write into a file that already has text may leave the tail of that text
(`Unparsable`). `Shutdown` does not stop a flush that is already running:
`JoinHandle::abort` takes effect at an await point and `persist_now` has none.
`Crash` may happen at any instant, `Exit` is the orderly end, `Start` is `load`:
entries of another day are dropped, a file that does not parse leaves the
service without a limiter (`service.rs` 71), which is the phase `"unlimited"`.

Abstractions: a crash is the death of the process, not of the machine (the code
does not fsync); limits do not change between two starts; the version field of
the file always matches.

### RelayService and SessionGate

`lpc[l]` is where listener `l` is in its loop, `stage[c]` the stage of
`handle_connection` of client `c`. The semaphore is tokio's: a permit that is
released goes to the listener that waits longest (`granted`), one that is
dropped before it is taken is handed on. `SelectShutdown` is the other branch of
`select!`; `Accept` is in the branch body, where the shutdown is not polled.
Every stage ends in one of the ways the code has: `Rejected`, `Failed` with
`opened` true or false, `Closed`. `metrics` are the counters `metrics.rs` keeps
(`closed` is a history counter). Outcomes that depend on data (ACL, host name,
limiter, upstream) are choices; `Resolve` covers `resolve_destination` and
`would_loop`.

`SessionGate` says what `max_connections` promises: a session begins only while
fewer than `Slots` sessions are in service. `RelayService` implements it with
`inService <- InService`.

### SessionStream

One session, in depth: `RelayService` has its stages as single steps, this module
has what happens to the bytes. A stream is a sequence of numbered pieces, and a
read returns whatever has arrived; together with the order in which peers send
this gives every way TCP can cut a stream into reads. Piece 1 of the client is
shorter than three bytes (what `extract_auto` needs to see), piece 2 completes
the first five bytes (what `parse_sni` and `starts_with("CONNECT ")` need), piece
`head` completes the ClientHello or request head. `BufLen` is the extraction
buffer, so that heads that fit and heads that do not are both tried.
`Detect`, `ReadHead`, `ParseTls`, `ParseHttp` and `ReadFails` are the three
`extract_*` functions, `Socks5Read` and `HttpConnectRead` the handshakes (the
first with `read_exact`, the second with `read`), `Replay` the write of
`peeked_bytes` and `client_overflow`, `CopyRead`, `CopyWrite` and `CopyEnd` one
iteration of `copy_counting`, `Close` the two joins of `splice`. The peers send,
finish and reset when they like.

Abstractions: a name is found or missing in a complete head; the requests the
relay sends to the proxy are implied by the answers it waits for; the size of the
splice buffer does not matter because any cut of the stream is possible anyway. Bytes
behind a complete request head that are not UTF-8 hide the head (`from_utf8` of the whole
buffer, `src/service.rs:719`), so that `ParseHttp` may read on whenever something follows.

### PanelStore

The panel's handlers for the hosts table, the upstream registry and the client
whitelist, as processes: `Begin` is the part up to the copy of the live value and
the validation of the changed copy (`Refused` is a 400 answer, `Changed` the new
value), `ReadPrev` the second read of `put_whitelist`, `UfwStep` the firewall
commands, `WriteHostsLive` and `WriteLive` the assignments under a write lock,
`ReadYaml`, `TruncateYaml` and `WriteYaml` the three steps of `persist_*_yaml`.
The order differs: the whitelist handlers save first and change the live value
last, the others the other way round. Every save and every firewall command may
fail, which the code only reports. `live`, `hostsLive`, `file` and `ufw` are the
four places that ought to agree; `serial` is what they would hold if every request
were atomic.

Abstractions: a hosts table is a value that compiles or not, a profile is its type
and whether it has a secret, an address is a model value; other spellings of an
address are separate texts that `NormalizeClientIp` maps to it. The commands of
one handler are one step, since they can only interleave with those of another
whitelist request, which counts as a race anyway. `FromParts`,
`MergeProxySecrets` and `ConnectCandidates` are the code's pure functions; the sort in
`connect_candidates` is the rank of a profile among the others (`Order`). At the start the
registry names only profiles that it has: `normalize_upstreams` (`config.rs` 802-861)
refuses or removes the others.

### DnsmasqStore and PanelApi

The domain rules have no store of their own: the files are the store. A handler is a
process. `BeginDomain` is the load of all files and the change of the list
(`CreateDomain`, `UpdateDomain`, `DeleteDomain`, `ReplaceDomains`, `ImportDomains`,
nothing for `/dnsmasq/apply`); `StartSave` detects the relay and the bypass file again
(`FromPanel`, `MostRules`: the order of the directory is a choice); `Strip` cleans one
other file, `WriteRelay` and `WriteBypass` rewrite the two, `Reload` is the command. A
write is two steps, the truncation (`Open`) and the text (`Flush`), and may fail at each;
what another handler wrote in between may be left behind the new text. `wanted` is the
mode each domain would have if requests were atomic (`Intended` states it without the
code's lists), `foreign` the files with directives of the administrator.

A file is its set of rules, the kinds of lines in it that begin as rules do and are none
(`address=/x/`, `server=//#`: `detect_files` counts and `strip_managed_lines` removes
them, `load_domains` skips them), and a mark for other directives. A write that is cut off
may leave such a line. `Strip` may rewrite a file that has none of them, as the code does
where line ends differ, and the detection may miss any file, as it does one it cannot
read. The configured files are taken to be files of the directory.

What a reload command does is outside the code, which only sees its exit status. The model
assumes that a command that succeeds makes dnsmasq read the directory. Whether the shipped
one does (`kill -HUP`, `config/config.yaml:114`) depends on what dnsmasq does on that
signal; if it does not read its configuration files then, `RunningFollowsFiles` says
nothing about that installation.

A load is one step: one that overlaps a save counts as a race. The first disjunct of `BeginDomain` is every answer
without an effect. Without a dnsmasq directory the panel keeps the list in SQLite, in
single statements, which is not modelled.

`PanelApi` puts both sorts of requests side by side. They share no state, file or lock, so
that behaviours with both sorts are left out of its next-state relation.

### DnsQueryLog, TrafficAggregator and PanelDb

`said` is all that dnsmasq ever wrote, `log` the numbers of the lines in the file. A turn
of `ingest_once` is `Stat` (with the reset for a shorter file), `Read` (to the end of the
file, while the offset moves to the length seen before), one `HandleLine` per line, and
`Finish` (`set_setting`). A query waits in `pending` under two keys; an answer line has no
client, takes the waiting row of its domain or makes a row of its own. Errors of
statements are ignored, as in the code. `Restart` starts with the saved offset and an
empty map. `Rotate` truncates the file (`copytruncate`), `DeleteRows` is clear at any time
and prune between turns. The generations in `gen` tell which file an offset belongs to.
Lines are written in one piece; query type and answer text do not matter for what is
checked (the type is part of the client's key).

`Record` is `try_send`, `Recv`, `FlushTick` and `RecvNone` are the branches of the
task's `select!`, `FlushBuf` takes the batch out of the buffer and `ApplyTrafficBatch` is
the transaction, which is booked on the day of the flush. `Killed` is the end of the
process: `main` does not wait for the task.

Both write one SQLite connection behind a mutex, into different tables, so that `PanelDb`
leaves out behaviours in which both are busy.

### UpstreamMonitor

Start-up is counted in seconds. `StartupProbe` is one turn of `ensure_upstream_ready` for
the default profile (`first`: any of them), a probe of at most `ProbeTimeout` and then a
sleep or the end; `SoftProbe` is the probe of one other profile that `main` makes after it
(`src/main.rs:169`), in any order; `StartMonitor` is the rest of `main`. Whether
`upstream_probe_required` is set is a choice where it is read.

The loop follows, in rounds: `Tick` copies the targets (`targets_to_check`: each endpoint
of the wanted profiles once, in the order of its first profile). A probe is two steps.
`Connect` makes the TCP connection, within its time-out, or has failed. `ProbeReturns`
ends the probe, unless it hangs: the reads of the SOCKS5 and CONNECT handshakes have
neither a time-out nor keepalive (`src/proxy_connector.rs:502`, `:625`). `seen` is how the
endpoint has been since the connection was made; a probe that a change has overtaken may
return either result. `hung` says that the handshake waits for an answer that does not
come: the endpoint was silent when it began, or has been lost since, and may stay so when
the endpoint is back (`HungAfter`). `Judge` is what the loop does with a result
(`apply_probe_result`, the decision to report), `Notify` the return of
`telegram::notify`, `Sleep` the end of the round. The world changes at any time: an
endpoint is up, down, partly reachable (the proxy answers, a probe target does not) or
silent, and the panel replaces the registry. `run` records the results themselves,
`lastSent` and `suppressed` what the operator has been told. An age replaces
`last_notify`, and counters saturate at the larger threshold, so that only `MaxChanges`
bounds the behaviours.

Left out: message texts and the downtime in them, credentials of an endpoint.

## 3. Runs

Passing runs:

| Run | Instance | Shows |
|---|---|---|
| `limiter` | 1 key, 2 sessions (4 copy tasks), both limits, 1 midnight | `ConnectionsWithinLimit`; `OvershootBounded`: the byte counter passes its limit by at most one chunk per stopped copy task |
| `crash` | periodic saver, kill and restart around midnight | the file parses, restored counters stay within the limit, a failed flush keeps its mark |
| `stop` | both savers, stops and kills on one day | `GracefulStopSaves`: all that was counted before the stop is in the file; `NoPhantomUsage`; `FlushedCountsSurvive` |
| `relay` | 2 listeners, 3 clients, 2 permits, 2 candidates, 1 accept error | permits conserved, gauge exact and each connection accounted once (`MetricsExact`), one late accept at most, `SessionGate` implemented |
| `served` | 2 listeners, 3 permits, fair | with a permit per listener in reserve no client waits for ever |
| `stream` | 3 kinds of client, 3 of listener, 4 of upstream, heads of 3 and 5 pieces, buffer of 4, 2 pieces of body and of reply, 2 candidates, fair | both peers get each other's bytes in order without a gap (`StreamsInOrder`), an orderly end loses nothing, the extraction ends, a half-closed client still gets its answer, a session whose peers are done ends |
| `panel` | 2 requests of 7 kinds, 2 clients, a second spelling, 3 profiles, failing saves and commands; or 2 domain requests of 7 kinds, 2 domains, 3 files in 2 layouts | every client has a route whatever races (`RoutesResolve`); a change is lost only to a concurrent request for the same store; file and firewall follow the live values unless a named race or failure happened; secrets that a request leaves out are kept; the files hold what the requests asked for (`RulesFollowRequests`), other directives survive (`DirectivesPreserved`), dnsmasq runs with what is on disk however saves race (`RunningFollowsFiles`) |
| `monitor` | 4 profiles (one direct, two of one endpoint) of 2 endpoints, 2 registries, thresholds of 2, cooldown of 2 rounds, 3 changes, fair | start-up ends (`StartupEnds`) within the wait and one probe for each profile with a proxy (`StartupBounded`); endpoints go down and recover at exactly the threshold; the last alert is true unless suppressed; `HealthConverges` |
| `panel_db` | 3 lines of 5 kinds, 2 faults (rotation, restart, deletion, failed statement), map limit of 3; or 4 samples, queue and batch of 2, 2 days; fair | no line is skipped or handled twice (`LinesHandledOnce`), an answer is shown with a query of its domain and every line handled is shown (`RowsFitLines`); each session is counted once or known to be lost (`SamplesAccounted`), the two tables agree; both tasks catch up (`TasksCatchUp`) |

Some of these are conjunctions of named parts: `MetricsExact` of `GaugeExact` and
`EveryConnectionAccounted`, `StreamsInOrder` of `OriginGetsPrefix` and `ClientGetsPrefix`,
`LinesHandledOnce` of `NoLineSkipped` and `HandledOnce`, `RowsFitLines` of
`AnswersFitQueries` and `EveryLineShown`, `TasksCatchUp` of `CatchesUp` and
`TrafficDrains`, `ApiTypeOK` and `DbTypeOK` of the types of two modules. The type
invariants of `DomainLimiter` and `RelayService` are proved (section 4) and therefore not
part of a run.

Runs that TLC refutes. Each states a line of the repository and shows an
execution of the code that contradicts it:

| Run | Says | The code |
|---|---|---|
| `midnight` | "Maximum new connections per calendar day (UTC)." (`src/config.rs:105`) | the exchange of the day and the zeroing are separate; a connection admitted in between is erased and one too many is admitted |
| `shutdown_blocked` | "SIGINT / SIGTERM stops listeners cleanly" (`README.md:48`) | `accept()` is awaited inside the branch body; an idle listener never sees the signal |
| `dnsmasq_one_file` | "Rewrite relay + bypass files from the domain list" (`src/panel/dnsmasq_store.rs:203`), "Re-save current on-disk list" (`src/panel/api.rs:766`) | `detect_files` finds one file for both modes; the bypass write strips the relay rules just written, also in `/dnsmasq/apply` |

Several passing properties carry a condition because the code does not give them
without it:

* `StateFileParses` is claimed for the periodic saver alone. A flush that is running when
  `run` aborts its task overlaps the final persist on the same temporary file, and one of
  them renames the file the other has just truncated (`src/service.rs:188`); with both
  savers TLC refutes it, although `src/domain_limiter.rs:238` says "atomic rename".
* `UnracedFlushSaves` excludes a counter that moved during the flush: the dirty
  mark is cleared after the rename (`src/domain_limiter.rs:260`), so that a
  connection counted after the snapshot loses its mark.
* `FlushedCountsSurvive` excludes the graceful stop: a flush that is still running
  may rename its older snapshot over the final one (`src/service.rs:188`).
* `NoPhantomUsage` is checked within one day: a snapshot in the middle of a reset
  saves yesterday's count under today's date (`src/domain_limiter.rs:88`).
* `ServedBelowReserve` asks for a permit per listener in reserve: the permit is
  taken before `accept()` (`src/service.rs:294`), so that an idle listener keeps
  one that another listener needs.
* `OriginGetsPrefix` asks less of a CONNECT: what follows the first read is forwarded
  without a gap. The request is answered at its first read, complete or not
  (`src/service.rs:722`); the rest of a head that comes in two reads goes into the tunnel,
  and bytes read behind a complete head are dropped, although `src/service.rs:732` says
  that the ClientHello is forwarded directly.
* `ClientGetsPrefix` excludes an origin that speaks first behind an HTTP proxy:
  `http_connect` drops what it reads behind the response head
  (`src/proxy_connector.rs:632`).
* `SessionEnds` asks both peers to finish: `rw_timeout` is not used
  (`src/service.rs:910`), so that a silent peer keeps its session and permit.
* `ExtractionEnds` begins after `Detect`: the `peek` of an auto listener has no
  time-out (`src/service.rs:758`).
* `NoLostChange` and `SecretsKept` exclude two requests for the same store at a time:
  handlers copy, change and write back without holding the lock
  (`src/panel/api.rs:1152`), and `put_hosts` writes two locks one after the other.
* `FileIsLive` excludes overlapping saves, also of different stores (the file is
  read, changed and rewritten without a lock, `src/panel/api.rs:1014`), a half
  written file (`fs::write` truncates in place; no later save can parse it), and a
  store whose last save failed.
* `UfwFollowsAcl` excludes a failed command (the list is changed all the same, so that
  a retry finds no difference), changes made with sync off, and a DELETE that spells
  the address differently from `ufw status` (`src/panel/api.rs:1513`).
* `RulesFollowRequests` excludes saves that overlap, fail half way or cannot read a file,
  until the next PUT of the whole list; and its run starts with layouts in which the two
  modes have different files (`dnsmasq_one_file` shows the other). "What the requests ask
  for" has bypass winning: POST or import of a relay rule for a bypassed domain is
  answered with `ok` and changes nothing.
* `DirectivesPreserved` excludes overlapping saves, a half-written file, and a file that
  cannot be read, which `write_managed_file` takes for an empty one
  (`src/panel/dnsmasq_store.rs:263`). Lines that begin with `address=/`, or with `server=/`
  and end with `/#`, are no "other directives": every save removes them from every file,
  also those that are no rules to `load_domains` and that the panel therefore never shows
  (`src/panel/dnsmasq_store.rs:302`).
* `RunningFollowsFiles` excludes a failed save or reload until the next one succeeds, and
  is about reload commands that work (section 2).
* `NoLineSkipped` excludes a new file that is already as long as the offset into the old
  one: only a shorter file counts as new (`src/panel/dnsmasq_query_log.rs:64`).
* `HandledOnce` excludes restarts (the offset is saved after the rows) and a file that
  changes between the stat and the read: the read goes to the end, the offset to the
  length before (`src/panel/dnsmasq_query_log.rs:76`).
* `CatchesUp` excludes a line that is not UTF-8: `read_to_string` fails at the same offset
  every second until the file is rotated (`src/panel/dnsmasq_query_log.rs:75`).
* `AnswersFitQueries` says that the domains agree, not the clients: answer lines name no
  client. It rests on AUTOINCREMENT (`src/panel/db.rs:98`).
* `EveryLineShown` excludes failed statements and deleted rows; `SamplesAccounted` counts
  what a full queue drops, a failed batch loses and the end of the process forgets.
* `HealthConverges` asks that no probe hangs for ever. `connect` has no time-out for the
  handshake (`src/proxy_connector.rs:502`), so that a proxy that accepts and is silent, or
  whose host is lost in the middle of a handshake, stops the monitoring of all endpoints
  (`src/upstream_monitor.rs:331`): in the second case for good, also when the proxy is
  back. `src/config.rs:429` calls the setting "Per-probe timeout (default 10s) — CONNECT +
  TLS/HTTP reply."
* `AlertMatchesHealth` excludes transitions within the cooldown: they are never
  reported later, and a DOWN alert also mutes the RECOVERED one
  (`src/upstream_monitor.rs:107`).

For the same reasons the passing persistence runs are split: `crash` has only the
periodic saver, `stop` has both on one day.

Bounds. The races are between two calls on one key, so one key suffices; two sessions let one
call lose its exchange to the other and four copy tasks add at once. One midnight (`LastDay = 1`) gives a reset, a stale
`today` and a second reset; one stop (`MaxStops = 1`) gives a crash at every
instant and a restart. Two listeners and two permits let both wait in the queue
and both hold a permit; three clients fill the sessions and leave one in a
backlog. `MaxAccepted` bounds the monotone counters and `MaxAcceptErrors` the
retries of `accept()`. In `SessionStream` a body and a reply of two pieces let one
part of each be read with what precedes it and the other be spliced. In
`PanelStore` two requests (`MaxRequests = 2`) give every race of two handlers, a save
that fails followed by one that succeeds, and a change after a change of another
store; the conditions of the properties single out exactly these. In
`UpstreamMonitor` three changes (`MaxChanges = 3`) take an endpoint down, up and down
again within a cooldown, lose it in a handshake and bring it back, or change the registry
around an outage. In `DnsmasqStore`
two requests (`MaxDomainRequests = 2`) give every race of two saves, and a save after one
that failed; three files let one be cleaned besides the two that are written. In
`DnsQueryLog` three lines (`MaxLines`) are two queries and an answer, or a file that grows
past an old offset again; two faults (`MaxFaults`) are a rotation and a restart, or a
deletion while an id waits; `MaxPending = 3` is passed by two waiting queries. In
`TrafficAggregator` a queue and a batch of two (`Capacity`, `BatchSize`) are both filled
by four samples (`MaxSamples`); `LastFlushDay = 1` puts a midnight between two batches.
Sessions, clients and requests are symmetric in the safety runs; no symmetry is used with
liveness.

Deadlock is not checked: the models stop where the system does (all clients gone
and the bound on accepts reached, `run` returned, the bound on stops, panel requests, log lines or
samples reached, the start-up has failed).

Fairness. In `RelayService`,
weak fairness of the listener tasks, of `run`, and of the stages that wait for
nobody (ACL, limiter, candidates). None for peek, resolve (a DNS lookup),
connect, replay and splice, which wait for a peer. In `SessionStream`, weak
fairness of the extraction (its reads have time-outs), of the copy tasks and of the
join: a peer that has not reset its connection is assumed to read what is written
to it; nothing is assumed of what peers send, nor of the handshake. In `UpstreamMonitor`,
weak fairness of the one task; the return of a probe that hangs is not enabled, hence
not assumed. In `DnsQueryLog`, weak fairness of the ingest task (a timer, and
steps that wait for nobody); in `TrafficAggregator`, of each branch of the task: a sample in
the queue, a tick and the closed channel are all polled again and again (`select!` picks
among them at random). Nothing is assumed of dnsmasq, logrotate, requests or sessions.

## 4. Proofs

Each proof module has an invariant that is inductive, proves that it holds at first and
that every action keeps it (one step per action), and derives the properties from it. The
invariants were checked with TLC before they were proved.

`DomainLimiterProofs`, for every set of keys and sessions, all limits and any number of
midnights:

* `TypeCorrect`: `TypeOK` and `ControlOK` (the labels each kind of task can be
  at, and that a key has the limit which the step reads). Their conjunction
  `Inv` is inductive; `TypeOK` alone is not, because `CheckBandwidth` and
  `Increment` read `DailyConnections[Key(t)]` as a number.
* `ConnectionLimitHolds`: `ConnectionsWithinLimit`. Relative to `Inv` it is
  inductive: the exchange succeeds only when the counter equals the value that
  was compared with the limit, and every other write stores zero.
* `OvershootHolds`: `OvershootBounded`. The invariant counts the copy tasks that
  can no longer add (`Spent`). A task leaves `Spent` only when its session
  passes the bandwidth check, which it does only below the limit; and an add
  that takes the counter over the limit puts its own task into `Spent`.

`LimiterPersistenceProofs`, for any number of stops, crashes and restarts:

* `PersistTypeCorrect`, and `LimitSurvivesRestarts`: `ConnectionsWithinLimit` under
  `PersistSpec`. Everything that is on its way to a counter (snapshots, temporary file,
  state file) stays within the limit with it (`Within`), whatever the two savers do to
  each other's file.
* `StateFileSafe`: `StateFileParses` if there is one saver. A saver that runs alone finds
  its temporary file as it left it (`WriterOK`), so that the rename moves a complete text.
* `FlushSaves`: `UnracedFlushSaves`. While no counter moves, each saver carries the
  counters of memory, key by key, into snapshot, temporary file and state file (`Carried`,
  `FlushOK`), and the mark stays until it has.
* `NoPhantomHolds`, `FlushedSurvives` and `GracefulStopHolds` for one day (`LastDay = 0`):
  what travels to the state file lies between what it holds and what memory holds
  (`Between`, `KeptOK`), and the final persist carries what is due (`DueOK`). With a
  midnight the first of them is false: between the exchange of the day and the reset a
  saver reads the old count with the new date.

`RelayServiceProofs`, for every number of listeners, clients and permits:

* `TypeCorrect`, and `PermitsConserved`: `SlotsConserved`. It needs `QueueOK`
  (a listener waits in the queue at most once, is waiting, and is not granted)
  for the acquire that `select!` drops, and `BacklogOK` (a pending connection is
  in one place of one backlog and has no session) for the accept, which would
  otherwise count a session twice.
* `GateImplemented`: the service implements `SessionGate`; a session that begins
  takes over a listener's permit, so that there was room for it.
* `MetricsCorrect`: `MetricsExact`; each stage moves one session between the sets that
  the counters count. `LateAcceptBounded`: `OneLateAccept`; a listener that has accepted
  after the signal is past the loop or sees the signal at the head of the next turn.

`SessionStreamProofs`, for streams, heads and buffers of every length: `TypeCorrect`,
`StreamsCorrect` (`StreamsInOrder`) and `OrderlyEndCorrect` (`OrderlyEndDeliversAll`). The
invariant `UpAt(k, m)` says that the origin has the pieces after `k` up to `m` and that
flight, overflow or the chunk of the copy task go on from there to the last piece read;
`DownAt` says the same of the answer, and `HandshakeOK` that no piece of the origin is
read with the handshake (but for an origin that speaks first behind an HTTP proxy).

`UpstreamMonitorProofs`, for every registry, threshold, cooldown and time limit:
`TypeCorrect`, `StartupWithinLimit` (`StartupBounded`, from `StartupOK`: the wait is not
over while the loop of the default profile goes on, and what is left of the bound then
pays one probe for each profile still to come), `HealthCorrect`
(`HealthFollowsRuns`, from `RunsOK`: the counter that decides on the next transition is
the length of the current run, below its threshold) and `AlertsCorrect`
(`AlertMatchesHealth`, from `AlertOK`: the message on its way is about the endpoint at
hand, which counts as suppressed until the message has arrived). `TargetsSeq` shows that
`targets_to_check` returns every wanted endpoint exactly once.

`PanelStoreProofs`, for any number of requests, profiles and addresses:

* `TypeCorrect`, and `RoutesAlwaysResolve`: `RoutesResolve`. Every registry that is live,
  saved or on its way (`Sound`) names only profiles it has; `Candidates` shows what
  `connect_candidates` makes of such a registry.
* `ChangesKept`: `NoLostChange`, from `AloneOK`: in a store that has not seen a race, one
  request is under way at most and its copy is of the live value; `HostsOK` adds the two
  tables of `put_hosts`.
* `FileFollows`: `FileIsLive`, from `FileOK`: while no two saves overlap, the document that
  a handler has read holds every store that is not its own as the file does, and after
  its write the file holds its own store too.
* `FirewallFollows`: `UfwFollowsAcl`, from `UfwOK`: the firewall holds the live
  whitelist, or the copy of the one request that has run its commands. `UfwCommands` shows
  that the commands lead from one to the other.
* `SecretsAreKept`: the action property `SecretsKept`.

`PanelApiProofs`, for any number of domain requests, domains and files:

* `DnsTypeCorrect`; `RunningCorrect`: `RunningFollowsFiles` is inductive with the types;
  a handler that has touched a file is not idle before it has reloaded or failed.
* `DirectivesCorrect`: `DirectivesPreserved`, from `DirectivesOK`: while no saves have
  overlapped one handler saves at a time, and the directives of a file are in the file or
  in the text that is about to be written, never in both.
* `RulesCorrect`: `RulesFollowRequests` if the relay file and the bypass file are configured
  and differ. `RequestsOK` says what a save that no other one has met has done so far
  (`SaveState`), and that its list is the one that the requests ask for. `EditedFor` is the
  lemma about the operators: what the code's list edits make of the wanted rules is what
  `Intended` says, and for a PUT of the whole list whatever was there before, which is why
  such a PUT repairs a damaged directory. The hypothesis is needed:
  `dnsmasq_one_file` refutes the property where the detection finds one file for both.
* `ApiTypeCorrect` and `PanelCorrect`: the properties above for the panel as a whole.

`PanelDbProofs`, for logs, queues and batches of any length and any number of rotations,
restarts, deletions and failed statements:

* `DbTypeCorrect`, and `LinesCorrect`: `LinesHandledOnce`. `FileOK` says that the file
  holds the last lines that were written, in order, and `TaskOK` that the buffer holds
  consecutive ones. Nothing is skipped because an offset into the file as it is now has
  only handled lines before it, or lines that are in the buffer (`SavedOK`, `OffsetOK`).
  Nothing is handled twice because, without a restart and a change of the file between
  stat and read, what the task has in its buffer or will still read was written after all
  that was handled (`OrderOK`).
* `RowsCorrect`: `RowsFitLines`, from `TableOK` (ids are given out once, so that an id
  which waits names a query with its key or a row that is gone) and `ShownOK` (without
  failures and deletions no id is missing and what waits has no answer yet).
* `SamplesCorrect`: `SamplesAccounted`. The stored samples are a sum over the days, which
  the community modules compute by a recursive function over sets. `SetInduction` is
  induction over the numbers for a set (in place of a predicate), from the theorem that a
  well-founded relation has minimal elements; with it, over the size of a set of days, the
  sum exists, is a number no smaller than its terms, and grows by as much as one term does
  (`SumExists`, `SumType`, `DayBelowSum`, `SumAdds`).

The assumptions are those of the components (`LimiterAssumption`, `PersistenceAssumption`,
`RelayAssumption`, `StreamAssumption`, `MonitorAssumption`, `PanelAssumption`,
`DnsmasqAssumption`, `LogAssumption`, `TrafficAssumption`): types of the constants, finite sets where something is counted,
markers such as `Unparsable` or `NoFile` that are no contents of a file, a sound
configuration at the start. TLC evaluates them in every run.

Only model-checked: liveness (`ServedBelowReserve`, `ExtractionEnds`,
`AnswerAfterHalfClose`, `SessionEnds`, `StartupEnds`, `HealthConverges`, `TasksCatchUp`),
which is out of the prover's reach under fairness; and `RulesFollowRequests` with detected
files.

## 5. Plan

1. All modules of section 2 and their runs: done.
2. Proofs about the limiter, its state file, the service, a session, the monitor, the
   panel and its database: done. Every invariant and action property that a passing run
   checks is stated by a theorem; what is left to TLC is liveness.
3. Pure operators against reference definitions: `resolve_limit_key`, hosts
   lookup, `effective_connection_limit`, record lengths of the SNI parser; the metrics
   refresh.

Not modelled: panel sessions and the SQLite list of domains (single SQL statements under
one mutex; only `change_password` checks and sets in two), the read-only handlers.

Not modelled for good: the panel's front end, container and dashboard files,
logging, command line and configuration parsing (sequential, before anything
runs), TLS and HTTP byte parsing (unit tests cover it), the operating system's
write-back after a power failure.
