# A verification project for zapret-discord-youtube-linux

The repository runs two long-lived services on a user's machine: `zapret-linux`, a set of shell
scripts that put `nfqws` behind NFQUEUE firewall rules, and `zapret-tg-proxy`, a Python process that
carries Telegram clients over WebSockets. This directory models them in TLA+, model-checks the models
with TLC and proves their safety properties with TLAPS.

* To check a module: `tlc -config MCWsPool.cfg MCWsPool` (each `.cfg` below names its module).
* To check the proofs: `tlapm WsPoolProofs.tla`, and the same for each other `...Proofs` module.
* `PROJECT.json` holds the list of runs, the lines of code each definition stands for, a wrong variant
  of the code for each property (`Bug...` in the modules), the hazards and the findings.

Paths below are relative to `src/`; `proxy/` stands for
`services/tg-ws-proxy/tg_ws_proxy_vendor/proxy/`.

## 1. The system

```
 zapret-cli ──systemctl──> systemd: zapret-linux.service ──> scripts/zapret-run.sh ─exec─> nfqws
     │   \                       └─ ExecStop= ──┐                  │        │
     │    \── scripts/zapret-hosts.sh           ├─> scripts/zapret-stop.sh  └─> iptables
     │                │   ^                     │          │
     │                v   └─────────────────────┴──────────┘
     │       /etc/hosts, nsswitch.conf
     ├──cp──> current_strategy.conf, .no_hosts
     └──systemctl──> zapret-tg-proxy.service ──> tgproxy.py serve
                                                   main thread │ daemon thread: asyncio loop
                                                               │   _run: listener, warmup
 Telegram client ──> _handle_client ──> pool / WebSocket / CF proxy / TCP ──> bridge ──> Telegram
```

| Component | State | Operations | What is hard |
|---|---|---|---|
| Service scripts (`scripts/zapret-run.sh`, `zapret-stop.sh`, `systemd/`) | the unit, the NFQUEUE rules, nfqws, `current_strategy.conf`, `.no_hosts` | start, clean up, exec, crash, restart after 3 s, ExecStop | `Type=simple`: `systemctl` returns while the script still runs, so every later command races with it; the same clean-up runs in three places; iptables may fail at every place and is not asked twice |
| `zapret-cli` | the strategy file, `.no_hosts` | start, stop, restart, switch, hosts on/off; test, tg, ipv6, update-lists | it writes the file the script rewrites; several commands in a row |
| Hosts script (`scripts/zapret-hosts.sh`) | `/etc/hosts`, `nsswitch.conf` | apply, remove | no lock; called by four programs; killed half way; `sed -i` renames |
| Proxy process (`services/tg-ws-proxy/tgproxy.py`) | thread, loop, two threading events, `_last_error`, the ready file | start, stop, serve, `_thread_main`, `_run_flowseal_proxy` | two threads and unlocked attributes; waits with timeouts |
| Handlers (`proxy/tg_ws_proxy.py`, `bridge.py: do_fallback`) | stage of each client, `ws_blacklist`, `dc_fail_until`, `stats` | accept, handshake, pool or connect per domain, fallback methods, finally | every await is a switch to another handler that shares the maps |
| Pool (`_WsPool`) | `_idle`, `_refilling`, connect and close tasks | get, `_schedule_refill`, `_refill`, warmup | what is missing is computed once and filled after several awaits |
| Bridge (`bridge.py`, `raw_websocket.py`) | buffers of `MsgSplitter`, `_closed`, two tasks | `tcp_to_ws`, `ws_to_tcp`, split, flush, send, recv, close | bytes must arrive in order for the cipher, two tasks write to one socket, either may end first |
| CF domains (`balancer.py`, `config.py`) | `domains`, `_dc_to_domain`, a generator per attempt | refresh (own thread), iterate, update | a thread beside the loop, no lock; a generator reads the map before a connect and the list after it |
| `zapret-cli test` | the copy of the strategy file, the row of strategies, the trap | try each, pick, restore, Ctrl-C | it writes the file the service it restarts writes, and may be interrupted between any two commands |
| Secrets (`tgproxy.py`, `zapret-cli tg`) | `.secret`, `secret.txt` | load or create, collect, print the link | two programs, two files, two rules of what is a secret |
| Keys and framing (`tg_ws_proxy.py`, `raw_websocket.py`, `fake_tls.py`) | none of its own | handshake, `_build_crypto_ctx`, frames, records, hellos | four parties must agree on keys, places and lengths |
| Strategies, installation | files | see section 8 | |

What makes each part correct, in a sentence:

* *Service*: the firewall has exactly the rules of the running nfqws, a reported stop leaves nothing
  (both but for what iptables could not delete), the running strategy is the file's, and a service that
  should be up comes up.
* *Hosts*: a whole block or none, no line of the user lost, and what the script does leave is known.
* *Process*: "ready" means listening, stop closes the listener and ends.
* *Handlers*: one upstream each, a key blacklisted only for cause, nothing given up before everything
  was tried, true counters, no handler stuck before its bridge unless a peer keeps it there.
* *Pool*: bounded, one refill a key, each connection with one owner, no stale connection handed out.
* *Bridge*: bytes in order, frames that are packets, nothing lost at a clean end, nothing after CLOSE,
  no half-dead bridge.
* *CF domains*: an attempt tries each domain once and skips none, and a domain that works stays the first.
* *Test*: the user's strategy is back afterwards, wherever it was interrupted.
* *Secrets*: a restart does not change the secret, and the printed link works.
* *Keys and framing*: what one end puts in, the other reads, byte for byte.

The deployed process (`tgproxy.py:181-193`) sets `dc_redirects = {}`: it never opens a WebSocket of its
own or uses the pool, and each client goes straight to `do_fallback`. The default of the vendored
configuration is `{2, 4}`. The models have the set as a constant and check the richer case; the runs
include keys on both sides.

## 2. Modules

| Module | Models | Extended by |
|---|---|---|
| `WsPool` | `_WsPool` during one run of `_run` | `MCWsPool`, `WsPoolProofs` |
| `ConnLedger` | abstract: what the pool promises about one connection | `WsPool` (INSTANCE) |
| `ClientHandler` | `_handle_client`, `do_fallback`, the shared maps and counters | `MCClientHandler`, `ClientHandlerProofs` |
| `Bridge` | `MsgSplitter`, both bridges, `FakeTlsStream`, send, recv and close of `RawWebSocket` | `Session`, `BridgeProofs` |
| `Obfuscation` | which key and place each cipher of a session starts with (operators) | `Session` |
| `Frames` | WebSocket headers and mask, TLS records (operators) | `Session` |
| `FakeTls` | the client's and the server's hello of FakeTLS (operators) | `Session` |
| `Session` | composition: the bridge and the three byte layers under it | `MCBridge`, `SessionProofs` |
| `TgProxyController` | `serve`, `TelegramProxyController`, the life of `_run`'s listener | `MCTgProxyController` |
| `CfDomains` | `_Balancer`, the refresh thread, the attempts of `_cfproxy_fallback` | `TgProcess`, `CfDomainsProofs` |
| `TgProcess` | composition: one process with the main thread, the loop, the refresh thread and the handlers' attempts | `MCTgProcess`, `TgProcessProofs` |
| `TgSecret` | the secret files, the service and `zapret-cli tg start` (operators) | `TgProcess` |
| `ZapretService` | the unit, its scripts and one user of `zapret-cli` | `MCZapretService`, `StrategyTest` |
| `StrategyTest` | `zapret-cli test` on top of it, with Ctrl-C | `MCStrategyTest`, `ZapretServiceProofs` |
| `HostsFile` | `zapret-hosts.sh` on the level of single commands | `MCHostsFile`, `HostsFileProofs` |

The modules abstract from one another at these seams. `ClientHandler` takes the pool as a hit or a
miss, which is what `get` returns in `WsPool`, and a bridge as a wait that may end. `ZapretService`
has the hosts entries as there or not; how the file gets there is `HostsFile`. `TgProxyController`
has clients only as "somebody is connected", which is what `wait_closed` can see of them. `TgProcess`
puts `CfDomains` into it: the refresh starts inside the step that starts `_run`, a handler begins while
its client is there and moves while the loop runs, a client's connection stays until its handler is through,
and the refresh thread, a daemon, runs as long as the process is alive.

In all Python modules one action is the code between two awaits (one asyncio loop) or, in
`TgProxyController`, the code between two accesses to state the other thread uses.

### WsPool and ConnLedger
`idle` is `_idle`, `refilling` is `_refilling`, `refill` and `tasks` are the `_refill` coroutine of a key
and the connect tasks it has still to await, `sock` is what is behind each connection, `lent` and
`closing` are the connections clients hold and `_quiet_close` tasks close.
`GetHit`/`GetMiss` are `get` with the loop that throws stale connections out, `RefillStart` is `_refill`
up to its first await, `RefillAwait` one turn of its loop with the finally clause after the last,
`Connected` the end of a `_connect_one`, which may also never come: `raw_websocket.py:109-111` bounds each line
of the answer and not their number, and `close` (191-205) waits without a bound (`MaxClosing` closes at once). `Spoil` is the environment: a connection grows older than
`WS_POOL_MAX_AGE` or is closed by Telegram, pooled or still in a finished task.
`ConnLedger` knows nothing of keys, deques or tasks. It lists the edges of a connection's life; the
mapping reads the stage of a connection off the pool (`Stage`), and each step must follow an edge for
every connection or leave it. There is no edge from `spoiled` to `lent`, and none back from `lent` to
`pooled`.

### ClientHandler
`pc[c]` names the await a handler is in. `Handshake` covers everything from the parsed handshake to the
first await behind it (lookup in the blacklist, `now`, the timeout, the pool). `WsLine` is one more line
of the HTTP answer, each with a timeout of its own, as `raw_websocket.py` has it; `WsRefused` is the end of
one domain's attempt with the flags, and after the last domain `WsFailed` is what the failures mean for
the key. `Fallback` is the loop of `do_fallback`. `Finish` is the finally clause. `Cancelled` is the
cancellation at shutdown. Time is a clock that may not pass the deadline of a pending connect.
`seen`, `route`, `relayed` and `fell` are history: no guard reads them, but for the number of attempts
made, which is the loop's own index.

### Bridge
A byte is its place in the client's stream. Telegram decrypts by counting, so the ciphers are in step
exactly when the places arrive as 1, 2, 3, ... Lengths are scaled (a header of one or two units, the mark
0x7F is `Long`), both transport formats are there. `Read(n)` is one turn of `tcp_to_ws` with a chunk of any
size, `Eof` its end with `flush`, `Recv...` the branches of `recv`, `FirstCompleted` the
`asyncio.wait` with the cancellations, `Close` the finally clause. `ClientEnds` and `TelegramEnds` are
the environment. `Starts`, in the properties, is an independent definition of where packets begin in
the whole stream (the least set with 0 in it and, with a packet's begin, its end), against which the incremental
splitter is compared. With FakeTLS, `conf.records` is how
the client cut its stream: `InRecord` keeps a read inside its record, `Stops` are the records `read` takes
for the end, and the end of the connection is `b''` inside a record and an exception between two.

### Obfuscation, Frames, FakeTls
Operators without state: what the three byte layers compute, next to what the other end does. A byte is a
set of atoms under exclusive or, so that data decrypted with the wrong key, or at the wrong place in the
keystream, has atoms left over; AES, SHA-256 and HMAC are free functions. The fields of the 64 bytes are one or
two bytes long, which still tells the key from its reverse. `CiphersAgree`, `FramesRoundTrip` and
`HellosAgree` compare both ends over every input of the bounded sets; `Session` puts them beside the bridge.

### CfDomains and TgProcess
A list is how often it has each domain, since the code only shuffles it, draws from it and compares it as a
Counter. `Refresh` assigns `domains` and `Refill` `_dc_to_domain`, one after the other as the thread does.
`Begin` is the generator up to its first yield (it reads the map), `Yield` the rest (it copies the list at
its first turn, after the first connect has failed: `Rest`). `tried`, `throughout` and `mapped` are history.

### TgSecret
A file is missing, no secret, or a secret with its `dd` and its case. `LoadOrCreateSecret` and
`CollectAllSecrets` are the service's two ways to read the files, `Fill` and `TgStart` those of `zapret-cli`.

### TgProxyController
`main`, `worker`, `poll` and `run` are the places of the main thread, `_thread_main`,
`_run_flowseal_proxy` and the task of `_run`. Waits with a timeout may run out at any moment at which what
they wait for has not happened: nothing relates eight seconds to the speed of the other thread.

### ZapretService
`main` is the line of `zapret-run.sh` up to `nfqws`, `clean` the place of each of three possible runs of
`zapret-stop.sh`, `unit` and `goal` what systemd holds. systemd is external and modelled as its
documentation has `Type=simple`, `Restart=always`, `ExecStop=` and the kill of the control group; whether
`ExecStop=` runs after a main process that died is left open, so that both cases are covered. `cp` is two
steps (truncate, fill), `sed -i` too (read, rename). iptables may fail, `-I` (the protocol goes into `failed`) as well
as `-D` and `-S` (`CleanRules` leaves rules, the protocol goes into `undeleted`), `MaxFails` times in all. `lacks` says
what the installation has not got: without nfqws, or with no strategy to load, `zapret-run.sh` exits (`RunExits`),
and `Restart=always` tries for ever, as the unit file sets no start limit.

### StrategyTest
`role` says what the `cp` under way is for: to try a strategy, to apply the one picked, to restore, or to
restore after Ctrl-C; `test <strategy>` (`single`) differs from `test all` in that a strategy that is kept stays
where it is, without a `cp` and a restart. `TestInterrupt` may come before every step of a test, also in the middle of a
`cp` or a restart and between the `rm` of the copy and the `trap -` behind it (`kept`), and goes on with the trap. `original` and `raced` are history; everything of `ZapretService`
happens beside a test (`Other`), but other commands wait, as the user has one terminal.

### HostsFile
The file is a sequence of lines of five kinds, the empty line that `zapret-hosts.sh:72` writes before each block among
them. Every grep, read, rename and write of a process is a step; a process that has the old file open after a rename
writes to a file nobody reads (`attached`). Empty lists write nothing (`NoEntries`). `nsswitch.conf` has the text the
two seds look for, the one they make of it, or neither, and only the exact text is changed.

## 3. Runs

| Run | Configuration | Distinct states | Expectation |
|---|---|---|---|
| `pool` | `MCWsPool.cfg` | 26,204 | holds |
| `handler` | `MCClientHandler.cfg` | 450,459 | holds |
| `handler_cooldown` | `MCClientHandlerCooldown.cfg` | | `CooldownAhead` violated |
| `bridge` | `MCBridge.cfg` | 576,938 | holds |
| `controller` | `MCTgProcess.cfg` | 316,896 | holds |
| `controller_ready` | `MCTgProxyControllerReady.cfg` | | `ReadyMeansListening` violated |
| `service` | `MCStrategyTest.cfg` | 1,761,885 | holds |
| `service_hosts_on_start` | `MCZapretServiceHosts.cfg` | | `HostsConnected` violated |
| `service_switch_lost` | `MCZapretServiceSwitch.cfg` | | `SwitchTakes` violated |
| `hosts` | `MCHostsFile.cfg` | 133,979 | holds |
| `hosts_two_applies` | `MCHostsFileTwo.cfg` | | `BlockGone` violated |
| `hosts_torn_block` | `MCHostsFileKilled.cfg` | | `UserLinesKept` violated |

**pool.** One key, pool size 2, five connection names, one lent and two closes at a time. Keys share no variable but
the event loop, so a second key only multiplies the states; that it changes nothing about `PoolBound` and
`RefillExclusive` is proved for every set of keys. Two connections in a bucket and two tasks in a refill
are enough for a get to empty the bucket in the middle of a refill, for a stale connection to stand
before or behind a good one, and for a refill to end with some connects failed. Shows: never more than
`pool_size` (`PoolBound`), marker and coroutine together (`RefillExclusive`), no connection in two places
and none forgotten (`OneOwner`), the ledger (`LedgerSpec`), and every refill ends of which no connect hangs
for ever (`RefillEnds`).

**handler.** Two clients and two keys, one with a WebSocket and one without, CF first with TCP behind,
timeouts of 1 and 0 and a clock up to 2. Two clients are enough for one to meet what the other left in
`ws_blacklist` or `dc_fail_until` while it is itself half way; a third adds no kind of encounter, since
all sharing is through these two maps and sums. Every order of the fallback and every number of
clients is covered by the proofs; the type invariant is proved and not checked by the run.
The clock's bound ends the ticking, not the handlers. Shows: the counters of the log line are exact at
every moment (`StatsAgree`), one upstream (`OneUpstream`), blacklist only after a redirect from both
domains of one client (`BlacklistJustified`), nothing given up early (`GivesUpAfterAll`), no failure that takes a
handler back to what it has tried (`SetupBounded`), every handler reaches its bridge or its end, unless a peer
sends it lines of an HTTP answer without end (`SetupEnds`).

**bridge.** Four streams of three or four units and two answers, both formats, with and without splitter
and FakeTLS, WebSocket and TCP. The streams have packets back to back, a long header, one that ends in
the middle, a length of zero at once and later; since a chunk has any size, every cut of each stream is
tried. Three frames cover a ping before data and a CLOSE behind it. Both ends end in any way at any
moment, and the handler may be cancelled. Shows: bytes reach Telegram as 1, 2, 3, ... (`UpInOrder`), a frame
is a packet and no whole packet waits (`WholePackets`), a clean end of a plain client loses nothing
(`UpComplete`), answers arrive in order and complete up to the end or CLOSE (`DownComplete`), no frame follows
a CLOSE (`NothingAfterClose`), and the bridge ends with either side unless a live peer that reads nothing holds it in a
`drain` or a close (`EndsTogether`). With FakeTLS the end of the
stream is where `read` finds one: inside a record, at an alert or an empty record. A client that ends
between two records makes `readexactly` raise and the task ends without `flush` (`fake_tls.py:167`), so that
`UpComplete` does not speak of it; answers on their way when the other direction ends first are dropped by
the cancellation, which is why `DownComplete` has its condition. Three layouts of records cover an end between
two records, inside one, and an alert before or behind the end of the stream.
The run also checks the byte layers under the bridge, before anything is carried, as they depend on no
variable: a client with any of two secrets gets a session in which proxy, client and Telegram agree on every
cipher, one with another secret none (`CiphersInStep`); frame lengths on both sides of 126 and 65536, masks of
payloads of all these lengths, records on both sides of 16384 (`FramesInStep`); clocks at and one second beyond 120 on both
sides, two secrets, a changed hello (`HellosInStep`).

**controller.** One process: main thread, event loop, refresh thread, two handlers of any of two data centres, one of
which the map is not filled for, two domains. Binding may fail or last, clients may stay for ever, and
`wait_closed` waits for them as it does since Python 3.12. A fetch fails or brings a list with one domain
missing and the other one twice. Two domains and two handlers are enough for a list to change between the
two reads of one attempt, and for one handler to write the map while another is half way. A list that grows
is covered by the proofs only. Shows: a joined stop has closed the listener
(`StopClosesListener`), Ctrl-C ends the process all the same (`StopEnds`), `_started` is set on
every path (`StartedIsSet`), an attempt tries no domain twice and, when it gives up, has tried at least one and
all that were listed from its beginning to its end (`EachTriedOnce`), and the map leaves a domain only for one
that has just worked or with a list that is another one (`WorkingDomainKept`). `SecretIsKept` looks, before
anything else runs, at every content of the two files, which of them can be written, and two starts in a row: a
restart keeps the secret, and the link `zapret-cli tg start` prints works, at once if the files hold what the
program writes itself, and from the second start on whatever text they held.

**service.** Two strategies (so a switch can change something), three commands, one crash and one step in which
iptables fails, nfqws or the default strategy missing or not; a test counts for two commands, so that one more command
comes before or behind it. Two commands are enough for one to fall into the start another began; the third reads what
the two have left, and crash and failure may fall before, between and behind. A test tries one strategy or both, is
picked from or not, kept or not, and is interrupted once, anywhere or never. The safety properties are proved
without these bounds. Shows: `RulesExact`, `StopLeavesNothing` (both except for a protocol whose rules iptables
could not delete when it was last asked), `LoadedIsFile`, `HostsOffRespected`,
`TestRestores` (the strategy file is back after a test, or is the one picked or kept), `Recovers`, `CommandsEnd`.
`TestRestores` does not hold after a test that began without a strategy file, whose copy is empty, and
excludes a `sed -i` of a starting `zapret-run.sh` that overwrote a `cp`, which is finding 2.

**hosts.** The service applies while the user removes, five calls in all, two of them killed, two edits:
enough for a torn block to be left, met by an overlapping pair and cleaned by a later call, and for empty lines to
pile up. Shows: `AllOrNothing` and `EditsSurvive` for calls that overlap, `BlockGone`, `ApplyEffective` and
`OneLineMore` for a call that runs by itself, these three also after kills.

The six violation runs are small variants of these, one property each; section 6 says what they show.

`CHECK_DEADLOCK FALSE` stands where the system may rest: all clients served, the process ended, the user
out of commands. The pool never stops, and its run checks deadlock.

## 4. The properties, and what would break them

Each property has a `Bug...` variant of the code in its module that breaks it under the run's own
configuration; `PROJECT.json` lists the pairs. For instance: the test for `_refilling` dropped breaks
`RefillExclusive`; a refill that ignores what is there breaks `PoolBound`; an eviction without a close
breaks `OneOwner`; a counter decremented on two paths breaks `StatsAgree`; a failed send of a fallback
treated as a failure of the method breaks `OneUpstream`; a `do_fallback` that does not end after the last method breaks `SetupBounded`; a connect error that leaves `all_redirects`
breaks `BlacklistJustified`; a splitter that keeps what it has returned breaks `UpInOrder`, `<=` for `<`
in `_next_packet_len` breaks `WholePackets`, a missing flush breaks `UpComplete`, an end seen before the
data ahead of it breaks `DownComplete`, `_closed` set after the answer breaks `NothingAfterClose`, waiting
for both tasks breaks `EndsTogether`; a cipher that begins at `relay_init` and not behind it breaks
`CiphersInStep`, `<=` for `<` at 126 breaks `FramesInStep`, a clock tested on one side breaks `HellosInStep`; a generator
that skips the map's present entry instead of the one it began with breaks `EachTriedOnce`, a list replaced
unseen breaks `WorkingDomainKept`, a new secret that is not saved breaks `SecretIsKept`; a start without clean-up breaks `RulesExact`; a `zapret-cli stop`
that trusts systemctl breaks `StopLeavesNothing`; a trap that restarts without the copy breaks `TestRestores`.

## 5. Fairness

* `WsPool`: weak fairness of the refill coroutines, because the loop runs every ready task, and of nothing else:
  no connect and no close need end, since `raw_websocket.py` has a timeout for each line and each `send` and none for the
  whole. So `RefillEnds` leaves out the behaviours in which, from some moment on, a connect the refill awaits does not
  end. Clients owe nothing: they need never call `get` or return a connection.
* `ClientHandler`: weak fairness of `Progress(c)` for each handler, but for the step that reads one more line of an
  HTTP answer (`ReadsLines`): a peer that sends a line before each timeout can hold it there for ever
  (`raw_websocket.py:107-118`, and the same for a CF domain), and `SetupEnds` leaves that out, in words. The other awaits before
  the bridge have a `wait_for`, or are a drain of 64 bytes or a `wait_closed`, which end with the transport. A bridge need
  not end, a client need not come, the clock need not run.
* `Bridge`: weak fairness of both tasks, the waiter and the close, except while one of them waits for a live peer to
  read (`HeldUp`, `HeldDown`, `HeldClose`): `drain` has no timeout, and a peer that keeps its window closed owes
  nothing. `EndsTogether` leaves out the behaviours in which one is held like that for ever.
* `TgProxyController`: each thread is scheduled. While the main thread is in the wait of `start`, fairness
  asks nothing before `_started` is set, so `StartedIsSet` does not lean on the timeout. `TgProcess` adds nothing
  to this: neither GitHub nor a CF domain owes an answer.
* `ZapretService`: `zapret-run.sh`, systemd and a command once given make progress, each with the `zapret-stop.sh` it
  waits for; the user owes no command and nfqws no crash. In `StrategyTest` the loop of the test goes on by itself and the user
  answers the question at its end; nobody owes a Ctrl-C.
* `HostsFile`: no liveness property, no fairness.

## 6. Findings

1. **Hosts entries go on every start** (`service_hosts_on_start`). `zapret-run.sh:65` applies them, line 90
   calls `zapret-stop.sh`, whose lines 29-31 remove them. `README.md:104` promises they are connected by
   start and restart.
2. **A switch may be lost** (`service_switch_lost`). `zapret-run.sh:59` runs `sed -i` on
   `current_strategy.conf` at every start, after `systemctl` has returned; a `cp` of `zapret-cli switch`
   between its read and its rename is undone, and the service restarts with the old strategy.
3. **A cooldown that has already passed** (`handler_cooldown`). `tg_ws_proxy.py:482` adds
   `DC_FAIL_COOLDOWN` to a `now` read before the connects; two slow connects may take longer than that.
4. **Ready without a listener** (`controller_ready`). `_run_flowseal_proxy` sets `_started` (line 151) on the
   way of a failed bind, before `_last_error` and `_stopped`; a `start` that wakes in between returns, and
   `serve` writes its ready file and sleeps.
5. **Two applies interleave** (`hosts_two_applies`). `install.sh` runs one right after it has restarted the
   service, which runs another; of two interleaved blocks a remove deletes only up to the first END.
6. **A torn block takes the user's lines** (`hosts_torn_block`). Without END the `sed` range runs to the end
   of the file.

Beside these, `OneLineMore` holds of the code and differs from what `README.md:101` lets expect ("return the standard
`/etc/hosts`"): the empty line that `zapret-hosts.sh:72` writes stands before MARKER_START, where the range of line 47
does not reach. As every start of the service applies once and removes once, `/etc/hosts` grows by one line per start.

## 7. Proofs

| Theorem | For all | Argument |
|---|---|---|
| `WsPoolProofs`: `TypeCorrect`, `OneRefillPerKey`, `PoolIsBounded` | keys, connections, `PoolSize`, `MaxLent` and `MaxClosing` in Nat | `PoolInv` = types, `RefillExclusive`, `PoolBound` |
| `WsPoolProofs`: `ConnectionsHaveOneOwner`, `ImplementsLedger` (refinement) | the same | `OwnerInv` = `PoolInv`, `OneOwner`, `SocketsFit` |
| `ZapretServiceProofs`: `TypeCorrect`, `RulesAreExact`, `StopCleansUp`, `TestPutsBack`, `ServesTheFile`, `OffIsRespected` | strategies, bounds on commands, crashes and failures of iptables | `ServiceInv`, `TestInv`, `ConfigInv` |
| `CfDomainsProofs`: `DomainsTypeCorrect`, `TriesEachOnce`, `KeepsWorkingDomain` | handlers, data centres, domains, fetched lists (any length, any duplicates) | `DomainsInv` |
| `TgProcessProofs`: `TypeCorrect`, `ListenerIsClosed`, `ProcessTriesEachOnce`, `ProcessKeepsDomain`, `RestartKeepsSecret`, `ImplementsController` (refinement), `ReadyIsListening` | the same, any of the three switches of the controller, any text in the secret files and any new secrets | `ProcessInv` = types, `ControllerInv`, `RefreshFirst`, `DomainsInv`; `ReadyInv` |
| `ClientHandlerProofs`: `TypeCorrect`, `OneUpstreamEach`, `BlacklistIsJustified`, `GivesUpOnlyAfterAll`, `CountersAreTrue`, `SetupIsBounded` | clients, keys, timeouts in Nat, both settings of the fallback | `HandlerInv`, `GivesUp`, `CountInv`, `FewMethods` |
| `HostsFileProofs`: `LeavesAllOrNothing`, `KeepsUserLines`, `OnlyKillsLoseLines`, `RemoveTakesBlock`, `ApplyTakesEffect`, `EmptyLinesStay` | calls at once of which only one may apply (`OneApplier`), bounds on calls, kills and edits | `FileInv` |
| `BridgeProofs`: `BridgeTypeCorrect`, `BytesArriveInOrder`, `FramesArePackets`, `CleanEndLosesNothing`, `RepliesArrive`, `CloseIsLast` | streams, TLS records, replies and chunks of any length, both packet formats, both kinds of upstream | `BridgeInv` |
| `SessionProofs`: `CiphersAreInStep`, `FramesAreInStep`, `HellosAreInStep` | secrets of the proxy (any list of them) and others, data centres, clocks, lengths of frames and records below 2^64 | equations; sums of bytes and of records by a least counterexample |

The assumptions are those the modules state about their constants (types, `Default \in Strategy`,
`Configured, HasDefaultIp \subseteq Key`, `LongestAssumption`: a length fits the eight bytes a header has for it, no secret of the proxy is one of the unknown ones, and `SecretsAreSecrets`: a
secret is 32 hex digits and so never the text that is none); TLC evaluates them in every run.

*WsPool.* `PoolBound` is not inductive by itself: a refill may add to what is there only because there is
no second one, and that only because marker and coroutine come and go together. With `RefillExclusive`
the three are inductive together. The work is in `RefillStart` (the number of tasks is exactly what is
missing) and `RefillAwait` (a task turns into a bucket entry or into nothing).

`OneOwner` needs `SocketsFit`, what `sock` may be in each place: a lent connection is open, one being closed is
stale, one in a bucket is open or stale. Otherwise a `connecting` one could be handed out. `StagesKnown` reads the stage of a
connection off its place, so that the refinement is one edge per connection and action (`Move`).

*ZapretService.* `RulesExact` depends on who may run beside whom. `Owners` says it: ExecStop only while the
unit deactivates, the script's clean-up only while the script waits for it, the command's clean-up only
while the unit is down. `RulesInv` gives the number of rules at each line of the start; it is conditional on
`unit = "active"` where ExecStop may take rules away, and speaks of the protocols that are not in `undeleted`: of those
the last removal left none (`CleanRulesLeaves`), and since then nothing but one insertion has touched them. `StopInv` follows the last clean-up step by step, and
`FileThere` keeps the type of what is sourced.

The theorems are about `TestSpec`, the service with a test beside the commands. `TestInv` says which roles a
place in the test may have and that the copy is the file as the test found it until it is removed, and that it
is removed only when nothing needs it: then the last `cp` decides what is in the file, unless `raced`.

`LoadedIsFile` and `HostsOffRespected` follow from `ConfigInv`. A command that writes the file is in the middle of it
until it has asked for a restart, and that leaves no unit active that was up before; so an active unit has sourced the
file after the last `cp` (`LoadedInv`). What a start adds to `/etc/hosts` is gone when its own clean-up is (`HostsInv`).

*CfDomains.* `EachTriedOnce` needs that the list names no domain twice, although a fetched one may (`ListInv`), and
what an attempt knows at each place (`AttemptOf`): until the generator has made its copy, only the domain it began with
can have been tried, and all that was listed throughout still is; afterwards each domain is in the copy or was tried,
never both. `WorkingDomainKept` needs `mapped`: outside the two steps of a refresh the map was filled from the
present list, and between them from one with another set of domains (`ListsDiffer`: two lists without
duplicates that differ as Counters differ as sets). `CfDomainsProofs` has this for `CfDomains` by itself.

*TgProcess.* `StopClosesListener` is a chain through the places of three actors (`ControllerInv`): joined means the
worker is dead, a worker behind the loop means that `_run` has failed or is done, and only a `_run` that serves or
closes has a listener or `_server_instance`. For the domains a step of the process is a step of `CfDomains`, the end of
all attempts (`LeaveStep`, for any set of handlers) or nothing; `Begin` needs that the refresh has been started, which
`RefreshFirst` reads off the worker's place. `ImplementsController` maps each step of the process to one of the controller
or to none; as the process asks the same fairness of it, the liveness TLC finds in `TgProxyController` is the process's.

`ReadyIsListening` is the other side of finding 4. Its hypotheses are that `BindMayFail` and `BindMayLast` are FALSE: then, as long
as stop has not been called, only the listener sets `_started`, and nothing closes the listener (`ReadyInv`). With either one TRUE TLC
finds `ReadyMeansListening` violated, so the theorem has the causes complete. `OnlyKillsLoseLines` does the same for finding 6.

`SecretIsKept` speaks of one start after another and of no step of the process: `LoadedSecret` has that what is used is
what was read from the first good file or drawn, and `WrittenIsUsable` that what was written is good. So a second load
finds it wherever the first one found or wrote it (`LoadsAgain`), whatever the files held before, and the file
`zapret-cli` makes its link of holds it from the second start on (`RestartsKeepSecret`).

*ClientHandler.* `OneUpstream` is inductive with the types once `HasMethod` is known (a handler in
`do_fallback` has a method to try). `BlacklistJustified` needs `Attempts`: while `all_redirects` holds, all
attempts so far were redirects, and a connecting handler has an attempt left; so that the witness of a
blacklisted key is complete when the key goes in and never changes again. `StepIsLocal` shows that a step
of one handler leaves the others' variables alone, which reduces the invariants to one handler.

`GivesUpAfterAll` needs `GivesUp`: in `do_fallback` each method is ahead or was in vain. `StatsAgree` is proved with finite
sets for any set of clients, also an endless one: `Books` says what a step does to the counters, and each counter moves with
its set (`Counted`), because a handler that is not yet counted has no route (`NotYet`).

`SetupBounded` is the part of `SetupEnds` that is not about fairness: `Ahead(c)` counts down. A refused connect is one domain
less, the first fallback method is fewer steps than the connect before it because there are two methods at most
(`FewMethods`), and each method in vain is one less. What remains for TLC is that some step of `Progress` is always enabled.

*HostsFile.* `OneApplier` is a hypothesis of the theorems and not of the module: two applies at once are what finding 5 is
about, and with them `BlockGone` and `AllOrNothing` are false. It holds when the service is the only one that applies. At every
moment the file is lines outside of a block, the first lines of a block, and lines outside of a block (`FileInv`, which reads
how many off the place of the one that applies, unless a rename has taken the file from under it). With kills, half a block
may stay; the next `sed` takes it and all that is behind it, so that a copy never has a marker or an entry. `WithoutLines` says
what `sed` leaves of such a file, and how many lines of each kind: the kept lines are numbered by how many are kept before
them, which is one to one (`RanksDiffer`), so that a kind has as many lines in the copy as it has among the kept ones
(`CountWithout`). `EmptyLinesStay` (for `OneLineMore`) and `KeepsUserLines` count with it.

*Bridge.* The properties speak of sets of bytes and of the least set of packet starts, the code of buffers and a loop;
`BridgeInv` ties both to two witnesses. The marks `m` say how many bytes of the client are behind each frame: `m[0] = 0`,
frame `i` holds the places `m[i-1] + 1` to `m[i]` (`Marks`), and until the task that sends has ended or the connection is lost, what is
behind the last mark is what the buffers hold (`InStep`). `SentByMarks` shows that `SentBy(i)`, which counts a union of
sets, is `m[i]`. The place `z` is the first where no packet begins: a length 0 or a packet the stream does not
hold to its end. Up to it the marks are cut by the packets (`Packets`); behind it nothing is claimed but order,
because a splitter that gave up sends chunks as they come. `Closing` has where `_closed` may be set and that only the last frame is a CLOSE, `Received` which replies were written, `Ends`
why a task may have ended; the last two carry `UpComplete` and `DownComplete` through the cancellations of `FIRST_COMPLETED`.

The loop in `Split` is a recursive function over the places of a buffer; `LoopIs` gives its equation, and `LoopCuts`
what it cuts, for a buffer of any length: of the places where the claim failed there would be a least distance to the
end (`NatMin`, from the well-foundedness of Nat), which the equation refutes. This takes the place of the library's induction rule.
`CutsAreStarts` and `StartsAreCuts` show in the same way that the marks up to `z` are exactly the elements of `Starts`.

*Session.* The ciphers are equations between sets of atoms. Two updates with ciphers of the same key and place cancel
(`UpdateTwice`), which gives both directions once `BuildCryptoCtx` is seen to start the four ciphers where the two ends
start theirs. That a client without one of the proxy's secrets is refused needs an atom that stays: its keystream and the
one the proxy tries have different keys, so that what the proxy decrypts is never one of the three tags (`HandshakeIs`).
The relay's 64 bytes hold the tag under the keystream of its own key, which its other bytes fix (`RelayInitIs`). The
fields keep the lengths the module gives them. `LetIn` says the same of a hello: an HMAC is that of one secret and one
hello, and the time is what is left when it is taken away.

`FramesInStep` has a number that is packed into bytes and read again, a mask that is repeated, and data cut into records.
`Packs` says that what was taken off a number byte by byte is put together again, for any number of bytes, if nothing is left at
the end; `HasRests` and `HasValues` say that both loops come to their end. Of the places where either failed there would be a least
one, which the equation of the loop refutes, as in *Bridge*. The mask's byte at a place is the key's at the remainder by four
(`KeyByteIs`), so that masking twice cancels (`MasksAgree`). The records follow from what the quotient of sizes is (`CountIs`).

*Only model-checked.* The liveness properties: `RefillEnds`, `SetupEnds`, `EndsTogether`, `StopEnds`,
`StartedIsSet`, `Recovers`, `CommandsEnd`. They rest on fairness and ENABLED, which the prover does not reason about here.

## 8. Not modelled

* **Strategies and game filter**: how `NFQWS_OPT` is cut and the port lists. The cut (`zapret-run.sh:68-74`) is one
  pattern substitution on a string, whose result depends on the text of each strategy and is nfqws's to judge.
* **install.sh, uninstall.sh**: what one adds and the other removes, each a straight line of commands. Their downloads
  and package managers are I/O; the one interaction that matters, with the hosts file, is in `HostsFile`.
* **start.sh in a terminal** beside the unit, and **two tests at once**: the models have one user with one terminal.
* **A closed terminal or a kill** in the middle of a test: no trap catches them, and nothing is promised.
* **A user's own CF domain** and a second start in one process: `tgproxy.py` never does either.
* **Cryptography proper, templates of hellos, the HTTP lines of a WebSocket upgrade**, the command line of the
  vendored proxy, which this repository does not use.
* **status, list, log, diag, menu, update-lists, ipv6**: they print, download, or call systemctl once.
* **nfqws, lists, binary payloads, systemd itself**: not code of the repository, or data.
* **Secret files that are not UTF-8**: `load_or_create_secret` then raises (`tgproxy.py:224`, `231`), and the process ends.
* **How long a hanging peer hangs**: one that sends nothing runs into a timeout, one that sends a line before each timeout does
  not, and the models bound the clock; both are a handler or a connect that may wait for ever.
* In `HostsFile`, `status` and `toggle`, and edits of other programs *during* a call: any `sed -i` on
  `/etc/hosts` loses those.

## 9. Plan

Done: `WsPool` with its ledger and proofs, `ZapretService` and `StrategyTest` with their proofs, `ClientHandler`
with its proofs, `Bridge` with its proofs, `Obfuscation`, `Frames` and `FakeTls` composed with it in `Session`, with their proofs, `TgProxyController` and `CfDomains` composed in
`TgProcess`, the proofs of both, `TgSecret`, `HostsFile` with its proofs. What is left:

1. Proofs: the safety parts of the two abstract specifications below, once they are stated.
2. Abstract specifications: the service as "up with a strategy, or down", implemented by `ZapretService`; the
   bridge as two queues, implemented by `Bridge`.
3. `ClientHandler` with the attempts of `CfDomains` in the place of its one step, so that the counters and the
   CF connections are seen together.
4. `ZapretService` with `start.sh` as a second actor.
