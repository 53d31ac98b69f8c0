# Sockets, channels and the event pipeline of an Urbit ship: a TLA+ development

This repository adds websockets to Urbit: the runtime ("vere", C) speaks HTTP
and websocket frames with peers, and the vanes eyre (server) and iris (client)
of the kernel (Hoon) carry them to and from agents. Between the two run
queues of events and effects, and the two sides share no memory: each keeps
its own account of every request and connection. What is hard is that the
accounts agree, whichever of the peer, libh2o, the timers, the kernel and the
agent moves first.

The project models both sides, each as a driver of the runtime, a vane of the
kernel, and the composition of the two by the queues between them; the older
way of eyre to reach a browser, channels over event streams; and what carries
every event of either, the pipeline of two processes with the event log behind
it and the framing of the pipe between them:

    peer <-> http.c  (HttpDriver) --ova--> eyre.hoon (Eyre) <-> agent     WsServer
    peer <-> cttp.c  (CttpDriver) --ova--> iris.hoon (Iris) <-> agent     WsClient
                                  <--eff--
    browser <-> channels of eyre.hoon (Channels) <-> agents, timers
    drivers -> pier.c, lord.c (Pier) <-pipe (Newt)-> mars.c, disk.c (Mars)   Pipeline

## 1. Inventory

| Part | Source | State | Operations | Talks to |
|---|---|---|---|---|
| HTTP server driver | `vere/pkg/vere/io/http.c` | `u3_hreq` (request), `u3_hgen` (response), `u3_hws` (session), server and connection lists, scry cache, `wid_l` | `_http_rec_accept`, the request timer, libh2o's callbacks, effects `%response`, `%websocket-response`, `%set-config` | libh2o and libuv (calls and callbacks); eyre (planned events, effects) |
| Eyre | `arvo/eyre.hoon` | `connections` by duct, `sockets`, bindings, sessions | `+call` (`%request`, `%cancel-request`, `%websocket-handshake`, `%websocket-event`, `%born`, `%rule`), `+take` of facts and kicks | the driver, Gall |
| Agent as a server | `app/lib/websockets.hoon`, `app/app/nostrill.hoon` | the agent's own | accept, refuse, payload, disconnect | eyre, by Gall's subscriptions and pokes |
| Event queue | `vere/pkg/vere/auto.c` | planned ova, effects of computed events | `u3_auto_plan`, `u3_auto_next`, `u3_auto_kick` | all drivers; the worker process |
| HTTP client driver | `vere/pkg/vere/io/cttp.c` | `u3_creq`, `u3_cres`, `u3_cws` | request, cancel, resolve, connect, handshake, send, close | libh2o, libuv, iris |
| Iris | `arvo/iris.hoon` | `next-id`, connections, `sockets` | `%request`, `%cancel-request`, `%receive`, `%websocket-connect`, `%websocket-event`, `%born` | the client driver, Gall |
| Channels of eyre | `arvo/eyre.hoon` (`+by-channel`) | per channel: its timer or its listening duct, next id, queue of events, subscriptions, counts of unacknowledged facts; `duct-to-key` | PUT (acknowledge, poke, subscribe, unsubscribe, delete), GET with `Last-Event-Id`, cancel, signs of agents, timeout, `%trim`, `%born`, end of a session | the client, Gall, Behn |
| Pier and lord (king) | `pier.c`, `lord.c`, `auto.c` | phase, queues of ova by driver, scries, writs not yet answered, count of events | plan, send, answer done or bail, retry, boot (`%ripe`, +boot scry, `%wyrd`), exit | drivers; the serf, over a pipe |
| Serf and log | `mars.c`, `disk.c`, `db/lmdb.c` | status, computed and durable number of events, answers held back, the write under way, snapshot | compute, commit in a thread, flush answers, snapshot by timer or task, exit, replay | the king, LMDB |
| Framing | `newt.c` | partial message, queue of messages | send, read, decode, offer one per turn | both processes |
| Timers | `io/behn.c` | the armed timer | `%doze`, the expiry, the backstop | Behn |
| Other drivers | `ames.c`, `mesa.c`, `conn.c`, `lick.c`, `term.c`, `unix.c`, `hind.c`, `fore.c` | | | |
| Noun runtime, boot, migrations, vendored code, web interface | `pkg/noun`, `king.c`, `main.c`, `pkg/past`, `pkg/ur`, `ext`, `src/gui` | | | |

What makes each of the socket-carrying parts correct, and what is hard in it:

- **Driver.** A request and its session point at each other; either may be
  freed first by a timeout, by libh2o, by the kernel, by a change of
  configuration. A response has one final piece. A session that was open and
  that its peer ends is reported to eyre exactly once. Effects find a session
  by a 32-bit id that comes round.
- **Eyre.** A connection is forgotten, however it ends; a subscription is left
  with its connection; a frame reaches only an agent that accepted.
- **Both together.** Events and effects cross: the agent accepts while the
  client leaves, the 504 of the timer crosses the acceptance, `%born` finds a
  kernel full of the dead process's connections.
- **Client driver and iris.** The same with the roles exchanged, plus address
  resolution, which may outlive the request that asked for it.
- **Channels.** The client's stream breaks without anybody's notice, and a new one,
  the cancel of the old one, acknowledgements and events cross: no event may be
  missed or repeated, one stream may listen at a time, a channel nobody listens to
  must be reaped, and no subscription may outlive its channel.
- **Event pipeline.** No effect of an event that a crash can lose; answers carry no
  numbers, so both processes must agree on their order; a failed write, a failed
  event, a snapshot and an exit fall between any two steps.
- **Framing.** The pipe cuts bytes anywhere and the owner may refuse a message.

`PROJECT.json` lists every hazard at its line, with the property that covers it
or why none does.

## 2. Modules

| Module | What it is |
|---|---|
| `HttpDriver` | `http.c` under an arbitrary kernel and an arbitrary libh2o |
| `WsSession` | what the runtime promises of a websocket session it serves: the abstract specification |
| `HttpDriverProof` | inductive invariant and safety theorems of `HttpDriver`; that it implements `WsSession`, and that a final piece is final |
| `HttpDriverMC` | `HttpDriver` with symmetry, for TLC |
| `Eyre` | the vane's connections, subscriptions and gifts, and the agent behind it (no specification of its own: its operators are the kernel's steps) |
| `WsServer` | composes `HttpDriver` and `Eyre` by the two queues; crashes and restarts of the runtime; fairness |
| `WsServerMC` | `WsServer` for TLC |
| `QueueTheorems` | lemmas on queues: what is in one, what occurs once, what nothing follows |
| `WsServerProof` | inductive invariant and safety theorems of `WsServer` |
| `CttpDriver` | `cttp.c` under an arbitrary kernel, libuv and libh2o |
| `WsClientSession` | what the runtime promises of a websocket session it opens: the abstract specification |
| `CttpDriverProof` | inductive invariant, safety theorems and refinement of `CttpDriver` |
| `CttpDriverMC` | `CttpDriver` with symmetry, for TLC |
| `Iris` | the client vane's requests, sockets, subscriptions and gifts, and the agents that use it (operators, like `Eyre`) |
| `WsClient` | composes `CttpDriver` and `Iris`; crashes and restarts; fairness |
| `WsClientProof` | inductive invariant and safety theorems of `WsClient` |
| `Mars` | the serf of `mars.c` with the log of `disk.c`, under an arbitrary king |
| `MarsProof` | inductive invariant and safety theorems of `Mars` |
| `Pier` | the king: `pier.c`, `lord.c` and the queues of `auto.c` |
| `EventLog` | what the pipeline promises: the abstract specification |
| `Pipeline` | composes `Pier` and `Mars` by two pipes; kills and restarts; fairness |
| `PipelineProof` | inductive invariant, safety theorems and refinement of `Pipeline` |
| `PipelineMC` | `Pipeline` for TLC: two drivers, of which the first retries its ova |
| `Newt` | the framing of the pipe, from the bytes sent to the message taken |
| `NewtMC` | `Newt` for TLC: bytes are bits, lengths have two |
| `Channels` | the channels of `eyre.hoon`, one name, with the client, Gall and Behn around it |
| `ChannelsMC` | `Channels` for TLC |
| `ChannelsProof` | inductive invariant and safety theorems of `Channels` |
| `WsClientMC` | `WsClient` for TLC: two requests of one duct, the second a redirect of the first or a request of its own |

### HttpDriver

One name `c` in `Reqs` stands for a (server, connection, sequence) triple,
which is how eyre's duct finds a request again (`_http_search_req`), and for the
session of that request's handshake. State and code:

| Variable | Code |
|---|---|
| `req[c]` | `u3_hreq`: `st` is `sat_e`, with "free" before it exists and "done" after libh2o disposed of it; `wsu` says `wsu_u` is not 0; `tim` that `tim_u` runs; `gen`, `red`, `bod` are `gen_u`, its `red` and whether its `bod_u` is not 0 |
| `web[c]` | `u3_hws`: `sat` is `sat_e`; `wid`; `req` says `req_u` is not 0; `woc` is the h2o side ("wait": upgrade begun, "up": socket there, "shut": close frame seen, "gone": freed); `birth` its place in the list, youngest first |
| `h2o[c]` | the answer libh2o holds: none, a body to be continued, a final piece, an upgrade |
| `wid_l` | the id counter, modulo `WidMod` in place of 2^32 |
| `serv` | the listening servers: none yet, listening, closing for a new configuration |
| `out` | the event planned in this step (`u3_auto_plan`) |
| `told`, `births`, `fault` | history: tags planned for a request; handshakes so far; the first undefined behaviour |

There is an action per handler. `http_rec_accept` is a new request, plain,
with a good handshake, or with a bad one; `http_req_timer_cb`,
`http_hgen_proceed`, `http_req_done` and `h2o_upgrade_complete`,
`http_ws_message`, `http_ws_close_frame`, `http_ws_dropped` are callbacks;
`http_ef_http_server(e)` dispatches an effect to `http_start_respond`,
`http_continue_respond`, `http_cancel_respond`, `http_ws_accept`,
`http_ws_reject`, `http_ws_disconnect`, `http_ws_send_message`, or drops it
(`Ignored`); a `%set-config` runs `http_ef_form`, and `http_serv_close_cb`
starts the servers anew and thereby closes every session
(`_http_form_free` calls `_http_ws_close_all`).

**Undefined behaviour** (a null or freed pointer, a call outside the contract
of libh2o or libuv) is recorded in `fault` and the process stops: nothing is
claimed about what comes after. The safety properties are about every state up
to there. The first finding below is a reachable fault.

**External contract** (libh2o 2.2.6 and libuv are fetched by the build, not in
the repository; the model keeps to what the driver's calls rely on): a request
takes one answer; the generator's `stop` runs at disposal iff a response is
under way; when an upgrade is written libh2o disposes of the request and then
gives the socket to the session, or calls the session's callback with no
argument when it failed; `h2o_websocket_close` frees the h2o side without a
callback; `h2o_websocket_proceed` needs the socket and may end the session
by the callback; no frame follows a close frame.

**Left out** of the driver: requests answered from a scry (`u3_rsat_peek`) and
their cache, the slog, spin and status pages, the connection and server lists,
TLS, the ports file, reference counts of nouns, and the data of headers and
bodies. A `%live` event carries ports only. A session that leaves "closing"
does so in no handler, so it stays.

### WsSession

A session is asked for once, opens at most once, is reported frames only while
open, and its end by the peer is reported at that end and once; a session may
also end unreported: refused, abandoned before it opened, or closed from this
side. `HttpDriver` maps "none" to "idle", "pending" to "asked", "open" to
"open", and everything after to "over".

### Eyre

`conn` is `connections.server-state` by duct, "new" before and "started" after a
`%start`; `sockets` is `sockets.server-state`; `sub[c]` is the id in the path
of the duct's subscription in Gall, or 0; `app[w]` is what the agent believes
of socket `w`. One kernel event with all the moves it causes is one action, as
Arvo runs an event to its end. The agent is free: it may accept, refuse, speak,
disconnect, be kicked or give a fact of another mark (`AppActions`), or answer
a plain request in any order of pieces (`AppResponds`), at once, late or never.
An agent that answers inside the poke is covered: its answer is the next
action. A fact goes to every subscriber of its path, in any order.
Left out: authentication, sessions, eauth, bindings (a binding that
is not an agent's is a choice of `ws_handshake`), caches.

### WsServer

`ova` is the queue of `u3_auto_plan`, first in, first out, and `eff` the effects
of computed events, released in their order (`u3_auto_kick`). The effects of one
event are released one at a time, a superset of the code's interleavings.
`Restart` loses everything the runtime held and both queues, and plans `%born`;
eyre keeps its state. That the log keeps what eyre computed is what `Pipeline` is
about.

### CttpDriver

One name `c` stands for an *attempt*: an effect that asks for a connection, with
the `u3_creq` made for it and, for a handshake, its `u3_cws`. The number the
kernel gives it (`num_l`, `wid_l`) is a field, and the kernel of this module may
give the same one twice, so the lookups by number (`FoundReq`, `FoundWs`: the
youngest) are modelled and not assumed to be injective.

| Variable | Code |
|---|---|
| `creq[c]` | `u3_creq`: `st` is `sat_e`, "freed" after `_cttp_creq_free()`, "dropped" for a url that does not parse and so never has a `u3_creq`; `wsu` says `wsu_u` is not 0; `birth` its place in the list |
| `cws[c]` | `u3_cws`: `sat` is `sat_e`, "freed" after `_cttp_ws_close()` or `_cttp_ws_fail_handshake()`; `ceq` says `ceq_u` is not 0 |
| `net[c]` | the one callback libuv or libh2o still owes: "addr" (`uv_getaddrinfo`), "connect", "head", "body" |
| `out` | the event planned in this step |
| `told`, `quits`, `births`, `fault` | history: tags planned for an attempt; requests a cancel found; attempts so far; the first undefined behaviour |

`u3_csat_conn` and `u3_cws_closed` last no longer than a call and are no
states. Handlers: `cttp_request`, `cttp_ws_start` (a failure on the spot is one
of their outcomes, as in the code, where the connection may fail inside the
effect); `cttp_creq_resolve_cb`, `cttp_creq_on_connect`, `cttp_creq_on_head`,
`cttp_creq_on_body`; `creq_quit` for `%cancel-request`; `ws_queue_close`,
`ws_send_message` for `%websocket-response`; `cttp_ws_message`, `cttp_ws_ends`
for what arrives on an open socket. A callback on a freed request is
`Dangling`: it sets `fault` and the process stops.

Left out: the orderly exit (`_cttp_io_exit`), TLS, headers, bodies and the
content of frames. `libh2o` is modelled by the calls: `h2o_http1client_cancel`
takes back the callback it owes, nothing takes back `uv_getaddrinfo`.

### WsClientSession

A session is asked for, accepted at most once, and reported frames only while
open; every session that was asked for and that ends does so with exactly one
report, `%reject` if it never opened or `%disconnect`, also when the kernel asked
for the end. This is stronger than `WsSession`, where an end from this side is
silent.

### Iris

`conn` is `connection-by-id` (and `connection-by-duct` read backwards), `sockets`
is `sockets.state` with its status, `watch` the subscriptions Gall holds to
`/websocket-client/[id]`. Such a subscription hangs on the duct of the runtime
process that reported the acceptance, so an element is a pair of that process
and the number. `+receive` either finishes, redirects (a new attempt with the same
number) or finds nothing. `+take` returns the gate it was called with, so that a
`%disconnect` fact makes its move and changes nothing in the vane; so it is
written.

### WsClient

Like `WsServer`. Before its first `%born` iris has no duct to the runtime
(`outbound`): a request is recorded without a gift, and a handshake or its cancel, whose
gift needs a duct, is not made. The drivers asked before this one may make an agent act between a
restart and its `%born`, so `Agent` is enabled then too, and what it gives may carry
a number that is given out again. `FirstProcess` and `OwnCancels` name the two
conditions under which routing by number is promised at all.

### Mars

| Variable | Code |
|---|---|
| `sat` | `mar_u->sat_e`: "work", "save", "exit"; "boot" before `%ripe`, "down" without a process |
| `state` | the events the kernel has computed, `dun_d` of `u3_mars` being their number |
| `log`, `snap` | the events in LMDB and in the snapshot: the two things on disk |
| `dun`, `len`, `ted` | `log_u->dun_d`, the batch `sav_u.len_w`, and the writer thread: "idle", "busy", or done with `ret_o` "yes" or "no" |
| `sav` | `sav_u.eve_d`, the event of the last snapshot |
| `gif` | answers held back (`gif_u`) |
| `inn`, `out` | the two pipes: tasks not yet taken, answers not yet heard |

`u3_mars_kick()` takes one task and `_mars_flush()` ends every handler: so each
action ends in `Flush`, which sends what may go, or in `FlushExit`, which saves
and ends the process. An answer of `u3_gift_fact_e` waits for its event to be
in the log and everything behind it waits too. A write succeeds or
fails as a whole; a failed one ends the process (`_mars_disk_cb`). What libuv had not
yet written to the pipe dies with the process (`LoseOutput`). A start replays
from the snapshot and saves. `_mars_timer_cb` sets the status to "save" whatever it
was, as the code does: the second finding.

### Pier

`psat` is `u3_psat`, with "init" before `%ripe` and "down" without a king; `plan` has
the drivers' queues of ova one behind the other, in the order of `wok_u->car_u`, which is how
`u3_auto_next()` walks them: `QueueHead` and `QueueTail` are the places where
`u3_auto_redo()` and `u3_auto_plan()` put an ovum; `peeks` is `pec_u`, `writs`
the lord's writs, `eve` is `god_u->eve_d`, `live` the drivers whose `%born` was
answered. An ovum is a number given out when it is planned, so the order of numbers is
the order of planning; `ova` remembers whose each was. `WorkSend` is `_pier_work_send()`: it
fills the lord up to `WorkBatch`, one ovum and one scry in turn, the first driver's
queue first. `_pier_on_lord_work_done` and `_bail` give the answer to the oldest writ;
an ovum that fails goes back to the head of its queue (`u3_auto_redo`) or is dropped, and that
of an essential driver ends the king when it has failed too often. The boot steps are
actions of their own: `%ripe`, the scry of +boot, `%wyrd`. `xit` records how the
king ended, null pointers and failed assertions among them.

### Pipeline

A king starts only when no serf holds the lock. `Kill` ends either process at any
moment and costs one of `Crashes`; the king hears of the serf's end by a signal that may
pass the answers in the pipe (`_lord_on_serf_exit`); a serf without a king
reads the end of its input and dies (`SerfAlone`). `EventLog` is refined with
`applied <- eve`.

### Newt

`pipe` holds the bytes sent and not read, `mes` the message under way, `moat` the complete
ones, `got` what the owner took. `Decode` is `u3_newt_decode()` on what one
read returns, any number of bytes. Sizes are parameters: a byte has `Base` values and a
length `LenBytes` of them.

### Channels

| Variable | Code |
|---|---|
| `chan` | the entry of `session.channel-state`: `st` is which side `state` is on, waiting with `timer` or listening on `duct`; `heart` the heartbeat's duct; `next` is `next-id`, `events` the queue, `subs` the keys of `subscriptions`, `unacked` the counts; `life` tells channels of one name apart |
| `connections`, `key`, `cookie` | the GETs in `connections`; the ducts in `duct-to-key`; whether the client's session lists the channel |
| `gall`, `pokes`, `behn` | the subscriptions and pokes of Gall, the timers of Behn |
| `eff`, `open` | effects computed and not released; GETs the runtime takes to be open |
| `stream`, `got`, `client`, `used` | the client: the GET it listens to, the events it has, whether it is there, the request ids it used |

An action is an event of eyre with all its moves, which change `World`, Gall and Behn
together, one after the other (`Waited`, `Rested`, `Watched`, `Poked`, `Left`). Where their order matters the
model has it: the moves a `%delete` adds come before those of the commands in front
of it, so a subscription that the same PUT spoke of stays as that command left it (`told`), and the timer
moves of the PUT come last. A PUT has two commands at most, the second a `%delete`. A request is computed in the step
that makes it; one still planned is as good as one not sent yet. The time since the last
acknowledgement, which decides on a clog, is a free choice (`late`). The heartbeat sets
itself again whenever it rings and is no action. The client may lose its stream without the
runtime's notice, opens another with what it has as `Last-Event-Id`, may acknowledge anything
it got, and may go away. Left out: requests under another identity or in another mode (403, 406), bodies
that do not parse (400), a PUT that is reverted for a non-local command (it does what an empty
one does), several channels and sessions, and formats.

## 3. Runs

| Run | Constants | Distinct states | Shows |
|---|---|---|---|
| `http_driver` | 2 requests, `WidMod` 3 | 67 thousand | `TypeOK`, `LinksSound`, `FinalIsFinal`, and the refinement `ImplementsSession` |
| `ws_server` | 2 handshakes, 1 change of configuration | 2.1 million | `RoutedToOwner`, `OpenIsKnown`, `PokesAccepted` |
| `ws_server_live` | 1 handshake, 1 plain request, 1 restart | 221 thousand | `KnownIsCurrent`; under fairness `ReportedEndsForget`, `PlainEndsForget`, `HandshakeSettled` |
| `cttp_driver` | 1 request, 2 handshakes, 2 numbers | 167 thousand | `LinksSound`, `AnsweredOrCancelled`, and the refinement `ImplementsSession` |
| `ws_client` | 2 requests of one duct, 2 handshakes, 1 cancel of a websocket | 939 thousand | `CallbackHasRequest`, `RoutedToRequester`, `NoGhostSockets`, `OpenIsKnown` |
| `ws_client_live` | 2 requests of one duct, 1 handshake, 1 restart | 165 thousand | `NoGhostRequests`; under fairness `HandshakeAnswered`, `RequestAnswered` |
| `pipeline` | 4 numbers, 2 drivers, `WorkBatch` 3, `BatchMax` 2, 2 starts, 1 kill, 1 scry | 2.9 million | `EffectsDurable`, `SnapshotBehindLog`, `AnswersMatch`, `EveCounts`, `OrderKept`, `OvumInOnePlace`, `BacklogBounded`, `CleanExit`, and the refinement `ImplementsEventLog` |
| `pipeline_live` | 3 numbers, `WorkBatch` 2, 2 starts, 1 kill | 82 thousand | under fairness `OvumSettles`, `BootSettles` |
| `newt` | bits, lengths of 2 of them, 3 messages | 4.7 thousand | `NothingLost`; under fairness `Delivered` |
| `channels` | 3 PUTs, 2 streams, 3 events, 1 subscription, clog at 1, 1 restart | 389 thousand | `StreamWhole`, `ListenerSound`, `UnackedCounts`, `NoOrphanSubs`; under fairness `Heard`, `Reaped` |

The other two runs, `proceed_after_upgrade` and `exit_ends`, are the findings
below.

What the properties say, and the code behind them:

The serving side:

- `LinksSound`: neither pointer of a request-session pair outlives its target,
  and a pending session and its request point at each other. Three handlers cut
  the pair from either side.
- `FinalIsFinal`: nothing follows the final piece of an answer.
- `ImplementsSession`: the order of what eyre hears of a session, its end by the
  peer, once, above all.
- `RoutedToOwner`: an effect reaches the session of the duct it was given on,
  though the code looks at the id alone. Checked without restarts, after which it
  does not hold (see the disagreements below).
- `OpenIsKnown`: an open session has a connection in eyre or its end under way.
- `PokesAccepted`: a frame is poked only into an agent that accepted that socket
  and has not ended it.
- `KnownIsCurrent`: once `%born` is computed, eyre's connections were asked for
  by the process that runs.
- `ReportedEndsForget`, `PlainEndsForget`, `HandshakeSettled`: a reported end
  reaches eyre's map; a plain request that is over leaves none; a handshake
  does not stay pending.

The client side:

- `LinksSound` (of `CttpDriver`): a session waits on a live request that points back,
  and on none once it is open.
- `AnsweredOrCancelled`: a request that is freed was answered or cancelled, never both.
- `ImplementsSession`: the order of what iris hears of a session, its end above all.
- `CallbackHasRequest`: the callback libuv or libh2o owes is the one the state of
  the request waits for, so none finds it freed. It holds because iris never cancels
  a request twice, hence in the composition: an arbitrary kernel could, and
  `_cttp_creq_quit()` then frees a request that is being resolved.
- `RoutedToRequester`: events reach the attempt they are about, though both
  sides look at numbers only.
- `NoGhostRequests`, `NoGhostSockets`: iris waits for nothing the runtime has forgotten,
  and lists no socket in a state the runtime does not have it in, unless the
  news is on the way. The converse is `OpenIsKnown`.
- `HandshakeAnswered`, `RequestAnswered`: nobody waits for ever.

The event pipeline:

- `EffectsDurable`: no answer to an event leaves the serf before the event is in the
  log under its number.
- `SnapshotBehindLog`: a snapshot holds nothing the log lacks.
- `AnswersMatch`, `EveCounts`: the lord's oldest writ is the one the next answer is about, and the
  king's count agrees with the numbers of the facts it hears, though nothing in an
  answer says so.
- `OrderKept`, `OvumInOnePlace`: ova of a driver that does not retry are logged in the order planned;
  none is in two places, and none that is logged is sent again.
- `BacklogBounded`: no more than `WorkBatch` events wait for the writer, which
  `_disk_batch()` needs: its array has one place fewer than the longest batch it would make.
- `CleanExit`: a king that leaves with status 0 heard of every event logged, and
  without a kill the snapshot holds them.
- `ImplementsEventLog`: one log that only grows, effects applied in its order.
- `OvumSettles`, `BootSettles`: nothing planned waits for ever; a start works or ends.

Framing: `NothingLost` (what is taken, queued and under way is what was sent, however the
pipe cuts it) and `Delivered`.

Channels:

- `StreamWhole`: the queue holds, without a gap, every event the client has not got, and what is
  under way to its stream goes on from what it has.
- `ListenerSound`: duct, `duct-to-key`, connection and heartbeat of a listener change hands
  together, and a channel without one has its timer set.
- `UnackedCounts`: no agent is left for facts the client has acknowledged.
- `NoOrphanSubs`: an agent that accepted a subscription has a channel that holds it.
- `Heard`: once agents fall silent, a client that keeps listening has every event.
- `Reaped`: a client that has gone leaves no channel behind.

**Bounds.** Two requests are enough for the drivers: handlers touch one request
and the session it is paired with, except the lookups by id and the closing of
all sessions, which need two; `CttpDriver` has two sessions and a request,
since a lookup may find any of them. Three sessions exceed five minutes. `WidMod` 3
makes ids of two sessions distinct and the counter wrap once both are given;
that ids shared after a wrap do no harm to the pointers, and are not shared before, is left to the
theorems, which hold for every `WidMod`. `MaxId` 1 lets attempts of `CttpDriver` share a number or not, and in
`WsClient` bounds the numbers iris gives out before a `%born`: two of the four
attempts occur in one behaviour, besides redirects, and every pair of kinds is
reached. `MaxQueue` bounds only what may be produced without end (frames from
a peer, facts of an agent): a frame or a fact needs a queue shorter than it.
`MaxOva` bounds how far eyre is behind: a request or callback waits for room, 6 with
two handshakes, where each plans a handshake and at most two ends; 3 in the
live run. `Restarts`, `Rules` and `Cancels` count crashes, configurations and
cancelled websockets. In `pipeline` four numbers are a `%wyrd` and three ova or scries, or ova of
two starts: a batch can be full with one event behind it, the lord can be full with ova
waiting, and a failed ovum can be retried past a later one; 2 starts and
1 kill let a second process find what any death of the first left.
`MaxDepth` and `MaxEvents` bound the arbitrary king of `Mars`, which `Pipeline` replaces.
`pipeline_live` is smaller because liveness is dearer. In `newt` a read may end before, in and after every part
of a header and a body, and three messages have one complete, one partial and one behind it. In `channels`
two streams are a reconnect, with the old one's end still to be noticed; three PUTs are one that makes the
channel, one that acknowledges and one that deletes it, or makes another of its name, and each has room for a command and a `%delete`; a
`ClogThreshold` of 1 clogs with the second fact. One request id suffices: events of
another would differ from those of a poke in nothing eyre looks at. The MC modules replace no definition.

**Fairness.** `Release` and `Compute`: the loop of the runtime and the worker
process serve their queues (weak fairness: nothing disables them but their own
step, a fault or a full queue). `Finish(c)`: libh2o finishes answering what it
was given. `Timeout(c)`: libuv's timers expire while they run. `Settle(c)`:
a resolution comes back (libuv runs it to its end), and a connection attempt or
a wait for the head of an answer ends, at the latest by the timeout the driver
gives libh2o. Peers and agents owe nothing: they may be silent for ever,
which is why `RequestAnswered` excepts a body that is still being sent. A process
that met undefined behaviour owes nothing either (`Running` is in each leads-to).

In `Pipeline` both loops run while they have something to do, the writer thread
finishes, and the system reports a process that ended; signals, the snapshot
timer and the drivers owe nothing. In `Newt` the pipe delivers, and an owner that is offered a
message again and again (a timer repeats the offer) takes it in the end. In `Channels`
effects are released, Behn rings, a dead connection is noticed when a heartbeat cannot be
written to it, and a client that lost its stream opens another, as browsers do; agents owe
nothing, and `MaxEvents` makes them fall silent.

The live runs restart the process at any point. The leads-to of the two socket
runs are about both processes: a request waiting in the first is over in the second, where
`%born` makes the vane forget it.

Deadlock is not checked: when every request is over the models have nothing left to
do.

### Findings

Each is a run that must fail, on one property that a line of the repository
states.

| Run | What the code does |
|---|---|
| `proceed_after_upgrade` | A message sent right after an acceptance runs `h2o_websocket_proceed` before the upgrade has a socket, which the comment in `_http_ws_accept` warns of. |
| `exit_ends` | A serf whose exit waits for a commit has its status overwritten by the snapshot timer (`mars.c:935`): it saves and goes back to work. The king, which asked it to "shutdown gracefully" (`lord.c:812`) and has no timer for it, waits for ever. |

### Disagreements without a run

Met while modelling, present in the modules, and not stated by a property of their
own:

- `http.c:691`: the 600 second timer answers a planned handshake 504 and leaves its session
  pending with its `req_u`; a late `%accept` answers the same request again (fault "answered
  twice" of `HttpDriver`). The branch for a request with a scry (704) does release the session.
- `http.c:3649`: ids begin again at 1 in a new process and `%born` leaves no websocket
  subscription, so a fact for a connection of the dead process acts on one of the new
  one, though UIP-0125 has the id "represent that particular connection".
- `cttp.c:986`: a websocket cancelled while its host is being resolved is freed at once; the
  comment at 994 says that a request in that state waits. An arbitrary kernel
  reaches the freed request by a second cancel (`Dangling`).
- `cttp.c:1417`: `%cancel-request` looks among requests only, and an open websocket has none:
  iris forgets the socket, the peer's connection stays. UIP-0125:91 has the task cancel
  websockets too.
- `iris.hoon:480`: `%born` "reset[s] all connection state" (478) except `sockets`: websockets of
  the dead process stay listed under numbers that are given out again, and cancelling one cancels
  whatever has its number now.
- `http.c:1491`: a `%start` that lost the race with the 504 is dropped, and the
  `%continue` behind it dereferences `gen_u = 0`; `http.c:1530` does so by way of the
  timer a `%cancel` leaves running. Both are the fault "null generator" of `HttpDriver`.
- `eyre.hoon:1424`: `+cancel-request` leaves `/watch-response`, a wire no websocket
  uses; the subscription to the agent stays (`cancel_request` leaves `sub` alone).
- `eyre.hoon:4043`: an agent that accepts by an `%accept` fact, as UIP-0125 has it,
  gets its client a 500 (`bad_mark`).
- `cttp.c:1991`: the first condition of `_cttp_ws_queue_close()` covers "closing", so
  the branch for a session that is closing already is never reached and a second
  `%disconnect` closes it directly (`ws_queue_close`).
- `iris.hoon:531`: a kick of the agent's subscription tells the runtime nothing (`kick`).
- `iris.hoon:343`: the guard against a second websocket on one duct looks among the
  requests (`Busy`).
- `pier.c:1250`: an exit before the drivers are live leaves `god_u` 0 or a phase the next
  answer asserts (`xit` "null lord" and "assert" of `Pier`).
- `lord.c:897`: the exit status of the serf is looked at only to be printed; whether its end was asked for
  is read off the oldest writ.
- `u3_pier_save()` has no caller: the king never asks for a snapshot, and only the serf's
  timer, its start and its exit make one.
- `eyre.hoon:2818`: a `%delete` of a channel that waits leaves its newest timer set:
  the `%rest` of `+discard-channel` goes out before the `%wait` of the same PUT, against
  "cleans up state, timers, and gall subscriptions" (3133). The timer's wire names the channel only, so it
  discards a later channel of that name, listened to or not (`timeout`).
- `eyre.hoon:2490`: a 404 is to tell a client that its channel was reaped, but a PUT, an
  acknowledgement for instance, made after the reap creates the channel anew; the GET is then
  answered 200, numbers start at 0, and the `Last-Event-Id` of the old channel prunes
  events of the new one. Hence `life` in `StreamWhole`.
- `lull.hoon:3350` has a second GET answered 400; the code replaces the first.
- `eyre.hoon:2832`: a subscribe and a delete in one PUT leave before they watch; the leave that
  `+on-gall-response` makes when the agent answers is what ends the subscription
  (`NoOrphanSubs` counts on it).
- `eyre.hoon:183`: `+subtract-acked-events` takes off the count of facts every event of the
  subscription, its watch-ack and kick too: the count may fall behind the queue, never
  run ahead of it.

## 4. Proofs

**Server driver** (`HttpDriverProof`), for every set
`Reqs` and every `WidMod > 1` (`WidModAssumption`):

- `TypeCorrect`, `LinksAreSound`, `ReadyIsBody`, `EndsAreTold`, `WidsAreUnique`:
  the driver's invariants. `Inductive` is the invariant they rest on,
  `IInv == TypeOK /\ PairInv /\ CounterInv /\ ReportInv`. `PairInv` says, per request, which
  combinations of `req`, `web`, `h2o` and `told` occur: none of the
  properties is inductive alone, because what makes, say, a disposal safe is
  which answer libh2o holds, and what makes a drop silent is whether the close
  frame was reported before. `CounterInv` ties the ids given out so far to the
  number of handshakes, which is what uniqueness needs, and `ReportInv` what eyre was told of
  a request to what became of it, which `WsServerProof` needs. The
  proof has one lemma per handler, and the step theorem assembles them.
- `FinalStays`: the action property, from `IInv`: every handler that
  hands a piece to libh2o needs `red` or a planned request, and neither occurs
  with a final piece.
- `SessionImplemented`: `Spec => Session!Spec`. Each handler is mapped to one
  step of `WsSession` or to a stutter; `http_ws_close_all` maps to `End(S)` with
  the set of all pending and open sessions.

**Client driver** (`CttpDriverProof`), for all sets `PlainReqs` and `WsReqs`
that are disjoint (`AttemptsAssumption`) and every `MaxId`:

- `TypeCorrect`, `LinksCorrect`, `AnswersCorrect` from `Inductive`, whose
  `IInv == TypeOK /\ \A c \in Reqs : AttemptOK(c)`. `PairOK` adds to `LinksSound` that a
  request being resolved or cancelled has its resolution still coming: without it
  `_cttp_creq_on_connect()` could answer a request that was cancelled, and
  `AnsweredOrCancelled` is not inductive. `ToldOK` ties what iris has had of a
  request to its state and to the cancels. Since every handler touches one attempt,
  `OneAttempt` reduces a step to the attempt it is about, and the pieces the handlers share
  (`FinishedInv`, `FreedSilentlyInv`, `WaitsInv`, `StartInv`) are lemmas of their own.
- `ClientSessionImplemented`: `Spec => Session!Spec`, from the same invariant: a
  handshake that fails is a `Reject`, whichever of the places it fails in;
  `ws_close` is an `End`; steps of plain requests are `Quiet`.
- The last section of each driver's proof says what a step shows to the kernel (`Goes`, `Says`,
  `SessionBegins`, ...): the compositions cite these lemmas and open no handler again.

Proofs of the drivers reason up to a fault: after one `Next` is disabled.

**Serf and log** (`MarsProof`), for every set `Ids`, every `BatchMax > 0`
(`BatchAssumption`) and every bound on the king, which is an arbitrary sender of tasks here (TLC
checks the same properties with the pier as the king):

- `EffectsAreDurable`, `SnapshotsFollowLog`, `AccountIsTrue`, `TypeCorrect` from `Inductive`. `IInv`
  joins to the properties that a process that is not there holds nothing (`EmptyOK`), what the
  writer holds of the events (`WriterOK`), that a poke has an ovum (`TasksOK`), and `Told(gif, state)`: an
  answer held back carries the number its event has in the kernel. `EffectsDurable` alone is not inductive:
  when the log catches up, the answers released must be about the events it gained, which is
  `Told` together with the log being a beginning of the kernel's events (`LogAgrees`). The lemmas `ToldPart`,
  `ToldTogether`, `ToldLonger` and `ToldDurable` say so of any answers, `FlushSound` and
  `ExitSound` of `_mars_flush()`, and every handler is an instance of those.

**Serving side** (`WsServerProof`), for every `Reqs`, every `WidMod > 1`, disjoint kinds of events
(`KindAssumption`, `WidModAssumption`) and every bound of the checks:

- `ConnectionsCurrent` is `Spec => []KnownIsCurrent`. `EffectsRouted`, `OpenSessionsKnown` and
  `PokesAreAccepted` are `Spec => [](restarts = 0 /\ births < WidMod => P)`. The condition is one of the
  code: ids begin again at 1 in a new process while eyre's subscriptions survive, and the counter
  comes round, and after either an id is not its duct's own (see the disagreements). The runs are within it.
- `Inductive` is the invariant they rest on. `QueueInv`: `%born` is first in its queue, and what an event
  says happened did. `Routed`: an id that eyre, Gall or a queue pairs with a duct is that of
  the duct's handshake, which with the unique ids of `HttpDriverProof` makes `_http_ws_find()` find the owner. `SessionOK`,
  per handshake: until the kernel takes it, neither eyre, Gall nor the agent knows it (`Unasked`); eyre's
  connection and the agent's account agree (`Remembered`); an answer is given once (`Answered`); and a session that is open, or that
  an effect in the queue may open, is known or its end is in the queue behind that (`Known`). `OpenIsKnown` and `PokesAccepted` are
  not inductive without the order in the queues: a frame is poked into an agent that accepted because
  the accept left the queue of effects before the frame entered that of events.
- The steps are sorted by what they are to the rest: `Moves` of the driver, whatever the handler, `Takes` of an
  event and gifts of the kernel, the restart; each part of the invariant has one lemma for each kind.

**Client side** (`WsClientProof`), for all disjoint `PlainReqs` and `WsReqs` (`AttemptsAssumption`), every
`duct` and `MaxId`, and any number of restarts and cancels:

- `CallbacksFindTheirRequest`, `EventsReachTheirDuct`, `NoSocketIsForgotten`, `OpenSocketsListed` and
  `NoRequestIsForgotten` are `Spec => []P`, with the conditions `FirstProcess` and `OwnCancels` inside the properties.
- `IInv` joins to the driver's own: `QueueInv`, what an event says happened did and is the last of its request;
  `AskedInv`, an attempt is asked for once; `Numbers` and `Owned`, numbers in use were given out and
  belong to one request or one socket; `CancelledOnce`; then `CallbackOwed`, `SocketOK`, `Listed` and `Waited`, the properties
  with what each needs of the queues. That no request is cancelled twice, which `_cttp_creq_quit()` does
  not look at, comes from iris forgetting the number when it gives the cancel: `CancelledOnce` ties the queue, the map and the state
  "quit" together. `Waited` needs an order: the request stands in the queue with no cancel behind it (`Unfollowed`).
  After a restart attempts of the dead process come to nothing, which `quits` records for those that were asked for.
- Steps of the driver are `Moves(c)` or `Ignores`, steps of the kernel `KernelMoves` with the effects it `Gives`; again a
  lemma for each part and kind.

**Event pipeline** (`PipelineProof`), for every set `Ids` of natural numbers, any drivers and any `Essential`
among them, every `WorkBatch > 0` and `BatchMax > 0` (`IdsAssumption`, `DriversAssumption`, `WorkBatchAssumption`,
`NoIdAssumption`, `BatchAssumption`), and any number of starts, scries and kills:

- `WritsAnsweredInTurn`, `KingCountsEvents`, `DriverOrderKept`, `OvumOnce`, `BacklogIsBounded`, `PipelineDurable`,
  `PipelineSnapshots`, the action property `ExitIsClean` and the refinement `EventLogImplemented`: every
  safety property of the run `pipeline`.
- `PipelineInductive` is the invariant they rest on, `PInv`, which adds to that of the serf:
  `KingOK`, the king's types; `LineInv`, the events, the tasks behind them and the queues behind those form one line, in which no ovum
  occurs twice and those of a driver that does not retry are in order; `KingInv`, what the two pipes hold and what the
  king expects; `HeldInv`, the answer to the last event is held back while an event is not known to be in the log; and `BacklogInv`,
  room for the tasks still to be taken.
- The king hears no numbers after `%ripe`: it pairs and counts. So `KingInv` counts too. `Talk`: the answers, then
  the tasks, are those of the writs in turn, and the n-th fact is event `eve + n`. `Counts`: the king's count and the
  facts on their way add up to the serf's events. `Ripe`: before `%ripe` is heard nothing but an exit was sent. `Even`: no
  task is lost while the serf lives and no exit was sent. `Failed`: an ovum whose failure is reported is no
  event, so that its retry can be planned without breaking the line.
- `CleanExit` needs `Ended`, of a serf that is gone: unless a poke stays unanswered among the writs, the answers left behind reach the end
  of the log, and without a kill the snapshot too. An exit that is the oldest writ is also the newest (`Room`),
  so then no answer and no poke is left and the two agree. `Ended` holds at an orderly end because `_mars_flush()` sends everything before
  it; after a failed write because `HeldInv` makes what is lost hold a fact, which leaves its poke unanswered.
- `EventLogImplemented`: `Commit` is `_disk_commit_cb`, a batch that continues the log and, by `LineInv`, repeats nothing;
  `Apply` is a fact the king hears, by `Talk` and `Counts` about an event in the log; `Recover` is `%ripe`, by `Ripe` heard by
  a king that counts nothing; `Restart` is the start of a king. All other steps leave log and count alone.
- Steps of the king are proved in terms of `Dispatch`, `WorkSend` and `End`, whatever the handler. Of `Merge`
  they use only `MergeFacts`: what is sent are the eggs and the scries, and each of the two keeps its order (`InTurn`).
  Steps of the serf are `QuietKeeps` (no event, no answer to a writ), `OtherKeeps`, `EventKeeps` or `EndsKeeps`.

**Channels** (`ChannelsProof`), for all sets `Ducts` and `Rids`, every `ClogThreshold`, any number of events, PUTs, streams
and restarts; of the constants only `NoDuct \notin Ducts` (`NoDuctAssumption`) is used. A PUT is what the model has, one command and
a `%delete` at most:

- `OneListener`, `CountsWithinQueue`, `SubsHaveChannel` and `StreamGoesOn` are `Spec => []P` for `ListenerSound`, `UnackedCounts`,
  `NoOrphanSubs` and `StreamWhole`: every safety property of the run `channels`.
- `ChannelsInductive` is the invariant they rest on, `IInv == TypeOK /\ ChannelInv /\ ListenerSound /\ TimerInv /\ SubsInv /\ FlightInv`.
  `ChannelInv`: a channel has the shape of its side (`Formed`); its queue is consecutive, up to the last number given out, and
  begins where the client is or before (`Queued`); its counts do not run ahead (`Counted`). The three need each
  other: what an acknowledgement prunes is a beginning of the queue only because numbers are consecutive (`PrunedPrefix`), then no more is
  taken off the queue's facts than off the count (`FactsPruned`, `Acknowledged`), and a new fact is one more because
  its number is not in the queue (`FactsMore`).
- `TimerInv`: while there is a channel, or a client that may make one, no timer is set but the channel's own. A timer's wire
  names the channel only, so without this a timer left over would discard a channel whose own is still set, and that would ring into the next. It ends where the code's does: after
  a `%delete`, the client's last PUT, the newest timer may remain (see the disagreements).
- `SubsInv`: Gall knows of no subscription that the channel does not. The exception is a subscribe and a delete in one PUT, whose
  `%watch` is still unanswered; the answer meets no channel and `+on-gall-response` leaves. So `NoOrphanSubs` is not
  inductive: it looks at accepted subscriptions only, and says nothing of the ones about to be.
- `FlightInv`: what the effects carry to the client's stream is `first .. next - 1`, each once and in order, with `first` no later than what it
  has. `Flight(q, d, a, b)` says so of any sequence of effects, and composes (`FlightConcat`): the replay (`FlightStart`)
  goes up to `next`, `+emit-event` adds the events from there (`FlightContinues`), and a release takes from the front what
  the client then has (`FlightTail`).
- Handlers that share an operator share a lemma: `DiscardStep` (timer, `%trim`, logging out), `CancelStep` (a dropped
  connection, `%born`), `EmitStep` (the four signs of Gall), `BatchRuns` (the commands of a PUT).

`ReadyMeansBody`, `EndOfSessionTold` and `UniqueWids` of `HttpDriver`, `TypeOK` of `CttpDriver` and
of `Mars`, and `LogAgrees` are proved and in no run.

Only model-checked: `Newt`, and all liveness (`OvumSettles`, `BootSettles`, `ExitEnds`, `Delivered`, `Heard`, `Reaped`
and the liveness of the two sides), which the prover does not do. `NothingLost` of `Newt` says what a stream of bytes of
any length stands for: `Decode` and `Frames` are recursive over data, and a proof that they agree is an
induction that the provers cannot instantiate. Every other safety property of the passing runs, and every refinement, is a theorem.

## 5. Plan

In this order:

1. **Rest of the server driver**: the connection list and its unlinking, scry-backed
   requests with their cache, and long responses with the generator's timer.
2. **Timers**: `behn.c` with the backstop.

## 6. Not modelled

The noun runtime (interpreter, jets, allocator), Ames and Mesa, the control
socket, terminal and filesystem drivers, boot and supervision, migrations,
serialization, and the web interface: pure computation, sequential I/O, or
independent of the sockets. `PROJECT.json` gives the reason for each. Of the modelled parts, each
section above says what it leaves out; of the pipeline these are a replay that fails, epochs and
their rotation, `%pack` and `%meld`, the spinner, the boot of a new ship, and the events made up for a
failed ovum. Most of the repository by lines is the noun runtime and
vendored sources, which the models do not touch.

## 7. Running it

    tlasany WsServer.tla
    tlc -workers 2 -config WsServerMC.cfg WsServerMC
    tlc -workers 2 -config WsClientMC.cfg WsClientMC
    tlc -workers 2 -config PipelineMC.cfg PipelineMC
    tlc -workers 2 -config ChannelsMC.cfg ChannelsMC
    tlapm HttpDriverProof.tla
    tlapm CttpDriverProof.tla
    tlapm QueueTheorems.tla
    tlapm WsServerProof.tla
    tlapm WsClientProof.tla
    tlapm MarsProof.tla
    tlapm PipelineProof.tla
    tlapm ChannelsProof.tla
