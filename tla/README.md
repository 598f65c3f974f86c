# A verification of rstream-python

TLA+ modules, TLC configurations and TLAPS proofs for the runtime of
`rstream`, the Python client of the rstream engine (`src/src/rstream/`). File
names below are relative to that directory.

    tlc -workers 2 -config <Name>.cfg MC<Module>    # a run
    tlapm <Module>Proofs.tla                         # the proofs of a module

## 1. The system

An application opens a **control channel** to an engine, creates **tunnels** on
it, and receives the connections people make to these tunnels as **streams**.
Everything runs on one asyncio event loop. So code between two `await`s is
atomic, and what is hard is what can happen at an `await`: other tasks run, the
task is cancelled, a timeout expires, the connection breaks. One action of the
models is, everywhere, what one task or callback does between two suspensions.

| Component | State it keeps | Operations | Modules |
|---|---|---|---|
| Tunnel (`tunnel.py`) | queue of streams, waiters, closed / hard closed, forward tasks | `deliver`, `accept`, iteration, `forward_to`, `on_close`, `close`, `wait_forwarders_closed` | `Tunnel` |
| Stream and relay (`stream.py`) | a reader and a writer; a relay is two pumps | `pipe_stream_to_local`, `_copy`, `close` | in `Tunnel` |
| Control channel: requests (`control.py`) | pending futures, tunnels by id | `create_tunnel`, `close_tunnel`, the responses | `ControlRequests` |
| Control channel: proxy connections (`control.py`) | running tasks, queue | `_dispatch_proxy_conn_req`, `_proxy_task_done`, `_handle_proxy_conn_req` | `ProxyDispatch`, `FifoStation` |
| Control channel: heartbeat (`control.py`, `client.py`) | sequence, acknowledgement, timer | `_heartbeat_loop`, `_handle_heartbeat`, `_arm_liveness_timer`, `_liveness_expired` | `Heartbeat` |
| Client and channel lifecycle (`client.py`, `control.py`) | set of controls, watchers, the future `_done` | `connect`, `close` of both, `done` | `ClientLifecycle` |
| Engine discovery (`engine_discovery.py`) | cache, shared lookup, closed | `resolve`, `close` | `EngineDiscovery` |
| Configuration (`config.py`) | none; resolved once per client | `_read_env`, `_normalize_config`, `_resolve_config`, `resolve_client_options` | `Checks`, `ClientConfig` |
| Choice of engine and credentials (`client.py`, `api.py`, `engine_api.py`) | the resolved options | `_resolve_engine`, `connect`, `dial`, `list_inventory`, `generate_stable_hostname`, `_open_proxy_connection` | `Credentials` |
| Tunnel options (`control.py`, `protocol.py`) | none | `_normalize_bytestream_options`, `tunnel_properties_to_pb` and back | `TunnelOptions` |
| Webhooks (`webhooks.py`) | none | `sign_payload`, `verify_event` | `Webhooks` |
| ASGI, WSGI adapters (`asgi.py`, `wsgi.py`) | task set; per stream: request queue, application task, response state | `serve_asgi`, `serve_wsgi` and their handlers | `HttpServe`, `AsgiServer`, `WsgiServer`, `HttpAdapters` |
| Framing, event streams, stable domains | none between calls | read, write, watch | not modelled, see 7 |

How they interact. The read loop of a channel hands each message to a
handler: responses resolve futures of callers, a `ProxyConnReq` goes to the
proxy pool, whose handler dials the engine and calls `Tunnel.deliver`. A channel
ends in `_finish`, from the close response, an error, EOF or the liveness timer:
it cancels the proxy handlers, fails the pending futures, closes every tunnel
(*hard*, or *soft* when the channel was lost and accepted streams should drain)
and resolves `_done`. A watcher of the client waits on `_done` and forgets the
control. `Client.close` closes the discovery, then the controls one by one. The
HTTP adapters sit on top: `serve()` iterates over a tunnel and runs one handler per
stream. Before any of this the client resolves its options, once, and each call
finds its engine from them, from the API or from the engine's own document.

What makes each component correct, and what endangers it, is the list of
hazards in `PROJECT.json`; each has its line in the source and the properties
that cover it.

## 2. Modules

**Tunnel.** Streams, application tasks that `accept()` or `forward_to()`, and
tasks that call `close()`. `queue`, `waiters`, `closeErr` are `_StreamQueue`;
`fut[a]` is the future the suspended `get()` of task `a` waits on and
`handoff[a]` the stream that resolved it, so that a cancellation (`Cancel`) can
fall between `set_result` and the resumption; `Forget` is the finally block of
`get()`. `relay[s]` is where the task of
`pipe_stream_to_local` is. `ControlFinish(preserve)` is what `_finish` does to
the tunnel, `CloseTunnelRsp` the engine's response. `dropped` is a history
variable: streams that a cancelled `accept()` left without an owner.

**ProxyDispatch.** Requests are numbered in the order they are read.
`pc[r]` is the state of the task of request `r`, `sock[r]` its engine
connection, `sent[r]` what was written for it. `TaskDone` is the done callback,
an action of its own because it runs later than the end of the task.
**FifoStation** is the abstract specification of the pool: a queueing station
that serves in order of arrival, keeps no server idle while a request waits, and
shuts when it overflows. `Station` in `ProxyDispatch` instantiates it; the
property `StationSpec` says that the pool implements it.

**ControlRequests.** Calls of `create_tunnel` and `close_tunnel`, a first-in
first-out connection each way and an engine. The futures are in
`pendingTunnels` and `pendingClose`; `joined[k]` is the caller whose future
`k` shares. Timeouts and cancellations are `...GivesUp` actions.

**Heartbeat.** Discrete time. `timer` is the armed liveness timer, `loop` and
`elapsed` where the heartbeat loop is and for how long, `wire` the heartbeats
written and not yet answered, with their age. The engine and the write path are
external and described by bounds (`MaxStall`, `MaxDelay`, `MaxSkips`). When
several things are due at the same tick their order is free, so a frame that
arrives at the deadline may lose against the timer, as in the event loop.

**ClientLifecycle.** Calls of `connect()`, with the control each would open, its
watcher and its future `_done`; calls of `Client.close()`, which take a snapshot
and close it one by one; calls of `ControlChannel.close()` and `done()` by the
application, which may be cancelled.

**EngineDiscovery.** Callers, numbered lookups ("flights"), the cache of one
entry, and `close()`. A clock orders the headers of a response, its body, the end
of its lifetime and the timeout of the lookup; `Lifetime` and `ValidTarget` are
the rules of `_target()` about what may be kept and for how long.

**HttpServe**, **AsgiServer**, **WsgiServer**, **HttpAdapters.** `h[s]` is a
record of everything about stream `s`: where its handler is suspended, both sides
of its h11 connection, its application task or thread, the request queue and the
flags of the response. `HttpServe` has what the two adapters share - `serve()`, the
reading of a request, the finally block - the next two modules what they do with
it, and `HttpAdapters` composes them and states the properties. h11 is external:
which events may follow which, and that sending out of turn raises.

**Checks**, **ClientConfig**, **Credentials.** `ClientConfig` is the resolution of
options as operators: one per rule, and three lists of checks in the order of the
code (`Unreadable`, `ConfigRefusals`, `OptionRefusals`), whose first that fails is the
`Verdict` and otherwise `Resolved` the result. `Checks` has what such lists need, here
and in the two modules below. `Credentials` is the machine around it: a client keeps the resolved
options, each call finds its engine and writes one request, `sent`; an engine may
answer with another address or ask for a proxy connection with a token of its own.
`assigned` is a history variable, who named which address. Time is what `TokenExpires`
says: the expiry of the token passes, before or after the options are resolved;
`expired` is what a resolution sees, `expiredBefore` the history of what it saw.

**Webhooks.** The platform signs payloads, the way loses, joins and delays
headers, the receiver verifies one of them with its own clock.

**TunnelOptions.** `create_tunnel()` refuses or normalises a call and writes the
fields of the message; the engine answers with what it opened.

**Inputs** puts these three side by side: they share no state, a behaviour is
about one of them.

The `...Proofs` modules hold the theorems about the module they are named after;
section 5 describes them. Each `MC...` module gives the constants of its module small values, with the cfg
files of its runs.

## 3. Runs

| Run | Instance | Distinct states |
|---|---|---|
| `tunnel` | 2 streams, 1 accepting task, 1 `forward_to`, 1 `close()` | 51 378 |
| `proxy_dispatch` | 4 requests, 1 worker, queue of 2, 2 tunnels | 68 514 |
| `control_requests` | 1 `create_tunnel`, 3 `close_tunnel` | 59 092 |
| `client_lifecycle` | 2 controls, 1 `Client.close`, 1 `ControlChannel.close`, 1 `done` | 220 743 |
| `engine_discovery` | 3 callers, 2 engines of 2 projects, 2 lookups, 7 responses, 4 ticks | 427 125 |
| `heartbeat` | interval 2 ticks, timeouts 1, 2, 8, 10, 13, 5 heartbeats | 18 500 |
| `adapters` | ASGI with 1 stream, WSGI with 2 on 1 thread, bodies of at most 1 unit | 247 494 |
| `inputs` | some 9 000 configurations, a token that expires, 4 values of a clock, every option of a tunnel | 591 791 |

`tunnel` - a stream has one owner at every moment: queue, future, application or
relay (`OneOwner`). Streams and waiters never miss each other, and a close leaves
nobody waiting and nothing queued (`NothingStranded`). `close()` returns after the
relays, and a hard close closes every forwarded stream, also after a soft close
spared them (`ClosesComplete`). After a hard close relays end and `close()` returns,
unless a peer has stopped reading, as one of the two streams' does: nothing else can
hold them (`HardCloseEndsRelays`). A soft close touches nothing
accepted, and nothing is accepted after a hard close (`ClosesSelective`).

`proxy_dispatch` - bounds, work conservation and order of service, across task
ends and their later callbacks (`PoolDiscipline`, and `StationSpec`: the pool
implements `FifoStation`). What the engine is told matches what the tunnel got and
no handler leaves a socket open (`HandlersSettle`), nothing is written after the
close (`SilentAfterClose`), every request is answered unless the channel ends
(`EveryRequestSettled`). The run has one worker so that four requests meet a full
pool and a full queue; two workers with liveness are beyond TLC in a few minutes,
and the safety properties are proved for every size.

`control_requests` - futures are resolved once, and nothing is registered that
nobody waits for (`NothingForgotten`); client and engine agree on the tunnels, and a
tunnel unknown to the client was given up on (`AgreesWithEngine`); no request is
sent twice unless someone gave up (`OneCloseRequest`); calls end by themselves on a
closed channel, and whenever the engine answers (`CallsEnd`).

`client_lifecycle` - one close request per channel however many callers, and what
`Client.close()` leaves is closed, but for controls on whose `done()` the application
gave up (`ClosesOnceAndAll`); the client's own cancellation of its watchers, which
cancels the same futures, excuses nothing. Dead controls are forgotten
(`DeadControlsForgotten`), every `close()` ends (`CloseEnds`).

`engine_discovery` - one lookup at a time, nobody is cancelled by another's
cancellation, nothing runs after `close()` (`SharedLookup`); an answer from the cache
is of the right engine and project, and not older than its response allowed
(`FreshTarget`); every caller ends.

`heartbeat` - the channel fails exactly after the negotiated silence, a deadline
above `LongestSilence` never fails the channel of a live engine, an honest answer
is never refused. The bound is sharp: with a timeout equal to it TLC finds an
expiry under a live engine.

`adapters` - every request gets an answer on every path that can still give
one (`NoSilentEnd`); a handler that is done has closed its stream and left no
application task (`EndedReleases`); the limits of a body hold, and no application
takes a refused body for a whole one (`BodyWithinLimit`); an application in
`receive()` is released (`ReceiveReleased`); `serve()` ends after its tunnel, whatever
clients and applications do (`ServeFinishes`).

`inputs` - a stored credential goes to the API and the engine of the context it was
stored in, whatever API and engine the caller asked for, and to the addresses these
name (`StoredCredentialsStayHome`): what prevents more is spread over the match of
context and API, the two `..._ENGINE_OVERRIDE` refusals, the region and the choice of
engine. The exceptions are in the property and in section 7. What is sent follows the
options: engine, region, one kind of credentials to the configured engine, `no_token`,
and no token that had expired when they were resolved (`RequestsFollowOptions`). A webhook is accepted
exactly when it was signed for this receiver and in time (`WebhookVerdicts`). The
engine is asked for the tunnel the caller described and the caller is shown the
one that was opened (`TunnelAsAsked`).

Runs that show a disagreement of the code with its documents or tests, each one
a finding in `PROJECT.json`:

- `accept_cancel_drops_stream` - a stream handed to an `accept()` that is
  cancelled before it resumes is lost and never closed.
- `relay_dial_failure_leaks` - a relay that cannot dial its local service leaves
  the stream open, and a later hard close does not find it.
- `client_close_misses` - cancelling a waiter of `done()` cancels the future of
  the channel; the client forgets the control, and its `close()` leaves the
  channel open.
- `accepted_cut_off` - when the channel is lost, `serve_asgi()` and `serve_wsgi()`
  cancel the handlers of the streams they had accepted, which a lost channel leaves
  to drain.

**Bounds.** The components have no behaviour that depends on more actors than
these: a race in them is between two streams, two callers of one operation, or
one caller and a close; `control_requests` has three closers for an owner, a caller
that joins and one that comes later; the pool is so small that the queue
overflows. WSGI has two streams because they share a thread, ASGI one because its
application interleaves with its own handler only. The clock of `engine_discovery`
reaches past the longest lifetime and a lookup. The configurations of `inputs` are
slices: credentials with engines, APIs with contexts and regions, transports, and
the rest one at a time; in each the values that meet in one rule take all their
combinations. All counters are bounded by constants of the modules: `NumRequests`,
`MaxFlights` and `Horizon` (a caller that comes when they are used up stays out,
time stops), `MaxSequence` (time stops when a further heartbeat is due; five are
enough to skip, stall and expire), `MaxPartial`, `MaxSigned`.

**Deadlock** is not checked: every instance ends, when its finitely many calls
have returned, its requests are settled or its channel is closed.

## 4. Fairness

Only what the event loop, a timeout or the operating system does is fair.

- All modules: a task whose awaited future is done runs, and so does a done
  callback (weak fairness of each task on its own).
- `Tunnel`: a cancelled dial or relay ends, and so does `wait_closed()` when its
  peer reads. For a stream in `Stalling` it need not: the writer of the local
  connection waits until unsent bytes have left, with no timeout (`stream.py:82-86`),
  so only a further cancellation ends it. Nothing makes an uncancelled relay end, a
  peer send or read, or anyone call anything.
- `ProxyDispatch`: dials and handshakes have timeouts (`connect_timeout`,
  `operation_timeout`), the engine drains the connection, and the reader of a
  broken connection notices it.
- `ControlRequests`: messages are handled and the engine answers what it reads.
  The timeouts are *not* fair: the properties say what ends without them.
- `ClientLifecycle`: `operation_timeout` expires, and a write ends. The engine
  need not answer. The second assumption matters: `ControlChannel.close()` writes
  before the wait that has the timeout, so a drain that blocks for ever blocks
  `close()` for ever.
- `EngineDiscovery`: the timeout of `_discover()` expires.
- `HttpAdapters`: the event loop runs what is ready; a read ends by its timeout;
  the error response of the ASGI adapter, the first thing written on its stream, is
  drained; any other drain ends when it is cancelled; closing TLS is bounded; an
  application task ends when it is cancelled. Nothing is assumed of an application
  that runs, of its drains or of a worker thread: `ServeFinishes` holds without.
- `Inputs` has no fairness and no liveness property.
- `Heartbeat` has no fairness: a deadline is stated by letting time pass only
  when nothing is due.

## 5. Proofs

TLAPS checks these for every value of the constants that satisfies the named
assumptions of the modules, and they rest on nothing else; in particular no
fairness is used. The assumptions are types and bounds (`ProxyAssumption`,
`HeartbeatAssumption`, `DiscoveryAssumption`, `LifecycleAssumption`, `HttpAssumption`,
`ConfigAssumption`, `CredentialsAssumption`, `WebhookAssumption`,
`TunnelOptionsAssumption`) and that names of calls are distinct: a call creates or
closes (`RequestsAssumption`), a task accepts or forwards (`TunnelAssumption`).

Every safety invariant and every action property of a passing run is a theorem.
Each module proves an inductive invariant `IInv`, whose conjuncts are named for
what they add to the properties, and derives the properties from it; TLC has
checked each `IInv` on the instance of its run. `Invariance` is the theorem
`Spec => []IInv` of the module; below is why each needs what.

**`ProxyDispatchProofs`.** `Invariance` proves the inductive invariant
`IInv = PoolInv /\ HandlerInv`. The properties of the runs are not inductive by
themselves: `PoolInv` adds where a request is in each state of its task
(`PlacedByState`) - without it a done callback could start a request that already
runs, and the order of service would be lost; `HandlerInv` adds what a handler
has done by the state it is in, from which `NoSocketLeak`,
`HandlersSettle` and `SilentAfterClose` follow. `PoolIsAStation` proves that
every step of the pool is a step of `FifoStation` or a stutter.

**`HeartbeatProofs`.** `Invariance` proves `IInv`, whose heart is `SilenceInv`:
the time since the last frame is at most one `Period` for each heartbeat skipped
since, plus the age of the oldest heartbeat on the wire, or the time since the
last was written. It needs `SpacingInv` (heartbeats are at most a `Period`
apart), `LoopInv` (the loop is never late), and `TimerInv` (timer and silence add
up to the deadline). From it: `LiveEngineNeverExpires`, for a timeout above
`(MaxSkips + 1) * (Interval + 2 * MaxStall) + MaxDelay`;
`DeadlineMeasuresSilence`; and `HonestEngineAccepted`, from `AnswerInv`
(sequence numbers on the wire increase between the last acknowledgement and the
sequence).

**`EngineDiscoveryProofs`.** `Invariance` proves `IInv`. `SharedLookup` needs
`LookupInv` (only `close()` cancels a lookup, a waiter has joined one that exists).
`FreshTarget` needs two steps: a lookup ends within `LookupTime` of its start
(`TimeInv`), so an entry ends at most `LookupTime` and its lifetime after its headers
came (`CacheInv`); an entry that is used has not ended. `LifetimeBound` is the lemma
about `Cache-Control`, `Age` and the limits.

**`TunnelProofs`.** That a stream has one owner needs to know where a stream can
be: `FreshInv` (one not yet delivered is nowhere) and `OwnerInv` (one that was
delivered is in at most one place, and an open one is in one, unless a cancelled
`accept()` dropped it or its relay is done with it).
`HandoffInv` says that a stream is in the hands of a task exactly while its future has a
result, so that a cancellation between `set_result` and the resumption can be followed.
`ClosesComplete` needs `RelayInv` (a running relay is a task the tunnel knows) and
`CloseInv` (no relay starts once `close()` gathers them). Theorems: `NobodyStranded`,
`StreamsHaveOneOwner`, `ClosesReachEverything`, `HardCloseLeavesNoneQueued`, and the
action property `ClosesTouchNothingElse`.

**`ControlRequestsProofs`.** `AgreesWithEngine` relates the two ends of a connection,
so the invariant describes what is on it: `WireInv` (a request id is used once, at
most one message about the opening of a tunnel is under way, and its close
follows it) and `EngineInv` (what the engine has opened, given what is on the wire).
`OneCloseRequest` needs `ShareInv`: while a close request is under way its future is
registered, unless a caller gave up. `CallInv` ties the state of a call to the
future it waits on.

**`ClientLifecycleProofs`.** `RequestInv` (at most one call writes the close request of
a channel, and `_closing` is set in the step that takes it on) gives
`ControlsClosedOnce`. What `Client.close()` leaves closed needs `OwnerInv` (an open client
has every open control registered, a closed one has one call that closes),
`PromiseInv` (a control the close promised is in its snapshot or being closed, or its
`_done` was cancelled) and `CancelInv` (the `_done` of a promised control that stays open was
cancelled with a call of `done()` of the application: the client cancels its watchers,
and with them the futures, when the controls are closed).
`PromiseWithoutWaiters` is the promise without an exception, for an application that
never waits on `done()`: the disagreement of the run `client_close_misses` has
no other cause.

**`HttpAdaptersProofs`.** All that matters about a stream is in its handler record, so
`GoodInv` is `Good(adapter, h[s])` of every stream: `Sound` (the body handed to the
application is within the limit and ends only when the client has sent it all),
`ReadOK` (a handler that still reads is within its limits and has no task to end yet),
`ExitOK` (one that leaves without having sent a head does so for a reason) and `EndOK`
(the task ends before the stream is closed, the stream before the handler). Every step changes one record or
cancels all of them, and the proof has one lemma for each kind of step.

**`InputsProofs`.** `IInv` keeps, of the client, the input and the verdict that
accepted it as of `expiredBefore` (`Kept`), and how the engine of a call and of the
channel was found: it is the configured one, or the API named it (`EngineFound`,
`KnownEngine`). The argument is about the lists of checks: an input accepted by a list passes each of its
checks (`PassedAll`), so a stored token, or stored certificate files, that survive
resolution imply that the engine was not overridden (`StoredTokenKeepsEngine`,
`StoredFilesKeepEngine`); a context is selected only for its own API unless it has none
(`ApiOfContext`); and `ResolvedSound` says what accepted options can be. From it
`StoredCredentialsKept` follows through each way of finding an engine: what the home of
a context names is home (`NamedIsHome`, `KnownIsHome`). `WebhookInv`
(signatures exist only with a key and a time of the clock) and `TunnelInv` (the message
on the wire is that of an accepted call) do the same for `WebhooksVerified` and
`TunnelsAsAsked`.

Only model-checked are the liveness properties (`HardCloseEndsRelays`,
`EveryRequestSettled`, `CallsEnd`, `DeadControlsForgotten`, `CloseEnds`, `CallersEnd`,
`ReceiveReleased`, `ServeFinishes`): TLAPS has no rules for fairness and `ENABLED`. The
four disagreements are counterexamples, which need no proof.

## 6. Mutants

Each property of a passing run has a mutant in `PROJECT.json`: a definition of
the model changed the way a plausible bug would change the code. The operators
stand right before the definition they replace, marked `Mutant`.

## 7. What the models leave out

Not modelled, and why:

- Bytes. Streams, messages and tunnels are values; a frame is read or not. The
  relay ends as the code ends it, but what a pump had not read yet is not counted.
  The length limit of a frame is a check of one integer.
- `asyncio` itself, TLS, h11 and sockets are external: a future is resolved once, a
  cancellation is delivered at the next suspension, a closed writer ends writes. Two
  threads on one loop, which asyncio forbids, do not occur.
- `watch()`: the state of an SSE or WebSocket stream is in the library it uses.
  Inventory filters and JSON are conversions without control.
- Headers for the control plane, `server_name` and CA files, the search for the
  configuration file and its YAML; `with_options()`.
- `stable_domains.py` (string formatting), generated protocol code, declarations,
  examples and scripts.
- In `ClientLifecycle` the resolution of options inside `connect()` is one step that
  may fail or be cancelled; `Credentials` has its steps, one call at a time.

Known limits of the code which the models contain, and to which the properties
make the exceptions they name:

- `connect()` racing `Client.close()` may register a control after the snapshot
  (`client.py:221`); the promise of `close()` is stated for the controls open when it
  began. A second `Client.close()`, or a retry after a cancelled one, returns at once
  and promises nothing.
- A `close()` of a channel already lost returns at once: tunnels closed softly
  keep their relays until they are closed themselves.
- A `close_tunnel()` caller that gives up unregisters the future that others wait on
  (`control.py:214`): the next caller sends a second request, and a waiter may
  be left to its timeout.
- A caller of `resolve()` joins a lookup under way also when it asks about another
  engine; a cancelled `close()` of the discovery returns before the lookup ended.
- A handler of the adapters that is cancelled before its first step, or in the
  `gather` of its finally block, leaves its stream open. A worker thread of the WSGI
  adapter outlives its cancelled handler.
- With `read_config_file=False` the certificate files of the environment are ignored
  while its token, engine and API are used (`config.py:390-397`).
- A certificate stored in the context is refused with another explicit engine even
  when an explicit token or `no_token=True` is given (`config.py:439-449`).
- An inline certificate and key in the `tls` argument, which cannot be loaded, count
  as the caller's own when an explicit engine is checked (`config.py:439-449`); the files
  stored in the context are merged under them (`config.py:201`), and these
  `create_ssl_context` loads. So a stored certificate is presented to an engine it was not
  stored for, which `docs/001-configuration.md:62-64` says is refused ("stored tokens or
  stored mTLS credentials from another context are refused"). `StoredCredentialsStayHome`
  fails without its exception `InlinePairOverrides`, for certificates only.
- A context without `apiUrl` goes with whatever API is selected (`config.py:605`): its
  stored token is sent to the API the caller names.
- `api_url=""` selects the context by the API of the file and then asks the default
  API, with the stored token of the context.
- The expiry of a token is compared with the clock once, when the options are resolved
  (`config.py:868`, `client.py:539-542`): one that expires later goes on being sent.
- `wait_closed()` in a relay has no timeout (`stream.py:82-86`): when a local service
  stopped reading, the task that `Tunnel.close()` gathers (`tunnel.py:171`) waits until it is
  cancelled once more, and `close()` with it; `README.md:156-157` of the repository says that
  a hard close "terminates active local forwarding".
- Of a list of header values `verify_event` reads the first only, and an empty list is
  an `IndexError` and not the refusal `No signature header.` (`webhooks.py:101-106`); in the
  model the header is that first value, and an empty list is an empty header.
- An explicit token of white space counts as authentication.

## 8. Plan

1. A composition of channel and tunnel: the liveness expiry that closes tunnels
   softly, followed by the calls of `close()` that should make it hard.
2. The frame reader of `protocol.py` with its length limit.
