# A TLA+ model of the SIP voice gateway

This directory models the concurrent core of the repository: the Go load balancer
(`src/load_balancer`) and the C++ media server (`src/sip_outbound`) that connects SIP calls
to AI agents over WebSockets. TLC checks small instances, TLAPS proves the most important
results for every value of the constants. `PROJECT.json` maps each definition to the lines it
models and lists runs, hazards, mutants, findings and theorems.

## 1. The system

A client posts a call to the **load balancer**, which chooses a **media server** (container)
by load and proxies the request. The media server places the call through Asterisk with PJSIP,
or accepts an inbound call that Asterisk routed to it after asking the load balancer for a
contact. When the call is answered a **WebSocket** is opened to the AI agent: audio flows both
ways, and the agent can interrupt playback, ask for acknowledgements (checkpoints), hang up or
transfer the call to another agent or a human. Status changes go to the customer as
**webhooks**; the recording is **uploaded** when the call is over. Periodically the load balancer
probes `/health` of each media server for its number of calls.

| Component | State | Operations | Who runs them | Hard part |
|---|---|---|---|---|
| Registry, routing, heartbeat (`helpers.go`, `handlers.go`, `worker.go`) | Redis keys; `LSML`, `LSCS`, `IOSL` under `stateMu` | register, unregister, toggle, route, probe, restart | one goroutine per request, one worker | Redis and memory are written in separate steps; probes are applied after the lock was released; restarts |
| Call manager (`call_manager.cpp`, `call.cpp`, `account.cpp`, `simulated_call.cpp`) | `active_calls`, `simulated_calls`, `current_calls`, the call objects | initiateCall, endCall, onIncomingCall, onCallState, pump, terminate | HTTP threads, PJSIP threads, detached threads, pumps | who destroys an object, who decrements the counter, who reports the end |
| WebSocket link (`websocket_handler.cpp`, `audio_port.cpp`) | connection, `connected`, flags, reconnect budget, `ws_thread` | open, close, reconnect, three transfers, disconnect, cleanup | `ws_thread`, helper threads, cleanup thread | late opens, drops during transfers, teardown during a reconnect |
| Playback queue (`websocket_handler.cpp`) | `audio_queue`, `partial_frame`, checkpoint flag and id, `ringing_active` | playAudio, clearAudio, checkpoint, getAudioFrame, ringback | `ws_thread`, media clock, transfer thread | odd chunks, overflow, checkpoint fields written without the lock |
| Webhooks (`webhook_manager.cpp`) | a queue per worker, `running_` | send, worker loop, stop | any thread, workers | order under retries, lost answers, lost wakeups |
| Uploads (`upload_manager.cpp`) | one queue, `running_`, promises | submit, worker loop, stop | any thread, workers | jobs taken once, drained at shutdown |
| Recorder and mixer (`audio_recorder.cpp`, `audio_port.cpp`) | two pending buffers, two outputs, which stream is active, `is_recording` | start, write a frame, mix, discard, stop, upload | media clock, transfer thread, callbacks, destructors | streams that pause or start late, full buffers, a discard between taking and writing a frame |
| SIP registration and announcement (`account.cpp`, `loadbalancer.cpp`) | whether the account is registered | onRegState, post to the load balancer | PJSIP thread | posts are lost and not repeated; the load balancer forgets |
| Providers and DIDs (`db_manager.cpp`, `call_manager.cpp`) | MySQL rows, one connection per process | add and remove providers and DIDs, statement by statement | HTTP threads of several media servers | no transactions, lost connections, repeated statements, a connection shared without a mutex |
| Asterisk manager client (`ami_manager.cpp`) | none between calls | connect, log in, command | HTTP threads | waits without a timeout |
| Ringback file, dashboard, test server, deployment | none between calls | | | not modelled |

What makes each correct:

* load balancer: the three structures agree under every interleaving, memory follows Redis as
  long as requests for a server do not overlap, routing picks the least loaded healthy server,
  counts recover from drift;
* call manager: the counter drifts for known reasons only, the limit is respected up to a known
  slack, each end is reported once but for one named case, objects are not destroyed before the
  call is over;
* link: a call that is up has a link or somebody who restores it or hangs up, and every thread
  comes to its end;
* playback: bytes are played in order, once, and never after an interruption; acknowledgements
  are in order and arrive;
* webhooks and uploads: order, exactly one owner of each job, nothing forgotten;
* recorder: each stream in order, nothing lost but at a limit, nothing from before a transfer;
* announcement: the load balancer comes to know a server that is up, whatever was lost;
* providers: what a successful answer says of the rows is true, and failures have a cause.

## 2. The modules

`MC*.tla` define small sets for the `.cfg` files, and the formulas of section 5 that contradict the
repository. Operators keep the names of the code
where TLA+ allows it; an operator whose comment begins "Bug:" or "A plausible bug:" is a mutant
and belongs to no specification.

**LoadBalancer.** `redis`, `LSML`, `LSCS` (with `INF` for `math.MaxInt`), `InboundServers`,
`OutboundServers`; per request slot a program counter, the input and the handler's local
registration; the heartbeat round (`hbTarget`, `hbReply`); the hosts as environment. A step is
one Redis command, one critical section of `stateMu`, or one HTTP call: `RegisterGet`,
`RegisterSet`, `RegisterMem` are the three parts of `RegisterContainerHandler`, and so on.
`Restart` loses everything but Redis and runs `InitServerArrays` on what a SCAN yields: any
sequence of the stored keys (`Scans`), in which, as Redis documents, a key may come more than
once; each occurrence is appended to the lists (`Selections`). A failing Redis command may or may
not have taken effect. The type of a call selects names (`NamesOfType`) instead of
matching substrings.

**CallManager.** The calls of one media server: `initiateCall` (check, then counting, much
later), inbound calls, simulated calls with their pump, the DISCONNECTED callback with its
delayed webhook, the media port and its cleanup thread, and `endCall` with its detached thread.
`place[c]` says who owns the object. PJSIP is external: it has as many call slots as the limit,
serialises the callbacks of one call, and throws `pj::Error` from `hangup` on a call that is
over. A step without a defined outcome (a deleted object used, a null call, an exception nobody
catches, a joinable thread destroyed) sets `fault` and ends the behaviour. `setupMedia` opens
a port that has its WebSocket; what happens on the link is WebSocketHandler's subject, except
for one thing that holds up the threads of this module: `disconnect()` joins `ws_thread`, and a
reconnect that succeeds after `disconnect()` found the link down makes that wait as long as the far
end keeps the connection (`LateOpen`, `FarEndCloses`). The pump (`PumpLeaves`, `PumpEnds`) and
`terminate()` (`SimTerminate`, `SimJoined`) do not pass it meanwhile, and `CleanupPort`, which runs
the same join, is not fair.

**WebSocketHandler.** One handler from its first successful connect to its deletion. `ws` is
what `ws_thread` does, `kind`, `step` and `uri` are the detached helpers (reconnect, agent,
human and phone-number transfer). `connect()` is Join, Joined, Start, Poll, because other
threads run in between; the check of the reconnect budget and its increment are two steps
(`CloseHandler`, `CloseReconnects`; `ReconnectFails`, `Retry`). Joining or replacing a thread
that is being joined, and using a deleted handler, are faults. Of `ws_uri` only whether it
contains "rupture2" is kept. The phone-number transfer sends a REFER
(`websocket_handler.cpp:891-925`, `call_manager.cpp:638-683`); `src/README.md:171` still
describes `transferToHumanNumber` and a bridge, which no code calls any more.

**AudioQueue.** Audio as positions in the stream of bytes ever enqueued: a frame is the
position of its first byte, the carry-over a number of bytes. Chunks of any length are cut as
`enqueueAudio` cuts them, in the default mode (stop at the limit) and the realtime mode (drop
the oldest). The flag and the id of a checkpoint are stored in two steps, without the lock.

**WebhookDelivery, WebhookManager.** The abstract promise (per call: post the oldest pending
event, perhaps repeatedly, until it is delivered or given up) and the sharded workers with
their queues, condition variables, retries and `stop()`. A POST may be received although its
answer is lost. `ImplementsDelivery` maps `pending[c]` to the numbers of the events of call `c`
that are queued or in a worker's hands; that the one being posted is the oldest of them is part
of what is shown.

**UploadManager.** The pool: one queue, shared by the workers, with promises, retries, spurious
wakeups, submissions after `stop()` and the draining shutdown.

**AudioRecorder.** A frame is its number in its stream and the time it was added (the unit is
the 20 ms of a frame); samples do not matter. `addFrame` is the code's, with its three branches
and its loop; every method of the recorder holds the mutex throughout and is one step. Taking a
frame from the queue or from PJSIP (`TakeFrame`) and writing it (`writeFrame`) are two, because
a transfer may discard in between. The caller's frames come one per 20 ms on average, in bursts
after a stall: the pump sleeps until a fixed tick (`simulated_call.cpp:137`, `164`), and a media
clock catches up. `ahead` counts how far the stream is ahead of one frame per period, and
`MaxBurst` bounds it. The `while` loop of `processBuffers` is a function of the
number of iterations (`Iterations`, defined by recursion on it); as each removes a frame, it is
evaluated at the number of pending frames. `MAX_BUFFER_SIZE`, `MAX_SILENCE_FRAMES`, the window of one
second and the synchronisation distance are constants; in the code, and in the instance, the
window is as long as the buffer.

**DbManager.** A request is a sequence of statements on the tables of `asterisk.sql`, of which
the keys are kept (a set of providers per table, a provider per DID). Of the values, which the
code pastes into its statements, it is kept which statements of the request the server refuses for
them (`unfit`): a value longer than its column, or a quote. `Enter`, `Query`, `Again`
are the three places of `executeSqlQuery`: is there a connection, the first attempt, the second.
A lost connection may or may not have executed the statement. Two threads of one process inside
the client library have no defined outcome and set `fault`. `claim`, `raced` and `clean` are
history: what the last undisturbed request promised, which rivals overlapped a request, and
whether an addition began with no row. `AmiConnect`, `AmiLogin`, `AmiCommand` are the
registration check after an addition.

**Announcement.** EXTENDS LoadBalancer with the SIP account of each media server: `onRegState`
posts the server's name and address as a register request of the load balancer's own handler,
or loses the post. Servers, operators, heartbeat, Redis and restarts are those of LoadBalancer.

## 3. The runs

All bounds are named constants of the modules.

| Run | Instance | Shows |
|---|---|---|
| `lb_registry` | 2 servers, 2 addresses, 2 requests that may overlap, no Redis errors, restarts with scans of up to 2 names | `TypeOK`, `StructuresAgree` (`MapsAgree`, `EnabledListed`, `HealthyIffFinite`), `GhostsOnlyFromScan`, `MirrorsUnlessOverlap` |
| `lb_routing` | 2 servers on one host, whose counts and health differ by when and how they were probed, 1 request, typed and untyped calls, contacts, Redis errors, the host and probes failing, restarts with scans of up to 2 names, counts to 2 | `RoutesToLeastLoaded`: stated over the metadata, while the search reads lists and counts |
| `lb_announce` | 1 server with its account, 2 addresses, 1 request at a time, no Redis errors, hosts failing, fair | `CountsConverge`, `KnownAgain` |
| `cm_calls` | 2 HTTP threads, 2 calls of any kind, limit 1, fair | `TypeOK`, `CountersSound` (`DriftExplained`, `OvershootBounded`), `EndReportedOnce`, `DestroyedWhenOver`, `EndedCallReported` |
| `wm_events` | 2 workers, 2 calls on one shard (one without a URL), 2 events each, stop, fair | `TypeOK`, `InOrder`, `ImplementsDelivery`, `EventsLeaveQueue`, `StopReturnsUnlessMissed` |
| `um_pool` | 2 workers, 3 jobs, late submissions, stop, fair | `TypeOK`, `OnePlace`, `StopDrains`, `ResultsFinal`, `JobsResolved` |
| `ws_link` | 2 helper threads, budget 2, one transfer of any kind, fair | `TypeOK`, `SomeoneInCharge`, `DropHandled`, `TransferSettles`, `CleanupEndsUnlessLateOpen` |
| `aq_playback` | frames of 4 bytes, chunks of 2, 5 and 10, limits 1 and 2, 20 bytes, 2 checkpoints, one transfer, drops, fair | `TypeOK`, `StreamIntact` (`Contiguous`, `PlaysForward`, `NothingStale`), `AcksTruthful`, `CheckpointAcked` |
| `ar_recording` | buffers of 2 frames, window 2, distance 1, bursts of 2, 3 agent and 8 caller frames, time to 7, one discard after another | `TypeOK`, `RecordingsSound` (`OneSidePending`, `RecordedInOrder`, `SidesAgree`, `UploadedOnce`), `PostTransferOnly`, `CallerGapBounded`, `DropsOnlyWhenFull` |
| `db_rows` | 1 provider, 1 DID, 2 threads of one or two processes, all six requests, and six with values that do not fit | `TypeOK`, `AddedIsComplete`, `RemovedIsGone`, `FailureExplained` |

Runs that end in a violation, each of something the repository says of itself:

| Run | Property | What the code does |
|---|---|---|
| `cm_freed` | `ObjectOutlivesCallbacks` | `endCall` destroys a call whose callback still sleeps before its webhook (`call_manager.cpp:721`; `call.cpp:330`) |
| `ar_once` | `WrittenOnceToUserOnly` | a caller frame is written to `user_only_buffer` again when only an agent frame is consumed (`audio_recorder.cpp:174`; `147`) |

Why the bounds are enough for the interesting cases:

* Two servers give every order of a list, and scans of two names (`MaxScan`) a repeated one; two
  requests give every race, since all handlers of a server race pairwise on the same key and the
  same lock.
* `lb_registry` has two slots, so requests for one server do overlap in it, and memory and Redis
  do become different then (section 5): what passes is that nothing but the overlap does this. That
  the structures agree after Redis errors and failing probes too is proved (section 4).
* `ws_link` has one transfer, so what one transfer does to the flag of another (section 5) is
  outside that run.
* A limit of 1 with two threads and two calls is the smallest instance in which the admission
  check is overrun; two calls are also enough for a failed simulated start to raise the limit for
  another call.
* One shard with two calls puts a foreign event between two of a call; the second worker is
  needed for `stop()`.
* A budget of two with two helpers lets a late connection and a retry overlap, which is what
  makes reconnecting hard.
* Chunks of 2, 5 and 10 bytes with frames of 4 give less than a frame, an odd length, and more
  than two frames with a rest; two frames of limit are exceeded by one chunk.
* Eight caller frames against a buffer of two let the caller fill the buffer, wait for a whole
  window, be flushed and wait again; three agent frames start, stop and start that stream. A burst
  of two reaches the bound of `CallerGapBounded`: with one less the run fails.
* One of the requests that do not fit fails at its last statement, after three rows were inserted;
  others fail at once, in the middle, or everywhere.
* One provider is enough because statements of different providers touch different rows; two
  threads are one rival of each kind, and the proofs cover any number.

Deadlock is checked in the load balancer's runs, which never stop (`lb_announce` too). The other
systems really may stop: a call is over, a process shuts down, a bound is reached, or a fault
ends it.

**Fairness.** Threads and goroutines that can run do: handlers of requests in flight, the
heartbeat loop (its HTTP client has a timeout, `worker.go:17`), webhook workers (each POST has
a timeout, `webhook_manager.cpp:101`), upload workers between two PUTs, the reconnect and
transfer threads, the cleanup thread, and `stop()` once it was called. A PUT of a recording has
no timeout (`audio_recorder.cpp:452-573`), so it need not end and `JobsResolved` is conditional
on no worker being stuck in one. The join in `disconnect()` need not end either after a late open,
so `EndedCallReported` is conditional on the far end closing such connections, and
`CleanupEndsUnlessLateOpen` names the case. PJSIP's clock asks for frames forever. websocketpp ends every attempt to open and
every close by a timer. Nothing is assumed of the environment: nobody has to call, to hang up,
to drop or to keep a connection, to send audio or to answer a POST well, and no wakeup is
assumed that nobody sends. `CountsConverge` is conditional on the server, its host and the
calls in flight becoming quiet. `KnownAgain` assumes in addition that of the registrations PJSIP repeats
forever (`retryIntervalSec`, and a refresh before each expiry) some are accepted and some of
their posts arrive while the process runs (strong fairness): with a registrar or a network that
never works nothing can be said. DbManager and AudioRecorder need no fairness: they are checked
for safety only.

**Mutants.** For each property of a passing run `PROJECT.json` names a change that a plausible
slip in the code would make (a dropped guard, a missing reset, an off-by-one, a forgotten
notification) under which TLC finds the property violated.

## 4. What is proved

| Theorem | Statement |
|---|---|
| `LoadBalancerProofs!TypeCorrect` | `Spec => []TypeOK` |
| `LoadBalancerProofs!MemoryConsistent` | `Spec => []StructuresAgree` |
| `LoadBalancerProofs!RoutingCorrect` | `Spec => RoutesToLeastLoaded` |
| `LoadBalancerProofs!GhostsExplained` | `Spec => GhostsOnlyFromScan` |
| `LoadBalancerProofs!MemoryMirrorsRedis` | `Spec => MirrorsUnlessOverlap`, if `RedisMayFail = FALSE` |
| `LoadBalancerProofs!AnnouncementImplementsRegistry` | `ASpec => Spec` |
| `LoadBalancerProofs!AnnouncedServersMirrored` | `ASpec => []StructuresAgree /\ MirrorsUnlessOverlap`, if `RedisMayFail = FALSE` |
| `CallManagerProofs!TypeCorrect` | `Spec => []TypeOK` |
| `CallManagerProofs!CounterDrift` | `Spec => []CountersSound` |
| `CallManagerProofs!EndOnce` | `Spec => []EndReportedOnce` |
| `CallManagerProofs!DestroyedOver` | `Spec => []DestroyedWhenOver` |
| `WebSocketHandlerProofs!TypeCorrect` | `Spec => []TypeOK` |
| `WebSocketHandlerProofs!NeverAbandoned` | `Spec => []SomeoneInCharge` |
| `AudioQueueProofs!TypeCorrect` | `Spec => []TypeOK` |
| `AudioQueueProofs!AudioIntact` | `Spec => []StreamIntact` |
| `AudioQueueProofs!AcksReached` | `Spec => AcksTruthful` |
| `AudioRecorderProofs!TypeCorrect` | `Spec => []TypeOK` |
| `AudioRecorderProofs!RecordingsCorrect` | `Spec => []RecordingsSound` |
| `AudioRecorderProofs!TransferClean` | `Spec => []PostTransferOnly` |
| `AudioRecorderProofs!DropsBounded` | `Spec => DropsOnlyWhenFull` |
| `AudioRecorderProofs!CallerGap` | `Spec => []CallerGapBounded`, if `WINDOW <= MAX_BUFFER_SIZE` |
| `WebhookManagerProofs!TypeCorrect` | `Spec => []TypeOK` |
| `WebhookManagerProofs!OrderKept` | `Spec => []InOrder` |
| `WebhookManagerProofs!WorkersImplementDelivery` | `Spec => ImplementsDelivery` |
| `UploadManagerProofs!TypeCorrect` | `Spec => []TypeOK` |
| `UploadManagerProofs!OneOwner` | `Spec => []OnePlace` |
| `UploadManagerProofs!ShutdownDrains` | `Spec => []StopDrains` |
| `UploadManagerProofs!PromisesFinal` | `Spec => ResultsFinal` |
| `DbManagerProofs!TypeCorrect` | `Spec => []TypeOK` |
| `DbManagerProofs!AdditionsHold` | `Spec => []AddedIsComplete` |
| `DbManagerProofs!RemovalsHold` | `Spec => []RemovedIsGone` |
| `DbManagerProofs!FailuresExplained` | `Spec => FailureExplained` |

They hold for every value of the constants that satisfies the module's assumption
(`LBAssumption`, `HomeAssumption`, `CMAssumption`, `WSAssumption`, `AQAssumption`, `ARAssumption`, `WMAssumption`,
`UMAssumption`, `DBAssumption`): any number of servers, hosts, concurrent requests, workers, calls, events,
recordings, helpers, providers, DIDs, threads and processes, any hash function, budget, call
limit, frame length, chunk size, queue limit, activity window, synchronisation distance, burst,
length of a scan and set of values that do not fit. The assumptions say that sets that are counted
are finite, that bounds are numbers, that the "missing" value is none of the others, and that
inputs are requests. Some say a little more, each from the code: a frame is a
positive, even number of bytes (16-bit samples) and the realtime queue limit is positive and not
above the default one; an upload pool has at least one worker (`upload_manager.cpp:12`); the
limit of calls, and that of a pending buffer of the mixer, is not zero; and among the requests
clients send are those that the media servers post (`HomeAssumption`).

* **Load balancer, structures.** None of the three invariants is inductive alone:
  `RegisterServer` decides from `LSML` whether to create the `LSCS` entry, and `ToggleServer`
  computes the lists from the flags in `LSML`. `IInv` joins them with `TypeOK` and `RequestsOK`
  (what a handler's program counter says of its input and its local copy). Nothing is assumed of
  the lists a scan builds: the lemmas on `Listed` and `Without` say what the slice operations do to
  a list in which names may be repeated (every other name stays, a removed name stays if it was
  there twice), those on `Selections` that a scan lists what is enabled. `GhostsExplained` says
  what can be said of the names that should not be listed: they are left by the removal of one of
  several entries, and only a restart makes several. `RoutingCorrect` follows from `IInv`: through
  `EnabledListed` the list that is searched has every eligible server, through `HealthyIffFinite` a
  finite count is a healthy server.
* **Load balancer, memory and Redis.** A handler writes Redis first and the memory later, without
  a lock around both. With overlapping requests for one server, or a Redis that fails, the two can
  stay different (section 5). `MirrorsUnlessOverlap` says that nothing else does this: its
  hypothesis `OnePerServer` allows any number of requests for different servers, routing, heartbeat
  rounds that apply old probes, and restarts in the middle of a handler. `SyncInv` says that only a
  handler between its two writes makes a server differ (`ServersInSync`), and that what this
  handler holds is what Redis has and what it will make of the memory (`InSync`). `AdminFrame`
  reduces a handler's step to its own server, `QuietSync` disposes of the steps that move no
  registration. Nothing of the kind is claimed for the flags of a re-registration: without an
  overlap they cannot change, and with one they do (section 5).
* **Announcements.** Of what happens to a server's SIP account only the post reaches the load
  balancer, and the post is a register request that may arrive (`PostArrives`); a refusal, a lost
  post and the end of an account are stutters (`ANextNext`). So the composition implements
  `LoadBalancer!Spec`, and its theorems hold of it. `OnePerServer` stays a hypothesis of the mirror:
  `onRegState` does not post while its own post is being served, but an operator's request for
  the same server may overlap with it.
* **Calls.** `current_calls` is a sum over calls, so `IInv` says of each call (`CallOK`) what
  its kind may have, which states of PJSIP go with which owner, how far its callback is, and
  who has discounted a simulated call: the pump or `terminate()`, told apart by `terminated`.
  `Accounting`, the counter as a sum over kinds of calls, and its bound `CounterBounded` then change
  with one call and one thread per step; lemmas on cardinality say by how much. `DriftOfSum` turns
  the sum into what `DriftExplained` says: the difference to the calls in progress.
* **Link.** A reconnect thread ends well only with a live link, which rests on
  `LinkWhenConnected`; it is not given up, which rests on `OverFirst`; nobody but reconnect
  threads exists before the first transfer (`NoTransferYet`, `HelpersOK`).
* **Playback.** That the queue holds the last bytes received, without a gap (`Contiguous`), is
  arithmetic on the positions of frames: `Joined` says what cutting a chunk behind a carry-over
  appends, `Suffix` what dropping the oldest frames leaves. `StreamIntact` is not inductive
  because an empty queue forgets what was played: `PlayedOK` keeps that below the carry-over and
  below every queued frame. For acknowledgements `IdsOK` and `AcksOK` order the ids: those
  acknowledged, the pending one, the one the message handler has read and not yet stored.
* **Recording.** What the loop of `processBuffers` computes, for buffers of any length, is shown
  by the least counterexample: a set of natural numbers that is not empty has a least element
  (`LeastNumber`, from the well-foundedness of `<`), so the recursive function exists and is what
  its equation says (`RunExists`, `RunUnique`, `IterationsDef`), and so no number of iterations is
  the first after which the mixer is not sound (`MixBuffersSound`). `Sound` says of the four lists
  of a mixer what `RecordedInOrder` and `SidesAgree` say, and holds between two iterations too;
  `Kept` says that no frame appears or disappears. Lemmas on columns and numbers of the lists
  carry them through every branch (`MixFrontSound`, `FlushAgentSound`, `FlushUserSound`), and
  through a push at the limit (`AddAgentFrame`, `AddUserFrame`). A new frame keeps the order only
  if it is newer than everything in the mixer. So the inductive invariant `Ind` adds
  that all frames in the mixer lie between the last discard and the frame in the media thread's
  hand (`Fresh`, `Counted`), which is `PostTransferOnly` as well, and that nothing is handed over
  before the call stops (`Staged`).
* **Recording, gaps.** `CallerGapBounded` is about how the constants are tuned to each other, so
  `CallerGap` says when: a pending buffer holds no less than arrives within the activity window.
  In the code both are 50 frames of 20 ms (`audio_recorder.hpp:21`, `audio_recorder.cpp:93`), in
  the run both are 2. The danger is a caller whose frames are held back while the agent is silent
  and still counts as active: if the buffer filled long before the window ends, a frame would be
  dropped at each period. A burst that meets the full buffer drops as many frames as it has, which
  is why the bound has `MaxBurst` in it. The inductive invariant `Pace` counts the caller's frames
  with the clock, and `ahead` for the frames that came before their time. While the agent is active: pending frames of the caller are consecutive up to the latest
  (`Consecutive`), the first of them is near the last recorded one (`Near`), and when the agent has
  nothing pending the caller was recorded until about the agent's last frame (`Soon`). A full
  buffer then spans the window, so it drops a frame only about when the window ends and what is
  pending is flushed. A returning agent may find a gap; until it is closed the agent's frame is one
  of the current period (`InStep`). The loop of `processBuffers` keeps all of this by the same
  least counterexample (`MixBuffersPaced`), and `Chain` turns it into the distance between
  neighbours. TLC was given the bound before it was proved, and reaches it.
* **Webhooks.** `IInv` follows an event through its shard: queues are sorted per call
  (`QueueSorted`), hold only events of their shard (`QueueOK`), the event in hand is older than
  the queued ones (`DataOK`) and not older than what was received (`ReceivedOK`). The refinement
  needs in addition that an idle worker holds nothing (`HandsFree`). `SendRefines` maps an
  enqueued event to `Enqueue`; taking an event from the queue is a stutter (`TakeRefines`);
  answers received or lost, retries and the end of an event map to `Deliver`, `Receive`,
  `Repeat` and `GiveUp` of the oldest pending event (`HandOldest`, `PutDown`, `PostedRefines`,
  `AbandonRefines`); `StepRefines` joins them.
* **Uploads.** The number of owners is not inductive. `IInv` says who they are: the queue
  repeats nothing and no two workers hold the same job (`NoneTwice`), a worker holds a job
  exactly while it uploads or resolves it (`HandsOK`), and the queued and held jobs are the
  pending ones (`PendingOK`). `ShutdownOK` carries the draining: the first worker that leaves
  saw an empty queue after `running_` was reset, so whatever is queued afterwards came late.
  `TruthOK` is why a promise that says "stored" is true.
* **Providers.** A promise is about rows that other threads also write. `IInv` follows each
  request through its statements: an addition that met no removal has the rows it passed
  (`AddProgress`), a removal that met no addition has emptied what it passed
  (`RemoveProgress`, `DidsRemoved`), an addition that began on an empty provider finds nothing
  in its way but its own values (`CleanAddition`); rivals are noticed (`RacesNoted`) and promises end when the
  opposite operation begins (`ClaimsCurrent`). The foreign keys (`ForeignKeys`) carry the one
  case a removal does not control: a DID added between its first and its last statement makes
  the last one fail. `SqlMoves` reduces every step of `executeSqlQuery` to "one thread moves,
  and its statement was executed or nothing was", so that each part of the invariant is shown
  once and not per step.

Only model-checked:

* what must eventually happen: `CountsConverge`, `KnownAgain`, `EndedCallReported`,
  `EventsLeaveQueue`, `StopReturnsUnlessMissed`, `JobsResolved`, `DropHandled`, `TransferSettles`,
  `CleanupEndsUnlessLateOpen`, `CheckpointAcked`. They rest on fairness and ENABLED, which the
  proof system does not handle;
* the two violated properties, which are false.

## 5. Observations

Met while modelling, besides the violated runs of section 3. Each is a state TLC reaches; the formula
in brackets is an invariant (or property) that fails when it is given to TLC.

The first six contradict what the repository says of itself. Their formulas are defined in the
`MC` modules (`LSMLSameAsRedis` in LoadBalancer) and fail in the instances of section 3, the fifth
with two transfers instead of one.

* `main.go:22` says of `LSML` "in short, same as redis". The handlers write Redis first and the
  memory later, without a lock around both (`handlers.go:86-92`, `108-118`, `162-165`): two requests
  for one server that overlap can reach the two in different orders, and then, with nothing in
  flight, memory and Redis hold different registrations [`LSMLSameAsRedis`].
* `handlers.go:55` says "Preserve existing inbound/outbound state from Redis if re-registering". The
  flags are read at line 59 and written back at line 86: a toggle that is served in between is
  undone, in Redis and in memory [`ReRegisterPreservesFlags`].
* `main.go:48` and `helpers.go:27` describe the lists as the names of the enabled servers.
  `InitServerArrays` appends a name for each key that the SCAN returns (`helpers.go:83-90`), and a
  SCAN may return a key twice, while `updateIOSL` removes the first occurrence only
  (`helpers.go:165-190`): a server that was listed twice and is disabled or unregistered stays
  listed [`IOSLOnlyEnabled`]. If it is only disabled it is routed to
  [`RoutesToLeastLoaded` with `Eligible` alone]; an unregistered one is skipped, having no count.
  Each further toggle or registration that leaves it disabled removes one more entry.
* `MANUAL_TEST.md:157-161` takes the reported `current_calls` for the number of live calls, and the
  load balancer routes by it. A simulated call that cannot connect is destroyed before
  `initiateCall` has counted it, and its destructor discounts it (`simulated_call.cpp:59-61`,
  `70-77`, `115`): the counter is one too low from then on [`CounterIsCallsInProgress`]. One that its
  pump finishes before it is counted takes one off until then. The counter can be negative
  [`current_calls >= 0`], and since the limit is compared with it, each failed start admits one
  call more.
* `websocket_handler.cpp:902-903` says "agent_transfer_in_progress is already true, so the close
  handler won't tear the SIP call down or try to reconnect". The flag is one for all transfers: the
  end of another transfer (lines 770, 826, 831, 869) resets it before a phone-number transfer
  that was requested meanwhile has closed the connection [`FlagCoversClose`].
* `src/README.md:96` says of `playedStream` that it acknowledges "that a specific checkpoint has
  been reached in playback (audio queue emptied)". In the default mode a full queue leaves what it
  does not take in `partial_frame` (`websocket_handler.cpp:304`), where whole frames wait until more
  audio arrives; when the queue runs empty, a checkpoint behind them is acknowledged although they
  were not played [`CheckpointReached`].

The others:

* A simulated call that cannot connect has its end reported twice: `start()` sends "fail"
  (`simulated_call.cpp:75`) and the destructor "completed" (line 113)
  [`EndReportedOnce` without its first disjunct]. Everybody else's end is reported once.
* `terminate()` and the pump of a simulated call, and the cleanup thread of a SIP call, wait in
  `disconnect()` for as long as the far end keeps a connection that opened late: no webhook is
  sent, the counter stays, and a client's `endCall` has been answered
  [`EndedCallReported` without `<>[]~late[c]`].
* Two requests pass the limit check together, and inbound calls are not checked
  [`Cardinality(InProgress) <= MaxCalls`]. `OvershootBounded` says how far this goes.
* A call that is over stays in `active_calls` until a client ends it: the cleanup announced at
  `call.cpp:331` is commented out [`cb[c] = "done" => place[c] # "map"`].
* `endCall` calls `hangup` on a call that ended after `getInfo`; `pj::Error` leaves a thread
  that catches `std::exception` only [`fault # "hangup_error"`]. A simulated call whose pump
  finished it is destroyed with a joinable thread [`fault # "joinable_thread"`].
* `onIncomingCall` answers through `active_calls[call_id]` without the lock
  [`fault # "null_call"`].
* A recording submitted after the upload workers have left is never resolved
  [`result[j] = "pending" ~> result[j] # "pending"`]; `upload_manager.hpp:49` promises a result.
* The reconnect budget is checked and taken in two steps
  [`reconnect_attempts <= MAX_RECONNECT_ATTEMPTS`].
* A new agent's connection that drops before the transfer thread resets
  `agent_transfer_in_progress` is ignored by the close handler: the call stays up with nobody
  in charge [`call = "up" /\ ~agent_transfer_in_progress => InCharge`].
* A connection that opens after `disconnect()` looked at `connected` is closed by nobody on
  this side [`cleanup # "none" ~> ws # "open" \/ fault # "none"`].
* In the default mode a full queue leaves the rest in `partial_frame`, which has no limit,
  while `src/README.md:43` says that overflows are dropped
  [`partial_frame < bytes_per_frame`].
* A checkpoint that arrives with the queue already empty is acknowledged only after later
  audio.
* `websocket_handler.cpp:499` says "If SIP started tearing down while we were waiting, abort the
  reconnect"; `disconnect()` sets `intentional_close` only when connected, and a reconnect is
  not: it goes on after teardown
  [`[][kind[h] = "reconnect" /\ step[h] = "pause" /\ step'[h] = "join" => cleanup = "none"]_vars`].
* A simulated call may report "completed" before "ringing": the pump starts first
  (`simulated_call.cpp:89`).
* Any HTTP answer to an announcement counts as success (`loadbalancer.cpp:109`), the 503 of a
  Redis error too; nothing withdraws the announcement of a server whose registration ended.
* The MySQL connection is shared by all threads of a process [`fault # "shared_connection"`].
* An addition and a removal of one provider that overlap can both be answered with success and
  leave an endpoint without its auth or aor row [`AddedIsComplete` if `Promised` ignores `raced`].
* An INSERT whose answer was lost after it was executed fails on its own key when it is repeated:
  the rows are there and the answer is 500. A repeated request then fails on the rows the first
  one left; only a removal clears them.
* A query without a connection is answered like an empty table: `GET` of the accounts succeeds
  with an empty list, and an inbound call gets the default webhook (`db_manager.cpp:247-250`).
* `recv` on Asterisk's manager interface has no timeout (`ami_manager.cpp:92`, `144`): an
  add-provider request may hold its HTTP thread forever.
* What is pending in the mixer when a recording stops is dropped, although
  `simulated_call.cpp:168` speaks of a flush; and since the check at `audio_recorder.cpp:98` is
  commented out, the agent's frames are dropped at the limit when a caller stops sending.
* After a stall of the media clock or of the pump a burst of caller frames meets a buffer that is
  full of held-back frames: the caller loses as many consecutive frames as come at once
  [`CallerGapBounded` without `MaxBurst`].
* Provider values are not checked before they are pasted into SQL. `ps_registrations.id` is the name
  with `_registration` appended, in 40 characters, and `ps_auths.id` the name with `_auth`: with
  MariaDB's strict default a name of 28 to 35 characters is accepted by the first three INSERTs and
  refused by the fourth, which leaves three rows behind; a domain of more than 40 characters is
  refused by the third (`from_domain`), and a quote by the statement that has it
  [`FailureExplained` without `Fits(t)`]. A value with a quote that makes another valid statement
  is outside the model.

## 6. Not modelled, and why

* Audio samples (volume, mu-law, resampling, WAV), signing and hashing: conversions of data
  without state that any property here depends on.
* Listing endpoints and the AMI pass-through of the load balancer, `getCallDetailsFromAMI`: they
  change no state.
* The bridge leg of `transferToHumanNumber` and `bridgeWithPeer`: no caller.
* The end of the media server's process: `~CallManager` stops webhooks and calls in order
  (`call_manager.cpp:297-352`), but `serve()` does not return and no signal is handled. It is
  reached only through the debugging endpoint `/crash`: type 0 calls `std::exit(0)` in an HTTP
  thread (`call_manager.cpp:1182-1187`), which runs the destructors of static objects while all
  other threads go on.
* `uploadMixedToR2`, `uploadUserOnlyToR2`: no caller.
* Responses to clients and logging.
* A POST that a receiver handles after it has timed out: `InOrder` is about the order of sending.
* MySQL, AMI, Asterisk, PJSIP, websocketpp and curl themselves: external; modelled from how
  the code uses them where it matters.
* The dashboard, the human-transfer test server, the Asterisk configuration, the tunnels.

## 7. Plan

Done, in this order: LoadBalancer, CallManager, WebhookManager with its abstract
specification, UploadManager, WebSocketHandler, AudioQueue; AudioRecorder, DbManager,
Announcement composed with LoadBalancer; proofs of the load balancer, the webhook order, the
link and the providers; proofs of the upload pool, the calls and the playback queue, of the
refinement of WebhookDelivery, of the agreement of memory and Redis, and of the recording with
the loop of `processBuffers`; proofs of the bound on the caller's gaps and of the announcements.
Every invariant and action property of a passing run is stated by a theorem.

Next: CallManager composed with WebSocketHandler: a link that fails at the first connect
(`call.cpp:357`) and hangups from both sides.
