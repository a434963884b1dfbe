# Verification of the MiniCPM-o serving stack

TLA+ models, TLC runs and TLAPS proofs for the program logic of this
repository: the gateway that shares GPU workers among WebSocket clients
(`code/MiniCPM-o-Demo`), and the C++ streaming engine behind the workers
(`code/llama.cpp-omni/tools`).

## 1. Inventory

A client opens a WebSocket to the **gateway** (`gateway.py`).  The gateway asks
the **worker pool** (`gateway_modules/worker_pool.py`) for a worker, keeps the
client informed of its place in the queue, and then relays frames between the
client and a **worker** process (`worker.py`).  The worker bridges its one
session to an **inference backend** that speaks the same protocol in two
versions: a Python server (`py_backend/server.py`) around the PyTorch model, and
the C++ server (`tools/server/server-omni.cpp`, `ws_handler.cpp`, `session.cpp`)
around the duplex engine (`tools/omni/omni.cpp`).

| Component | State | Operations | Hard behaviour |
|---|---|---|---|
| Worker pool | worker statuses, dispatch flags, `OrderedDict` of waiting tickets, futures | enqueue, cancel, mark busy, release, refresh, relocate; every one ends in a dispatch or leads to one | grants made from stale health reports; a release by someone who no longer owns the worker; order of grants; capacity |
| Gateway handlers | where each coroutine is suspended, the client's connection | arrive, send notices, poll the future every 3 s, connect, relay, time out, release | an event between any two awaits: a client that leaves, an admin's cancel, a future resolved during a send |
| Health checks and registrations | GETs in flight, answers not yet applied | sweep, answer, apply, dispatch | answers older than the grant they meet; a sweep delayed by a dead worker (5 s) |
| Worker bridge | idle/busy status, one session | accept or refuse, relay, close the backend session | turns idle only after the backend is closed, which the gateway does not wait for |
| Python backend | active session, operation lock, deferred finalize | init, push, close, fatal | two ways to close, only one under the lock; a close that fails half-way |
| C++ session layer | the one `OmniSession`, the shared `omni_context`, its mutex | allocate, activate, prefill, decode, close, disconnect, fail fast | handler thread and HTTP close race around a context shared with the next session |
| C++ duplex pipeline | prefill queue, encoder packets, break flag, done flags | push frame, encode, prefill, decode, break, stop | condition variables, a break between two queues that must stay paired |
| C++ duplex session | queues of pending and handed frames, results, a counter of what is under way | begin, push frame, wait for a result, end | two workers and a drain that polls; notifications without the mutex |
| Sliding window | recorded units, preserved prefix, cache length | unit start/end, drop, enforce | the record must keep adding up to the cache over any number of evictions |
| C++ simplex turns: LLM, TTS and token-to-wave threads | three queues, and flags without a mutex: `prefill_done`, `need_speek`, `speek_done`, `break_event`, the round | prefill, decode, break; prefill a batch, speak a chunk, write sound | flags that two threads set and reset; a turn that begins while the last one is still spoken |
| ETA, registries, presets, recording, front end, VAD, model processors | numbers, dictionaries, files, tensors | | no protocol between steps; not modelled (section 7) |

What makes each correct: leases are exclusive and always come back; no waiter is
lost, starved or overtaken; a relay never reaches somebody else's session; a
closed session leaves nothing behind for the next one; every frame that is
pushed is answered once; no thread waits for a signal that has been given.

## 2. The modules

| Module | Models | Composes / extends |
|---|---|---|
| `WorkerPool` | `WorkerPool` and `WorkerConnection`, closed with abstract callers | |
| `WorkerPoolRelocation` | the same when registrations may move a worker to another endpoint | extends `WorkerPool` |
| `Gateway` | handlers, clients, worker processes, sweeps and registrations | `Pool == INSTANCE WorkerPool` |
| `WorkerPoolProofs` | theorems about `WorkerPool!Spec` and `SpecRelocation` | extends `WorkerPoolRelocation` |
| `GatewayProofs` | `Gateway!Spec` implements `WorkerPool!Spec`; relays are private and leases leak by desertion only | extends `Gateway` |
| `OmniSessions` | the C++ backend: session manager, handler threads, HTTP close, and the context they share | |
| `OmniSessionsProofs` | theorems about `OmniSessions!Spec` | extends `OmniSessions` |
| `SlidingWindow` | the KV cache of a session and the two windows that evict from it | |
| `SlidingWindowProofs` | theorems about `SlidingWindow!Spec` | extends `SlidingWindow`, `SequenceLemmas` |
| `SequenceLemmas` | facts about sequences that need an induction, for any project | extends `SequencesExt` |
| `Monitor` | `std::condition_variable`: test, block, sleep, notify | |
| `DuplexPipeline` | the encoder and LLM threads of the duplex mode and the calls that drive them | instantiates `Monitor` |
| `FrameService` | what a duplex session promises: one answer to a frame, in order, in its own context | |
| `DuplexSession` | `omni_duplex_*` with its two workers, on top of the pipeline | extends `DuplexPipeline`; `M == INSTANCE Monitor`, `Promised == INSTANCE FrameService` |
| `DuplexProofs` | theorems about the pipeline; `DuplexSession!SessionSpec` implements `FrameService` | extends `DuplexSession` |
| `BackendServer` | the Python backend: handlers, HTTP closes, the deferred finalize | |
| `WorkerBridge` | the worker's one session, between its client and the backend | extends `BackendServer` |
| `WorkerBridgeProofs` | theorems about `WorkerBridge!Spec` | extends `WorkerBridge` |
| `SimplexTurns` | a spoken conversation in turns, through client, LLM, TTS and token-to-wave threads | instantiates `Monitor` |
| `SimplexTurnsProofs` | theorems about `SimplexTurns!Spec` | extends `SimplexTurns`, `SequenceLemmas` |
| `MC*` | constants for TLC | |

Operators under a comment `Fault:` are deliberate mistakes.  Nothing refers to
them; they document the mistake each property detects when it takes the place of
the definition after it.

### 2.1 WorkerPool

The pool's methods have no `await` inside, except around the HTTP GET of a
refresh, so each is one action of the event loop.

| Code | Model |
|---|---|
| `WorkerConnection.status` | `status`, with the four busy kinds merged and LOADING, ERROR, OFFLINE merged into `"offline"`: the pool only asks `is_idle` and `is_busy` |
| `_gateway_dispatched` | `dispatched` |
| `_queue` (an `OrderedDict`) | `slot`: the place of insertion of each ticket, 0 when it is not in the queue; `arrivals` counts the insertions |
| `QueueTicket.position` | `position`; 0 for tickets out of the queue, whose stale field nobody reads |
| `QueueEntry.future` | `future`: a worker, `Pending`, `Cancelled`, or `NoFuture` before `enqueue` |
| `_get_idle_worker`, `_gpu_busy_counts` | `IsPick`, `Load` |
| `_dispatch_next` | `DispatchNext`, used as the last step of every operation that calls it |
| `_recalc_positions_and_eta` | `Ranks` (the ETA is left out) |
| `register_worker` with a new endpoint | `WorkerPoolRelocation!Relocate` |

`_dispatch_next` rescans the queue from its head after every grant.  Since idle
workers only become fewer during the scan, a ticket that was passed over stays
passed over, and the loop is one pass: `IsDispatch` says which tickets are served
and with which worker, without an order of steps.  A request is one ticket and is
enqueued once; the code draws a fresh uuid each time.

The lower half of the module closes the pool with callers: a caller enqueues,
may be granted a worker, may mark it busy, and ends by returning the worker or by
forgetting it; refreshes come at any time with any report.  `finished` and `owed`
(a refresh has been applied and its dispatch is to come) record their progress.

### 2.2 Gateway

The stage `pc[r]` of a handler is the `await` at which it is suspended:
`notify` (sending `session.queued`/`queue_update`), `wait` (`asyncio.wait_for` on
the future), `announce` (sending `queue_done`), `connect`, `relay`, `closing`.  A
step is the code from one `await` to the next.  The connection to a worker may fail whether
or not the worker accepts, also after it has accepted (`open_timeout=5`, `gateway.py:470`); a
worker that accepts only after the gateway has given up is left out.  `probe` follows each health GET
from sent over answered to applied, for the health loop and for a registration,
and `up`/`owner` are what the worker process would answer.  A client in `Deserters`
may drop its connection at any time, a worker in `Flaky` may crash, restart and
miss a health check.  A worker process may end a session whenever it likes and
only then accepts another.

The pool's `finished` is the set of handlers at `done`, and `owed` holds while
some probe is applied and its task has not finished: with these,
`ImplementsPool == Pool!Spec`.

### 2.3 WorkerPoolRelocation

`register_worker` resets a known worker whose endpoint has changed.  Handlers
that hold it keep their connection to the old process; `moved` remembers them.

### 2.4 OmniSessions

The C++ backend serves one session at a time and keeps one inference context,
with the model loaded, for all of them.  A connection has a handler thread; a
close may come over HTTP on another thread.

| Code | Model |
|---|---|
| `SessionManager::active_` | `session`, named by the handler it was allocated for |
| `octx_mutex` | `mutex`, the HTTP close that holds it |
| `shared_octx` | `shared`; every context that is made has a new number, 0 is `nullptr`.  `octx[h]` is the pointer in handler `h`'s frame, and `Live(h)` says that it still points to something |
| `omni_context` | `pipe`: mode, whether the system prompt is in, running threads, and the owners of the units in its queue and cache.  `owner` is the handler it was last reset for |
| `prefill_done` (a global) | `prefillDone` |
| `handle_ws_backend` | `pc[h]`: `start`, `allocated`, `created`, `primed`, `activated`, then the loop `reading`, `appending`, `launching`, `polling`, `joining`, and `leaving`, `cleanup`, `done` |
| `decode_thread` | `decode[h]`: `waiting` for the prefill (turn-based), `posted` and `serving` (duplex LLM thread), `stranded` when the condition variable it waits on is destroyed under it |
| `POST /sessions/:session_id/close` | `cpc[c]`, one stage for each lock it takes |

Granularity.  The manager's operations hold its lock and are one step.  What a handler
does under `octx_mutex` is one step too: a decode of an older handler, which ignores the
mutex, comes before or after it, and its interleaving with the inside of a reset is not
modelled.  An HTTP close holds the mutex over three steps, since its effects (the
threads, the session) are seen by others one by one.  A
wait on a condition variable is one step that is enabled when its predicate holds.
A use of a context that has been freed has no effect here, although in the program
it is undefined; `UsesLiveContext` says that it happens to sessions closed over HTTP
(`ClosedOverHttp`) only.  The read of a
freed session in the close (`CheckActive`) may give either answer.

`Fits` compares modes; since contexts of one mode may differ in `use_tts`,
`RebuildContext` is allowed even when it holds.

### 2.5 SlidingWindow

One thread at a time works on a context, so an action is one call: `Prime` (the system
prompt), `StartUnit`, `Feed` and `EndUnit` (a frame), `StartDecode`, `Generate` and the two
ends of an answer, `Reconfigure` (the next session).  The loop of `sliding_window_enforce`
takes one action per turn of the loop (`DropTurn`, `DropUnit`, `EnforceDone`), so that its
intermediate states are checked too.

| Code | Model |
|---|---|
| the KV cache of llama.cpp | `kv.tokens`, each token named by its unit (external, modelled from `llama_memory_seq_rm` and `_seq_add` as they are used) |
| `n_past`, `round_start_positions` | `kv.past`, `kv.rounds`: what the code believes of that cache |
| `n_keep`, `system_preserve_length` | `nKeep`, `preserve`: the prefix that each window protects |
| `unit_history`, `current_turn_id` | `units`, `turn` |
| `kv_cache_slide_window` | `Slide`, part of every `Eval`: the *positional* window, which cuts at recorded positions when the context is nearly full |
| `sliding_window_enforce` and its helpers | `Trigger` and the actions after it: the *unit* window, which drops the oldest units or turns |

`evictedBy` and `carried` are histories: which windows have evicted in this session, and
whether it began with the record of the last one (`update_session_config` and
`reset_octx_for_session` empty the cache without `sliding_window_reset`).  In duplex mode
`n_keep` leaves out the assistant prefix (`omni.cpp:10981`, `10998`), as in the code.

### 2.6 The duplex pipeline and its session

`Monitor` models a condition variable as the engine uses it.  A thread at a waiting place is
`awake`, `blocking` (it has tested, holds the mutex, and does not sleep yet) or `asleep`.  A
notification wakes sleepers only.  Where the code changes the predicate under the mutex
nothing can be lost; where it does not, a thread that is `blocking` may miss it, and the
module records it (`missed`, `late`).  Spurious wake-ups only add a test.

`DuplexPipeline` has five threads: the callers of `duplex_prefill` and `duplex_decode`, the
encoder, the LLM thread, and one that stops them.  `at` is where each is.  The frame of a
request is not part of the code's request: it is a name the model gives to be able to say
whether the pairing is right.  `kv` lists what the LLM thread has done to the context.
`Break` is the break endpoint with what the LLM thread then drops.

`DuplexSession` composes it with `omni_duplex_session_*`: `pendingFrames` and
`decodePending` are the queues to its two workers, `outstanding` is `in_flight`, `station`
and `wait` are `at` and `cond` of the session's own threads, as a second instance of
`Monitor`.  Its workers make the calls of the pipeline, whose steps are the pipeline's own
actions.  Nobody breaks there, as in the code.  The refinement maps the answers that have
been collected, and those that wait to be, to `results` of `FrameService`.

### 2.7 BackendServer and WorkerBridge

A process of the backend is `<<"ws", s>>`, the handler of session `s`, or `<<"http", s>>`, its
HTTP close; `at` is the `await` at which it is suspended and a step goes from one to the
next.

| Code | Model |
|---|---|
| `active_session_id` | `active` |
| `_finalize_task`, `_finalize_done` | `task`: none, running, returned, failed, or cancelled while the handler waits for it |
| `_drain_finalize` | `drain`: what the process that waits in it has come to |
| a thread of `asyncio.to_thread` whose task was cancelled | `zombie`: the call goes on and nobody awaits it |
| `_op_lock` | only the handler takes it, one input at a time: it is the handler's being at one place |
| `RemoteBackendSession`, `_handle_remote_backend_runtime_ws` | `bridge`: away, accepting, greeting (accepted, the client's first message and the connection to the backend are to come), init, relay, asking (the client asked for a close), cleaning (the `finally`), left |
| `POST /close` with its 30 s timeout | `reply` |

Every model call may raise and every bounded wait may time out; the connections may break at
any time.  A client that leaves before it has said anything, and a backend that cannot be
reached, turn the session back from `greeting` (`TurnBack`).  A drain that gives up cancels the
finalize; a handler that waits for it in `_wait_finalize` then dies of the `CancelledError`,
which `backend_ws` does not catch.  `failed` remembers the sessions one of whose closes has
raised, or whose handler has died.

### 2.8 SimplexTurns

In the simplex mode the client prefills the frames of its turn and asks for the answer.  The
LLM thread prefills; the decode runs in the thread of the call and hands chunks of text to
the TTS thread, which hands tokens to the token-to-wave thread, which writes sound into the
directory of a round.

| Code | Model |
|---|---|
| `llm_thread_info->queue`, the batch taken from it | `frames`, `batch` |
| `prefill_done`, `need_speek`, `speek_done`, `warmup_done`, `break_event` | variables of those names, written without a mutex where the code does |
| `simplex_round_idx` | `round` |
| `LLMOut`, `tts_thread_info->queue` (capacity 1) | `Chunks`, `ttsQueue`: a chunk is speech, silent (nothing that can be spoken) or empty |
| locals of `tts_thread_func`, `tts_token_buffer` | `tts`: the chunk in hand, `llm_finish`, `chunk_idx = 0`, tokens kept back |
| `t2w_thread_info->queue`, locals of `t2w_thread_func_cpp` | `t2wQueue`, `t2w`; tokens are named by their chunk |
| `stream_prefill` with index 0, and with another | `FirstPrefillCall` or `ColdPrefillCall`; `PrefillCall` |

`story` is a history: a turn is *calm* if it began when all was done with the turns before, and
stays so while nobody breaks, times out or starts the next one and the TTS model does not
fail; for calm turns it keeps what was to be spoken, what was written and where, which rounds
were marked as ended, and whether the answer was `cut` short.  `lost`
says how a wake-up has been lost: `missed` (notified between test and sleep), `erased` (the
LLM thread clears the request of the next decode along with that of the last) or `room` (the
queue was cleared without a notification).

An answer ends with a last chunk (`Generate` with `last`), with a break (`GiveUp`), or because the
loop of the decode runs out (`RunOut`: `n_predict` tokens have been drawn, some of which may
have been no tokens at all).  Only the first tells the TTS thread.  A chunk for which the TTS
model fails (`omni.cpp:7482-7502`, 5567-5575) has no tokens, and the thread goes on.

Two simplifications: `need_speek = true` and its notification are one step, and so are the two
reads of `speek_done` in one round of the TTS loop.  The system prompt is in when the model
begins.

## 3. Runs

| Run | Specification, instance | Shows |
|---|---|---|
| `worker_pool` | `Spec`; 3 workers on 2 GPUs, one of them without duplex, 4 requests of 2 types, queue of 2 | leases are exclusive, the queue loses nobody and idles no usable worker, grants keep the order but for a refresh |
| `pool_relocation` | `SpecRelocation`; 2 workers, 3 requests | a worker is granted twice only when it has moved under a holder (finding 4) |
| `gateway` | `Spec`; 2 workers, one of which crashes and misses health checks and one registers, 2 requests of 2 types, queue of 1, one deserter | relays are private; only a desertion before `queue_done` leaks a worker; the gateway implements the pool |
| `gateway_liveness` | `FairSpec`; 1 worker that registers, 3 requests, patient clients | every handler ends |
| `omni_close` | `Spec`; two turn-based connections and a duplex one, two HTTP closes, one message each | the active session owns its context and is stopped by nobody else; no exit leaks a session; only a session closed over HTTP puts units into another's context or uses a freed one |
| `omni_handlers` | `FairSpec`; four connections, two of each mode, no HTTP close | a handler whose client has gone ends, and nothing deadlocks |
| `sliding_window` | `Spec`; a context of 10 tokens, marks at 5 and 3, 5 units in 3 turns, 2 sessions, the three modes, simplex and duplex | the prompt survives, the record describes the cache, each window by itself keeps the positions, old turns go first and whole |
| `duplex_pipeline` | `Spec`; queues of one, 3 frames, breaks and a stop at any time the code allows | the counter is right, frames enter in order, decodes are paired until a break, decodes and stops return |
| `duplex_session` | `SessionSpec`; queues of one, 3 frames | the session implements `FrameService`, frames are answered, the end returns |
| `backend` | `Spec`; a duplex session with two inputs and a turn-based one with one, over one worker | calls are serial, one live session uses the model, nobody waits in vain, worker and backend come free |
| `backend_close` | the same | **violation**: a close that reports success before it is complete (finding 7) |
| `simplex_turns` | `Spec`; 2 turns of one frame and up to two chunks, one break, a TTS queue of one | no decode overtakes its frames but from the start, calm turns are filed whole and in their round, rest means silence but for answers that ran out |

Bounds.  Two requests contend for a worker, a third overtakes or is overtaken,
and a fourth fills the queue: with four requests and three workers of different
capability every branch of the dispatcher is taken (a ticket skipped because no
idle worker supports it, two tickets served by one dispatch, ties between GPUs,
a full queue).  In `Gateway` each request has a whole life, and two
handlers, a sweep, a registration and a crash interleave at all awaits on two workers,
an owner and an intruder on each; the third request of the liveness run is the waiter
that might starve behind the other two.  What three handlers can do to the pool is
covered by the pool's own run and by the refinement, which is proved for any number.
Requests are not
reused, so `arrivals` needs no bound.  No symmetry is used there: workers are ordered
(`worker_id` breaks ties) and requests have types.

In `OmniSessions` one turn-based connection follows another (the context is
reset), a duplex one follows or precedes them (it is rebuilt), and two closes race
with each other and with all of them; a third connection can be served while the
first two still have a decode in progress.  `MaxAppends` bounds the messages of a
client: with one, a handler can be in each of its stages with a decode in each of its
own, and goes on to read until its client leaves.  The closes of `omni_close` are interchangeable,
and TLC treats them as a symmetry set.

In `SlidingWindow` the sizes are those of the code (a context of thousands, margins of 2048,
1024 and 512, marks of the configuration) shrunk to a few tokens while keeping their order,
so that both windows open within one session of five units, and the second session begins
with the first one's record.  An evaluation writes two tokens: units of one and of two
evaluations, and cuts that fall inside a unit, all occur.

The queues of the duplex mode hold one frame each: three frames fill both queues and both
threads, which is when the order of counting, queueing and dropping matters.  A break may come
again and again, wherever the two threads are, as long as no call is under way: the calls and
the break endpoint take `octx_mutex`.

In `backend` one session can be closed from both sides, time out, raise and leave a thread
behind while the other is admitted, refused, or served.  Each session is opened once: the
code draws a fresh identifier.  The second input of the duplex session is the push that meets
the finalize of the unit before.

In `simplex_turns` two turns are enough for one to begin while the other is still spoken,
with the flags of either in the hands of the other; two chunks are enough for a turn with a
middle, a last and an empty end, and for an answer that runs out before or after its first.  The one break may come between any two
calls, wherever the three threads are.

Deadlock is checked except in the runs `omni_close`, `duplex_pipeline`, `duplex_session`,
`backend`, `backend_close` and `simplex_turns`: there the system may stop, because the clients
have said all they may or because a handler waits for ever (finding 6).  What such a final
state must be like is then itself a property (`RestIsSilence`, `NobodyWaitsInVain`,
`LeaverIsReleased`, `BackendIsFreed`, the leads-to properties).  In the other runs an action `Quiet`, or a further
connection, keeps a finished system going.

## 4. Fairness

`Gateway!Fairness`: a coroutine that is ready runs (the event loop is fair), the
3 s timer fires, the health loop sweeps again and again, a GET is answered or
times out, a killed worker process is restarted, and a worker whose connection has
gone ends its session (`worker.py` closes the backend in a `finally` with bounded
waits).  Nothing is assumed of clients or of sessions in progress: the liveness run
uses timed session types, for which `session_timeout_watchdog` ends the relay.  A
chat session has no such limit, so a silent chat client holds its worker for as
long as it likes; the property is not claimed for it.

`OmniSessions!Fairness`: a handler, decode, LLM or close thread that can run does
run: they are threads of the operating system, a generation is bounded by `n_predict`,
and a stop joins threads that leave their loops once their flag is cleared.  Nothing is
assumed of clients.

`DuplexPipeline!Spec` and `DuplexSession!SessionSpec`: every thread runs while it can; nobody has to
push, break, stop, or end the session.  A wake-up that the code can lose is lost in the model
as well, and the liveness properties name it: a decode returns *unless* the notification of its
answer came between its test and its sleep (`"decoder" \in missed`).  Such a reservation is
a finding (number 8) and not an assumption: fairness cannot wake a thread that nobody notifies.

`WorkerBridge!Spec`: coroutines and threads go on (`Progress`), while clients, timeouts, breaks
of a connection and giving up are up to their environment.  No fairness is needed to say what
comes about in the end, since the sessions are finite: `Rank(s)` measures what session `s` has
before it, and `EveryStepCounts` says that each step, a retry, a timeout and a broken connection
included, makes the rank of one session smaller and leaves those of the others.  With finitely
many sessions a behaviour ends, and what must have come about is stated of the states at rest.
`AtRest` lists what everybody may then be waiting for, a message on an open connection and
nothing else.  `Going` lists those who can go on by themselves.  `SomebodyGoes` says that one or
the other holds; `NobodyWaitsInVain` adds that `Going` is what it is meant to be, `ENABLED
Progress`.

`SimplexTurns` uses the same device without fairness: `AtRest` lists the states in which no
thread goes on by itself, a TTS thread that spins through a break included, and
`RestIsSilence` says what they are like.

## 5. Proofs

All for every set of workers (numbered, for the tie-break), every finite set of
requests, every typing of requests and workers, every capacity; in
`OmniSessions`, for every set of connections with their modes, of closes, and every
number of messages; in the others for all sizes, capacities and bounds the modules leave
open.

**The pool.**  The inductive invariant `IInv` conjoins the type invariant with
`ExclusiveLease`, `LeaseIsGuarded` (a held worker is dispatched; a dispatched one is
never idle), `QueueIsWaiters`, `SlotsDistinct`, `Ranked` (positions follow slots) and
`WorkConserving`.  Exclusivity alone is not inductive: a grant must know that an
idle worker is held by nobody, which is the guard; a dispatch that serves two
tickets must give them different workers, which needs distinct slots.
`DispatchEffect` says once what a dispatch does to any state its caller leaves
behind, and `DispatchKeeps` that it re-establishes the invariant; the operations
then only say which state they hand over.  `FifoButForRefresh` and
`PositionNeverGrows` are step properties read off the same lemma
(`DispatchInOrder`, `RanksShrink`).

When workers may move, `RelocationInv` says of every worker that it has moved under a request it
was granted to, or else is settled: its one holder is the one the pool has dispatched it to,
and a dispatched worker is not idle.  Grants go to workers that are idle, and so to none that
is settled and held: `DoublesHaveMoved`.

**The gateway.**  `HandlerInv` relates a handler's stage to its future: past
`new` it has a ticket or its outcome, past `wait` it has a worker.  Under it
`StepSimulation` maps each step to a step of the pool or to a stutter, so
`Spec => ImplementsPool`, and what is proved of the pool holds in the gateway.

`LeaseInv` adds what `RelayIsPrivate` and `OnlyDesertionLeaks` need and the pool cannot see.
`WaitersListen`: a handler whose future is pending is where it will see the grant.
`PlacesDiffer` and `HeldOnce`: a held worker is marked, a marked one is not idle, and it has one
holder, so that a handler that connects finds no other relaying to its worker.  The two
properties then carry themselves: a step either leaves the pool alone (`QuietKeeps`, where a
handler that ends has no worker or has lost its client), or ends in a dispatch
(`GrantsKeep`, read off `DispatchGrants`), or is an arrival, an announcement or the report of a
health check.

**The C++ session layer.**  Its `IInv` adds four facts to the type invariant.
`StartingHolds`: a handler is setting up exactly when its session is the registered,
uninitialised one.  `ActiveIsHandled`: the handler of an active session is past
activation and has not returned.  `ContextOwned`: from `created` on, the context is live,
was set up for the handler and is in its mode.  `CloserHolds`: a close is in its locked
stages exactly when it holds `octx_mutex`, and then only the session it names can be
active.  `ServedFromOwnContext` is not inductive without the first: the context changes
hands only in `ReuseContext`, `RebuildContext` and `RebuildFailed`, for a handler that is
setting up, and `StartingHolds` says that nobody is being served then.  `NoSessionLeak`
and `StopsOnlyItsOwn` use the same invariant.

`OwnUnitsOnly` and `UsesLiveContext` hold with any number of HTTP closes, and excuse the sessions
that one of them has closed and no other (finding 5).  The further invariant, `ServedInv`, is that a
handler has the session from its activation to its end, unless it has been closed over HTTP,
and that its decode runs only until the handler has joined it.  Whatever reaches the
context is then its owner's or of a closed session, and a handler that has the session has,
by `ContextOwned`, a live context.

**The sliding window.**  `PromptIntact` says that the first `n_keep` tokens are the prompt's.
It is not inductive, as both windows compute where to cut from `n_past`, which is wrong once
both have evicted.  `PrefixInv` adds what saves it: `n_past` never runs ahead of the cache and
`n_keep` never exceeds the prefix that the unit window protects.  `CutKeeps` then shows that
any cut at any boundary, sensible or not, leaves the prompt alone.

`OneWindowKeepsPositions` needs `WindowInv`: as long as the unit window has not evicted, the
recorded boundaries lie within `n_past`, so that what a cut takes from the cache is what it
takes from `n_past` (`SlideRounds`); the unit window takes the same from both in any case.
`RecordTypes` knows that no unit is recorded with a length of zero or less and that none is of a
turn to come.  `RecordDescribesCache` holds between calls only; `RecordInv` says what the cache
is while a unit or an answer is under way: what the record tells, and after it some tokens of
the unit, from `start` on.  `HeadIsNext` draws the consequence for the evictions: the oldest
units have their tokens directly behind the protected prefix, and each can be dropped, so that
no unit is ever passed over (`OldestGoes`) and the oldest turn can be dropped whole.  That is
`EvictsOldestTurns`.

`Told`, the tokens the record tells of, is a concatenation over a sequence, defined recursively in
the library.  The induction theorems there take a formula as an operator, which no installed
prover can instantiate.  `SequenceLemmas` states induction of a *set* of numbers instead
(`Induction`, from the well-foundedness of `<`): a proof shows that the set of those for which its
claim holds has 0 and all successors.  From it come `SequenceInduction` and what `FlattenSeq` does
to an appended member and to a concatenation.

**The duplex pipeline.**  `StateInv` has the types and, for each thread, which frame it may
hold where.  `InFlightCounts` needs only this.  `PairsStrictly` needs `PairInv`, which numbers
the frames in transit: those that have been submitted and not prefilled are consecutive and
lie, the oldest first, in the prefill queue, in the encoder's hands and in the encoder's queue,
and the decode under way is for the next of them.  Each action moves one frame one place on,
and has a lemma of its own.  A break ends the numbering, and with it the pairing (finding 9).
`FramesInOrder` holds with breaks as well: `WatermarkInv` separates the places of a frame by
watermarks.  What lies in a place is above its own and at most the next one's, so that a frame
that is dropped leaves a gap and disturbs nobody.

**The duplex session.**  `SessionImplements` is the refinement of `FrameService`.  Each step of the
session is a step of the pipeline or leaves the pipeline alone, so the pipeline's invariants
hold; nobody breaks, so decodes are paired.  `SeenInv` says how many frames the context has
seen when a decode is answered: those up to its own.  `SessionInv` has in its `Ledger` in whose
hands each frame is, oldest first, and that `outstanding` is the number of frames pushed and
not settled, but for one that is about to be counted and one that has just been reported; when
the end finds it 0 and the queues empty, all has been answered.

**The worker and its backend.**  `SafetyInv` is told session by session: `SessionOK(s)` says
which threads a session can have where its handler is, and that a live session that is being
served is the active one.  An action belongs to one session and leaves the others' facts alone
(`Only`), so each action is treated once, for its own session.  `CallsAreSerial`,
`OneLiveUser` and `NeverStuckBusy` (the worker is idle whenever none of the sessions it
has accepted is left) follow.

`LeaverIsReleased` and `BackendIsFreed` speak of the states at rest, and follow from an invariant of
all states, `ReleaseInv`.  Of each session it says (`ReleaseOK`): a close whose answer is waited for
has been posted, and is at work in the HTTP handler or has been answered; a bridge that has left
leaves a connection that is broken, so that the handler will notice, or a session that
is being closed, forgotten or refused; and a closed session that is still active has
somebody on the way to forget it, unless a close has raised.  At rest nobody is on the way.  Again each
action is treated for its own session and leaves the others alone (`Apart`); `HandlerDoes` and
`CloseDoes` first say in how few ways the many actions of a handler and of a close can end.

`RestCorrect` says that somebody goes unless all is at rest.  `AwaitsOK(s)` is what it takes: a process
waits in `_drain_finalize` only while the finalize runs, and the handler starts no other before
those that have been woken have gone on.  A handler that waits in `_wait_finalize`, or for them, thus
waits for one who goes.  A bridge that waits for the answer to a close may be at rest here; that
it has left when all others are is `LeaverIsReleased`.

`CountsCorrect` proves `EveryStepCounts`.  The rank adds up, for the two processes of a session, where
they are in their course (`StationRank`) and in a drain, for the finalize and its thread how far
they are, for the bridge its stage, the answer and the connection, and for each input that is
still to be served more than the rank can grow while it is.  The weights are chosen so that whatever
a step starts costs less than the step is worth: the push that starts a finalize, the bridge that
posts a close, the close that is tried again after it has raised.  The lemmas `...Counts` treat an
action each for its own session, and `OthersKept` and `BridgeOthers` say that it takes nothing
from the others and adds nothing to them.  `SessionsAreShort` bounds the rank by 139 + 21 n for a
session of n inputs: it is over after as many steps of its own, whatever others do.  That a
behaviour without end cannot exist follows by a descent over the sum of the ranks; this last
step is an induction over the behaviour and is left to the reader.

**Simplex turns.**  All four invariants of the run are proved.  `TypeInv` adds to the types where a
thread is when it holds a chunk, and that a decode has a turn.

`CalmTurnsAreFiled` says what the sound of a turn is when it has been written; the argument follows
it from the decode to the file.  `Line(m)` is what has been filed of turn `m`, what sounds (kept or
queued tokens), the chunk in the TTS thread's hand, the text that is queued, and the chunk in the
call, one behind the other; as long as the turn goes on this line is what has been said (`Going`).
Each step moves something from one part of the line to the next, and the rules of concatenation
(`LineQueued`, `LineTaken`, `LineSounds`, `LineFiled`, and `SoundHandedOn`, `SoundWritten` for the two
buffers and the queue of tokens) say that the line stays the same.  This holds only if nothing of
another turn is among it: `Carry(T)` says that all that is on its way belongs to a turn of `T`.  A turn
becomes calm when nothing is on its way, so that `Carry({m})` holds from then on; once it has been
heard, `Carry(Turns \ {m})` does, and nothing more can be filed for it (`Over`).  `Open`, `Closing`
and `Closed` say how far the end of the turn has come, so that its mark is behind its last token
and carries its own round.

`RestIsSilence` needs, besides, what each wait stands for (`RestInv`): whoever sleeps has nothing to
do, unless a wake-up has been lost, and a decode that waits has its request pending or
is about to be woken by the LLM thread (`Awaited`).  When all sleep, the request of a waiting decode
would be pending and the LLM thread, asleep, would have none; a decode that waits for room would
have a full queue before a TTS thread that sleeps at an empty one; and a calm turn that has
not been heard has no end on its way, so that its answer has been cut, and the line has come down
to what has been filed and what the threads keep (`Withheld`).

`HandshakeInv` follows `need_speek` and `prefill_done` from the request to the
decode: the flag is up only because it still has its initial value, or because the LLM thread
has answered the decode that waits, with nothing left to prefill; a request is pending only
while its decode waits or while the LLM thread is about to clear it.  Steps of the TTS and
token-to-wave threads touch none of this (`VoicesAside`).

Assumptions are those named in the modules: workers are natural numbers, the future's
outcomes are distinct, requests are finite, capacities and bounds are natural numbers, the
duplex sessions are sessions, and the system prompt fits below the margin of the positional
window.

Proved without a run of their own: `LeaseIsGuarded`, `SlotsDistinct`, `PositionNeverGrows`,
`NeverStuckBusy`, `EveryStepCounts` and the bound in `SessionsAreShort`.  (TLC agrees with `EveryStepCounts`
on the instance of `backend`; it evaluates the ranks in each of twenty million steps, which takes
longer than all else in that run.)

Only model-checked: liveness (`HandlersEnd`, `GoneClientIsForgotten`, `CallsReturn`, `FramesAnswered`,
`EndReturns`) and the half of `NobodyWaitsInVain` that says `ENABLED`; the prover treats neither.  The other half is
the theorem `RestCorrect`.  Every other property of a passing run is a theorem.

## 6. Findings

Finding 7 has a run of its own.  The others are named by the exception that a property makes:
it holds in every state *but* where the finding applies, so that the run also shows that
nothing else goes wrong.

1. **A client that leaves takes a worker with it** (`OnlyDesertionLeaks`).
   `gateway.py:431` sends `queue_done` outside the `try` whose `finally` releases.
2. **Newcomers overtake the queue** (`FifoButForRefresh`).  `enqueue` grants an
   idle worker without looking at the queue, and a sweep makes workers idle up to
   5 s before it dispatches.  This window is the only one.
3. **A dequeued request may be refused by its worker**: the gateway releases before the worker
   has closed the last session.  `HandlersEnd` and `RelayIsPrivate` hold all the same.
4. **A worker that was moved is granted twice** (`DoublesHaveMoved`).
   `release_worker` does not ask for whom.
5. **A closed session feeds the next one** (`ClosedOverHttp`, the exception in `OwnUnitsOnly` and
   `UsesLiveContext`).  The HTTP close waits for nothing of the handler: one that has read a message prefills it
   afterwards, into whatever session is then being set up, and starts a decode without
   `octx_mutex`, although `server-omni.cpp:513` promises a "completion primitive".  If the next
   session is of another mode, the context it uses has been freed.
6. **A closed session's handler hangs**: `GoneClientIsForgotten` is checked without HTTP closes.
   Its decode waits without a timeout for an LLM thread that the close has stopped, and the
   handler joins it.
7. **A close reports success before it is complete** (run `backend_close`).  `close` in
   `py_backend/server.py` returns at once when `closed` is set, although the close under way may
   still be draining or may have raised; and it does not wait for a push in flight.
   `docs/backend-protocol/network.md:79` rules this out.  Related: a drain or clean-up that
   fails leaves the session active for ever, every retry is told that all is well, and no
   other session is admitted (the exception `failed` in `BackendIsFreed`); so does an HTTP close
   that gives up on a finalize, which also ends a handler that waits for it
   (`server.py:490`, `CancelledError`).  The client is told
   `session.closed` before the backend forgets the session.  A second session that is refused
   ends with `fatal`, which stops the model of the one that is active.
8. **Answers may be missed.**  The LLM thread stores `done` and notifies without the mutex
   (`omni.cpp:10711`), `duplex_stop_threads` (9714) and `omni_duplex_session_end` (12189) clear their
   flags without one: the reservations of `CallsReturn` (`DecodesReturn`, `StopReturns`),
   `FramesAnswered` and `EndReturns`.
9. **A break shifts the pairing** (the exception `broken` in `PairsStrictly`).  It drops the
   queue of prefilled frames and the request, but not the frame in the encoder's hands
   (`omni.cpp:10559`): each later decode answers the frame before its own.
10. **Two windows on one cache** (the exception in `OneWindowKeepsPositions`).  Evicting units
   leaves `round_start_positions` alone (`omni.cpp:3609`), at which the positional window cuts later
   (1055, 1061): `n_past` then falls behind the end of the cache, or below `n_keep`, and
   `llama_decode` refuses every later position, although the comment at 11852-11854 calls the
   evictions safe in this respect.  The prompt survives even so (proved).
11. **The first decode may overtake its prefill** (the exception in `EarlyFromTheStart`):
   `prefill_done` is true initially, so that a decode that comes before the LLM thread has taken
   the first frame does not wait, against the comment at `omni.cpp:5065`.
12. **A request to speak may be missed or erased** (the exceptions `missed` and `erased` in
   `RestIsSilence`).  `need_speek` is set and notified without the mutex (`omni.cpp:11265`), and the
   LLM thread clears it when it has finished the answer before, when the next decode may have
   set it already.  It takes back `speek_done` at the same place, so that the next turn may
   wait out the 5 s for a speech that has ended.
13. **A break may be heard by some and not by others.**  It sets a flag and notifies nobody,
   and the token-to-wave thread clears it for all (`omni.cpp:9240`).  In the simplex mode the decode
   does not clear it (11232 is for duplex), so that answers stay empty until a prefill with
   index 0.  The TTS thread clears the queue at a break without telling the decode that waits
   for room (7180; the exception `room` in `RestIsSilence`), and `tts_token_buffer` keeps tokens over
   it.
14. **Turns that overlap are misfiled** (`CalmTurnsAreFiled` speaks of calm turns only).
   `speek_done` is set (`omni.cpp:7745`) before the round goes up and the end is passed on, so that
   the wait of the next turn may end early; the caller's `round_idx` relabels what is still being
   spoken; the token-to-wave thread takes all that is queued as of the last round in it; a
   speech that ends late sets `speek_done` under the next turn, whose chunks are then dropped
   (11745); and a last chunk with nothing to speak leaves `llm_finish` set and the turn without
   an end.  A chunk for which the TTS model fails is silently left out.  The simplex answer is recorded under the turn that follows (11824, against the comment at
   11883).
15. **An answer that runs out has no end** (the exception `cut` in `RestIsSilence`).  The loop of
   the decode may reach `max_tgt_len` (`omni.cpp:11389`; 2048 tokens unless the request says
   otherwise, also when the model returns nothing, 11484) with `llm_finish` unset, and 11766-11785 end
   the text and tell the TTS thread nothing, although the comment at 11399-11400 calls both
   ends of an answer normal.  The tokens kept in `tts_token_buffer` and in the
   token-to-wave thread stay there and are spoken with the next turn, whose first prefill waits
   out its 5 s for a `speek_done` that does not come; the round has no `generation_done.flag`.

## 7. Not modelled

ETA estimates (display only), `stop()` at shutdown, `update_duplex_status` (never
called), capabilities that change at run time (a worker always reports the default
set), HTTP pages, presets, registries, session recordings, VAD, the front end, the
numeric code, vendored llama.cpp and ggml, benchmarks.  The larger part of the repository is
in these: tensor kernels, model graphs, tokenizers and tools, where there is no protocol
between steps.

Of the C++ backend: temporary media files, the audio callback, and the lifetime of sockets
(the callbacks of `ws_handler.cpp:688` hold a reference to one whose handler may have
returned).  Of the duplex mode: its TTS thread, the way a break reaches it, and the fall-back of
a fused prefill, which registers the start of a unit twice.  A request lives on the stack of
`duplex_decode`, which may return at a stop while the LLM thread still writes to it; the model
drops the write.  The legacy HTTP endpoints appear in `SimplexTurns` as the calls of one client;
`octx_mutex`, which they share with the duplex calls, is not a variable there.  A prefill that
waits for room in the encoder's queue holds it (`server.cpp:5612`), and so keeps out the decode
that would make room; the break endpoint takes it as well (5939), and is kept out by a decode.

Of the sliding window: the TTS cache that a slide clears, failures inside a batch,
`clean_kvcache` and `sliding_window_reset`, which nobody calls while serving.

Of the simplex mode: the Python token-to-wave process, the start and stop of the threads, and
the tokens of silence.  Of the Python backend: recordings, the contents of units, and the start of the
model.

## 8. Plan

The modules that were planned are written: `WorkerPool`, `Gateway`, `WorkerPoolRelocation`,
`OmniSessions`, `SlidingWindow`, `DuplexPipeline`, `DuplexSession`, `BackendServer`, `WorkerBridge`,
`SimplexTurns`.  What remains, in this order:

1. `WorkerBridge` in the place of the abstract worker process of `Gateway`.
2. The TTS thread of the duplex mode behind `DuplexPipeline`, with its turn identifiers.
