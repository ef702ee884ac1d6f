# A TLA+ development for xzmjx

xzmjx (`src/xzmjx/`) is a C++ coroutine server framework: stackful fibers, an
N:M scheduler, an epoll-driven IO manager with timers, hooks that turn blocking
system calls into fiber switches, fiber locks, and a network stack (TCP server,
HTTP, WebSocket) on top. This directory holds TLA+ models of its runtime and of its
network stack, TLC runs on small instances, and TLAPS proofs for instances of any
size.

`PROJECT.json` is the index: components, runs, the source lines of every
definition ("map"), mutated definitions that show what each property can catch,
findings, hazards and theorems.

## 1. Inventory

| Component | State | Operations | Interacts with |
|---|---|---|---|
| Scheduler (`scheduler.*`) | `m_task` list, `m_active_thread_num`, `m_idle_thread_num`, `m_stopping`, per thread: `task`, `task_fb`, the wait fiber | `start`, `stop`, `submit` (callback, fiber, range), `run`, `canStop`, `wait` | resumes Fibers; IOManager overrides `wait`, `notify`, `canStop` |
| Fiber (`fiber.*`) | `m_state`, `m_cb`, the saved context | construct, `resume`, `yield`, `reset`, `YieldToReady`, `YieldToHold`, `Coroutine` | the scheduler and everything that submits fibers |
| IOManager events (`iomanager.*`) | `FdContext` table (`events`, `read`, `write`), epoll interest list, `m_pending_event_count` | `addEvent`, `delEvent`, `delAll`, `cancelEvent`, `cancelAll`, the dispatch loop in `wait` | submits waiters to the scheduler; hooked `close` |
| IOManager waiting (`iomanager.cpp`) | notification pipe, epoll timeout | `notify`, `wait`, `onTimerInsertedAtFront` | timers, the scheduler's queue |
| Timer, TimerManager (`timer.*`) | ordered set `m_timers`, `m_next`, `m_ms`, `m_cb` | `addTimer`, `cancel`, `refresh`, `reset`, `getNextTimerInterval`, `listExpiredCb` | collected by the wait fibers |
| Hooks (`hook.*`) | `timer_info`, timers of waiting calls | `do_io`, `connect_with_timeout`, `close`, `socket`, `accept`, `fcntl`, `ioctl`, `setsockopt`, the sleep family | IOManager, TimerManager, FdManager |
| FdManager (`fdmanager.*`) | `m_container` of `FdCtx`: both non-blocking flags, timeouts | `get` (with creation), `del`, `FdCtx::init` | hooks |
| FiberMutex, FiberCondvar (`sync/`) | `m_lock`, `m_fiber_id`, the wait queues | `lock`, `tryLock`, `unlock`, `wait`, `notify`, `notifyAll` | submit and hold fibers |
| Channel (`sync/channel.h`, `ds/circle_buffer.h`) | ring buffer | `push`, `pop`, `close` | FiberMutex, FiberCondvar |
| ByteArray (`bytearray.*`) | linked blocks, `m_cur`, `m_position`, `m_size` | fixed-width, varint and string reads and writes, `setPosition`, `clear`, file and socket transfer | streams |
| Streams, WebSocket (`stream.*`, `http/ws_*`) | the message and frame being received, fields still to be written | `handleShake`, `recvMessage`, `sendMessage`, ping, pong, `readFixedSize`, `writeFixedSize` | sockets, other fibers of the server |
| TcpServer (`tcp_server.*`, `socket.*`) | `m_listen_socks`, `m_is_stop`, accept fibers, the closing task | `bind`, `start`, `stop`, `startAccept`, `handleClient` | IOManager, hooked `accept` and `close` |
| HTTP (`http/`) | the parser of a request, the buffer, the servlet tables | `recvRequest`, `execute` and its callbacks, `dump`, dispatch, `handleClient` | the vendored parser, TcpServer |
| Vendored parser (`http/http_parser/`) | `state`, `header_state`, `flags`, `content_length`, marks | `http_parser_execute`, `http_parser_parse_url` | calls the HTTP callbacks |
| Config (`config.*`) | the map of variables, each value and its listeners | `Lookup`, `setValue`, `getValue`, `addListener`, `delListener`, `LoadFromYaml` | everything configurable, from any thread |
| Bitmap, BloomFilter (`ds/`) | words | `set`, `get`, `mayMatch` | |
| Log, address, util, env, daemon, module, library, application | | formatting, parsing, start-up | |

What is hard in this code, and not within reach of unit tests, is in
`PROJECT.json` under "hazards", line by line. In short:

* *Interleaving.* A fiber's `m_state` says HOLD before its context is saved; the
  tasks leave the list before the thread counts itself active; epoll reports are
  applied later than they were taken; the timeout callback has two unlocked
  steps; `close()` has four.
* *Stale state.* `m_fiber_id` outlives the critical section; contexts of closed
  descriptors; events cancelled between `epoll_wait` and dispatch; the cached
  block of a ByteArray; the prefix of a configuration name.
* *Timeouts.* A timer fires before the event it is to cancel exists; `refresh`
  does not notify because the deadline "can only be later".
* *Termination.* `stop()` must drain although threads leave one by one;
  `m_pending_event_count` must never wrap; a submit whose `notify()` sees nobody
  idle must not wait for ever; accept fibers must end with the server.
* *Delivery.* The network cuts a stream anywhere: parser callbacks and
  `readFixedSize` are called with parts; a read may bring two requests; two fibers
  may write frames to the same session.

The properties that make each component correct:

* Scheduler: counters exact; one thread on a fiber's stack; `resume`/`reset`
  assertions; no submitted work lost; thread pins respected; `stop()` drains and
  returns.
* Events: registration, epoll interest and pending count agree; every waiter is
  woken or dropped exactly once; a closed number is clean for its next socket.
* Timers: never early; never forgotten while everybody sleeps; collected when
  due; a cancelled timer does not run.
* Hooks: one wake-up per wait; a timeout belongs to the call that reports it;
  calls with a timeout end; ready calls return.
* FdManager: the context in the table belongs to the current socket; sockets are
  non-blocking in the kernel.
* Fiber locks: mutual exclusion; one wake-up per sleeper; nobody waits at rest.
* Idle threads: what is submitted, due or ready is run once, and `stop()` returns
  when nothing is outstanding.
* TcpServer: every descriptor has an owner; `stop()` ends the accept fibers; what is
  in a backlog is accepted or reset.
* HTTP: requests end where they end on the wire and are what was sent; responses
  are what the servlet set; nobody waits for what will not come.
* ByteArray, WebSocket, Config: what is written is read back; messages arrive
  whole and in order; listeners know the value and files reach their variables.

## 2. Plan

Modelled, in this order: `Scheduler`, `FiberSync`, `FdEvents`, `TimerManager`,
`HookIO`, `FdManager`, then `IOWait` with its abstract specification `WorkPool`,
`TcpServer`, `HttpParser` and `HttpSession`, `ByteArray`, `WSSession`, `Config`.

Proved for every value of the constants: every invariant and every action
property that the runs check of the runtime's concurrent parts (`Scheduler`,
`FiberSync`, `FdEvents`, `TimerManager`, `HookIO`, `FdManager`, `IOWait`,
`TcpServer`) and of `Config`, that each step of `IOWait` is a step of `WorkPool`,
and that no assertion of the HTTP parser fails. Section 5
says under which conditions, and what is left to TLC.

What is left to TLC is mostly outside the prover's reach: liveness, and what the
parser and the encoders compute from a whole input.

## 3. Modules and code

In all modules an access under a lock, or a single atomic access, is one step,
and whatever the code does after an unlock is another step. Assertions of the
code (`XZMJX_ASSERT`) are guards of the actions, and the properties state
that they hold where the code reaches them.

**Scheduler** (`scheduler.*`, `fiber.*`). A thread's `pc` follows one iteration
of `run()`: `scan` (under the lock) takes the first takeable entry (`Take`) or
none (`FindNothing`); `taken` increments the active counter; `resume` switches
to the fiber (`ResumeFiber`, `ResumeCb`, the latter reusing, resetting or
constructing `task_fb`); `run` is the body; `hold`/`switch` is the window
between the assignment of `m_state` and the end of `swapcontext`; `back`
decrements the counter; `check` has the four branches on the fiber's state;
`resubmit` submits a READY fiber; `idle`/`wait` are the wait fiber, which
returns when `canStop()` holds. A body is abstracted to what the scheduler sees:
it yields READY (`YieldToReady`), hands its fiber to a waker and holds
(`Register`, `YieldToHold`, `Wake`), submits more work, ends or throws
(`Coroutine`). The controlling thread starts, stops and joins; several rounds
are possible.

**FdEvents** (`iomanager.*`, `close` of `hook.cpp`). `events`, `ctx`, and the
kernel's `watched`/`interest` are separate so that they can disagree. epoll is
external: `epoll_ctl` fails for an absent (MOD, DEL) or present (ADD) descriptor.
A poller takes a report in one step (`EpollWait`) and applies it in a later one
(`Dispatch`, `DispatchSkip`). The hooked `close` is three steps (cancelAll,
delAll, the system call), after which the number may be reopened; it is the only
caller of `cancelAll` and `delAll` together. The history variable `torn` records
the descriptors on which `cancelAll` met a reader and a writer, or that got an
event between the steps of `close()`.
`new FdContext()` value-initialises its members, hence `events` begins empty.

**TimerManager** (`timer.*`, `wait` of `iomanager.cpp`). Construction reads the
clock, insertion happens later under the lock, the insert-at-front callback
later still (`owe`). At equal deadlines the order of addresses decides who is in
front, so an inserter may or may not notify (`Owes`). A poller computes its timeout
under the lock (`AskInterval`), enters `epoll_wait` in a later step (`EpollWait`), wakes
by timeout, by the pipe or for a descriptor, reads the clock (`seen`), collects under the
lock (`ListExpiredCb`) and, if the pipe woke it, reads the pipe empty (`DrainPipe`),
with the bytes of notifications that came meanwhile. The history variable `lost` is
the time a poller spent between computing its timeout and sleeping: the timeout is
relative, so it sleeps too long by that much.
Collected callbacks run later (`handed`, `RunCb`). `GetCurMS`
is `gettimeofday`, so the clock may be set back, once in the model; the history
variable `back` records it, and the properties that cannot survive it say so.
The timeout of a sleeping `epoll_wait` does not follow the wall clock.

**HookIO** (`hook.cpp`). One socket, one call at a time for each event. Between
the steps of the call (system call, arm the timer, `addEvent`, hold, cancel the
timer, look at `cancelled`, retry) the kernel, the pollers, the timer callback
and other users act. The callback's lock of the weak pointer and its assignment
are one step: a callback that has locked the pointer before the call returns and
assigns afterwards writes to a `timer_info` nobody reads, and is the same as one
that assigned just before the return, after the call had looked. Its
`cancelEvent` is a separate step (`firing`) and may come after the call has
returned. From `addEvent` on the fiber may be submitted, although it leaves its stack
only in a later step (`Yield`). `close` is one step here; FdEvents and FdManager take
it apart.

**FdManager** (`fdmanager.*`, `hook.cpp`). The kernel's socket behind each number
and its O_NONBLOCK flag; the table of contexts; threads inside `socket`/`accept`
(`get` under the read lock, then creation under the write lock) and `close`
(lookup, `del`, system call). `F_GETFL` changes nothing and is left out. The
receive timeout stands for both timeouts. Two history variables name what goes
round the hooks: `bypassed` holds the numbers that a thread without hooks closed
(until a hooked `close` deletes the context it left), `userset` the descriptors
created with SOCK_NONBLOCK or cleared by `ioctl(FIONBIO)`.

**FiberSync** (`sync/`). One mutex and one condition variable. The four attempts
of `lock()` are abstracted to any number of attempts, each of which may fail for
the last time. `then` is where a fiber continues after `unlock()`, which is also
called by `FiberCondvar::wait`. The history variable `shortcut` records that some
`lock()` returned at once because `m_fiber_id` named its caller.

**IOWait** (`iomanager.cpp`: `notify`, `wait`, `canStop`; `scheduler.*`: `submit`,
`run`, `stop`). The scheduler's loop again, seen from its idle side: fibers and
their states are left out, the pipe, its edge-triggered report and the order
"scan the queue, count oneself idle, `epoll_wait`, collect the expired timers,
drain the pipe, dispatch" are in. A work comes by `submit`, by the expiry of a
timer or by a ready descriptor. Expired callbacks are submitted as a group, in a
step after they were taken out of `m_timers`, and
`submit(begin, end)` may drop all but the first (`scheduler.h:81`). `canStop(next_timer)`
is three steps (`ReadTimers`, `ReadPending`, then `Scheduler::canStop()` in `WaitOver`
or `WaitMore`), because nothing holds its reads together. The history
variable `missed` records that the last `notify()` saw no idle thread; `overtaken` holds
the works that were armed while some thread was inside `canStop()`, past the read
that would have counted them.

**WorkPool** is what an IOManager promises, without threads, queue or pipe: works
are handed over, caused, and run once; callbacks of timers may be dropped; once
`stop()` has returned nothing is outstanding except late works, whose cause had not
come when they were handed over; what is caused and not late leaves the pool.
`IOWait` implements it: `handed` is the queue, the works in the hands of threads, the
armed timers and the registered events; `caused` is the part of it that waits
for nothing outside; `late` is `overtaken` (`ImplementsWorkPool`).

**TcpServer** (`tcp_server.*`, `socket.cpp`, `do_io` of `hook.cpp`). The owner
calls `bind` (each address may fail), `start`, `stop` and lets the server go;
the closing of the sockets is a task of the accept worker that goes through the
vector, `cancelAll` then `close`; each `startAccept` is a fiber that tests
`m_is_stop`, accepts or registers with epoll and holds, and hands the client over.
`accept()` may also fail on an open socket, as often as it likes (`AcceptErrs`: no
descriptor left, or a peer that has gone). `Socket::init` does not fail on what
`accept()` returned: the hooked call has created the context it asks for. A
Socket is a `shared_ptr`, and the step in which its last holder lets go closes the
descriptor. The history variables name what the code does not keep: `torn`
(an accept fiber that registered inside `close()`), `early` (a `start()` before the
closing task of the last `stop()`), `late` (sockets bound while running, which have
no accept fiber), `dropped` (sockets taken out of the vector by a failed
`bind()`). The owner does not bind while a closing task is outstanding (both change
the vector without a lock), and closing tasks run one after the other.

**HttpParser** (`http_parser.c`, `http_parser.cpp`). `http_parser_execute` as a
function of the parser record and the next piece of input, one operator for each group of
states; marks and the callbacks at the end of a buffer are kept, because they
are what a cut message exercises. A *piece* is a byte, or a part of a keyword: the
code only compares keywords with a fixed text, and each is cut once so that a read
may end inside it. The URL parser and the host parser are included; the module
uses folds and recursive functions only.

**HttpSession** (`http_session.cpp`, `http_server.cpp`, `servlet.*`, `http.cpp`). One
connection: the client sends its messages, at once or one after the other; the network
delivers reads of any size; `recvRequest` keeps a buffer and one parser per request;
the dispatcher is set up by a sequence of calls and chooses exact, then glob, then
default; the response is dumped, cut again and parsed by `HttpResponseParser`. `keep` is
the server's `m_keep_alive`. `cuts`
and `ccut` record reads that ended inside a URL, a name or a value, and `short` the
responses of which the socket took only a part at first: `writeFixedSize` then starts
again at the beginning, and what the client makes of that is not followed up.

**ByteArray** (`bytearray.*`, `SocketStream::read`). Memory is one sequence and
`m_cur` a block number, so that a stale `m_cur` writes and reads at the wrong
address as in the code. Encoders and decoders are arithmetic in a small radix.
`lag` records that a read has left `m_cur` behind, and that it was used since.

**WSSession** (`ws_session.cpp`, `ws_server.cpp`, `stream.cpp`). A frame travels as the
fields that one `writeFixedSize` puts on the wire and one `readFixedSize` takes off. The
head holds the length or the mark of the field that does, and both sides go by that mark.
The client is this library's own sender (`lib`) or a conforming one. The server's
handler echoes messages and answers pings while a second fiber pushes. `faulty`
records the disturbances the code does not survive.

**Config** (`config.*`). `Lookup` (search under the read lock, then search and
insertion under the write lock), `setValue` (comparison and listeners under the read lock of the
variable, one step per listener, then the store under the write lock),
subscriptions, and `LoadFromYaml` with the list `ListAllNodes` makes. `overlap` records the
variables that two calls have set, or set and subscribed to, at the same time.
A file is the depth-first sequence of its nodes, maps nested to any depth. A variable
is a number or a text: the text of a map converts to a `std::string` and is
stored there, and is refused by a number.

MC modules only name the finite sets the configurations use. Definitions called
`Mut_...` are plausible defects of the definition that follows them; they are not
part of any specification.

## 4. Runs

Passing runs:

| Run | Shows |
|---|---|
| `sched_ready` | two threads, two rounds of start/stop, works that yield, throw and submit, fibers bound to a thread beside unbound callbacks, fair threads: counters, ownership, pins, no lost work; `stop()` drains and returns, every work finishes unless its thread has left |
| `sched_park_single` | on one thread, fibers that hold and are woken, and pairs of callbacks, are resumed and reset legally |
| `io_events` | readers and writers of two descriptors, two pollers, close and reuse: registration, interest list, pending count and waiters agree; `close()` leaves a number clean unless it was torn |
| `io_wait` | two threads and two of three works: a bound one, one that is submitted or timed, one that is timed or waits for a descriptor. Nobody sleeps on work unless the last `notify()` saw nobody idle, and even then it is run, because `epoll_wait` ends after a slot; `IOWait` implements `WorkPool`: `stop()` leaves behind only what was armed in the middle of a `canStop()` |
| `timers` | a one-shot and a recurring timer, one poller, a clock that may be set back: no early callback, `refresh` is monotone while the clock is, no pending timer is forgotten, also when it is inserted between computing the timeout and sleeping, due timers are collected, a cancelled one-shot timer does not run |
| `hook` | reads and connects with timeouts, spurious readiness, cancels, `close()`: one wake-up per wait, own timeouts only, no timer left, a call whose socket stays ready returns |
| `fd` | two hooked threads and one without hooks: contexts of the current socket, non-blocking sockets (64 is the first number outside the table) |
| `sync` | four fibers, `lock`, `tryLock`, `unlock`, `wait`, `notify`, `notifyAll`: mutual exclusion until the shortcut is taken; every sleeper has exactly one wake-up coming |
| `tcp_server` | two listening sockets, a client, two starts and two stops, binds that fail: accepts that fail: no descriptor without an owner, two waiters on one socket only after a start that overtook a closing task, `stop()` ends the accept fibers, a backlog is served |
| `http` | six workloads of good messages and nine that must be refused, three dispatcher set-ups, every way to cut the stream with at most one cut inside a name, value or URL: framing, contents, the parser's assertions, answers, and who waits at the end |
| `data` | three independent subjects chosen at the start (their states do not mix): a ByteArray with blocks of 2, 3 and 4 bytes, a WebSocket connection, the configuration |

One run expects a violation, of a sentence in the repository ("findings" quotes it):
`sched_park_race`, two threads on one fiber's stack, because the state is HOLD
before the context is saved.

**Known deviations the models contain.** These are behaviours of the code that
contradict its own assertions or comments. Each is part of the models, and the
properties are stated so that they hold around it:

* `iomanager.cpp:371`: a report whose one half was cancelled since `epoll_wait`
  reaches the assertion of `triggerContext` (line 39); `Dispatch` has the assertion
  as its guard.
* `sync/fiber_mutex.cpp:44`: `unlock()` with an empty queue never releases `m_lock`;
  a later fiber waits for ever, against the assertion of the destructor (line 11).
* `iomanager.cpp:390`: `canStop()` reads the timers first and `m_stopping` last; a timer
  that is armed in between, before a `stop()`, is seen by neither, and `stop()` returns
  with the timer armed. `overtaken` names it.
* `iomanager.cpp:315`: the timeout is computed before `epoll_wait` is entered, and a
  poller sleeps too long by the time between the two (`lost` in `TimelyWake`).
* `hook.cpp:131`: the timer of a call may fire before its event is registered; the
  call then waits without a timeout, against the comment at line 415.
* `http/http_parser.cpp:65`: the data callbacks store each part of an element as
  the whole, although `http_parser.h:84` says that they may be called several times.
* `http/http.cpp:271`: a response without a body has no `content-length`; on a connection that stays
  open its reader does not know that it has ended.
* `http/http_server.cpp:32`: `setClose(true)` comes after `sendResponse`, so a server whose
  `m_keep_alive` is false answers "keep-alive" and closes; `ReplyExact` holds the header
  and the end of the connection together for the others.
* `http/http_session.cpp:39`: bytes of the next request that came with the last read are
  lost; `http_session.cpp:31`: after an upgrade an error is noticed only when the
  buffer is full; CONNECT is always refused.
* `stream.cpp:10`, `stream.cpp:34`: a part of a field overwrites the part before it, or the
  beginning of a field or of an HTTP response is sent again;
  `ws_session.cpp:103`: the mask of a ping is not read; `ws_session.cpp:213`: the library's client
  announces a mask and sends plain bytes; an empty payload counts as a failure.
* `bytearray.cpp:209`: `readUint32` reads the continuation bit the wrong way round and
  `readStringF64` a 16-bit length; `bytearray.cpp:343`: `m_cur` stays in a block that a
  read has finished without having begun it; `bytearray.cpp:568`: `getWriteBuffers`
  runs off the list.
* `config.cpp:25`: in a file with several root keys the first becomes a prefix of the others.

The history variables mark what the code does not promise, or does not keep. Each
of these is visible in the models when the exception it names is dropped from
the property, or the constant is changed:

* `torn` in `CloseCleansUnlessTorn`: `cancelAll` triggers the reader or else the
  writer (`iomanager.cpp:265`), `delAll` then fails in `epoll_ctl`, and nothing
  keeps `addEvent` out between the steps of `close()` (`hook.cpp:247`).
* `back` in the timer properties: `refresh` may move a deadline earlier, without
  the notification that the comment at `timer.cpp:33` finds unnecessary.
* `CancelledNeverRuns` is about one-shot timers: a collected call of a recurring
  timer runs although `cancel()` returned true, and `cancel()` returns false for a
  one-shot timer whose callback is collected but has not run (`timer.h:25`).
* `shortcut` in `MutualExclusion`: `unlock()` never clears `m_fiber_id`
  (`fiber_mutex.cpp:17`), so a fiber can pass `lock()` while another is inside.
* `bypassed` and `userset` in the FdManager properties: `hook.cpp:105` says that
  all sockets are in fact non-blocking.
* `~open` in `ReadyEndsCall`: `close()` wakes the reader or the writer, not both.
* `SingleGroup` and not `PairGroup` in `sched_ready`: `submit(begin, end)` on an empty
  queue drops every callback after the first (`scheduler.h:81`).
* `Stranded` in the properties of `stop()`: a thread can leave `run()` while another holds a
  task it has not counted yet; if that task then submits work bound to the thread
  that left, `stop()` returns with the task queued (`scheduler.cpp:161`).
* Unpinned callbacks in `sched_ready`: `task.reset()` at `scheduler.cpp:122` loses the
  thread id of a callback that yields.
* One thread in `sched_park_single`: on two, a fiber woken early can also be queued
  twice, and `resume()`'s assertion fails (`fiber.cpp:98`).
* `missed` in `NoSilentSleep`: a thread between its scan of the queue and the
  increment of `m_idle_thread_num` is not counted, so `notify()` writes nothing and
  the work waits up to MAX_TIME_SLOT (`iomanager.cpp:283`).
* `Droppable <- Timed` in `ImplementsWorkPool`: the group submit again; `late <- overtaken`:
  the reads of `canStop()`.
* `lost` in `TimelyWake`: what a poller sleeps too long.
* `torn`, `dropped`, `late`, `early` in the TcpServer properties, see section 3.
* `cuts`, `start`, `short`, `keep`, and bodies that are empty in the HTTP properties; `lag` and
  `Mismatched` in `ReadsBack`; `faulty` in `DeliveredExact`; `overlap` in
  `ListenersFollow`; files with one root key in `LoadReaches`.
* `connect()` may return 0 before the connection is established, when the late
  `cancelEvent` of an earlier attempt's timer wakes it and `SO_ERROR` is still 0
  (`hook.cpp:437`; the branch of `ConnectEnds` without readiness).

**Bounds.** Two threads, two pollers or two descriptors exhibit every pairwise
interleaving; the races of this code are between two parties. Two works with one
or two yields let a fiber be run, resubmitted and run again while another is in
flight. Two starts reach the second round, where stale fields of the first would
show. Three registrations (`MaxWaiters`) let a reader, a writer and the next owner
of the number meet. Timers use the periods 0 and 2 with a clock up to 2, so that
deadlines coincide, precede each other and lie beyond the clock; the slot of 2 is the longer
period; a poller in its last slot sleeps it out, so that what is due is collected
although the clock has reached its bound; one poller has the window between computing
a timeout and sleeping to itself, and that a second one may take its byte out of the pipe is in the
proof. `MaxHanded` lets a collected call wait while the timer
is cancelled, reset or collected again. Two calls per event let a callback of the
first meet the second. Four sockets on two numbers reuse each of them.
Descriptor numbers are chosen at the boundary of the initial tables (5 and 32, 7
and 64) because that is where resizing happens. Four fibers on the mutex give one
holder, one that barges and two that queue, and two locks each let them come
back. In `io_wait` two of the works can come in two ways and two works (`MaxWorks`) are handed
over, so that every two of a submit, an expiry and a report meet in the queue and the arming of
either falls between any two reads of `canStop()`; one byte in the pipe is as
good as several, because one read drains them. In `tcp_server` two sockets let one
be closed while the other still accepts, and two starts meet the closing task of the first
stop. In `http` ULLONG_MAX is 255 (`UllMax`), so that the overflow test is reached with
three digits, the buffer holds 4 pieces, and one damaging cut (`MaxCuts`)
suffices to show what it does; every behaviour is finite, so what must hold in
the end is stated of the states at rest. In `data` blocks of 2 to 4 bytes
(`BaseSizes`) are shorter and longer than an item and three items cross every
boundary, a radix of 4 makes numbers of one to four bytes; the payloads 0 and 1, 2 and 4 lie in each of the
three length classes (below `InHead` = 2, below `In16` = 3, above; an empty payload counts as a
failure), a 16-bit field overflows at `Wide` = 3, and a message of two payloads may reach `MaxSize`
(the server pushes an empty message or one of 1);
two frames with one ping and one push give a fragmented message with a ping
between its frames and two senders; two threads, two
listeners, two names (a text `a.b` and a number `a.b.c`) and two files (three levels under one root,
and two roots) meet in every pairwise way. Every bound is a CONSTANT whose name begins with `Max` and appears as a guard
(`MaxSlot`, `MaxHeaderSize` and `MaxSize` are not bounds but limits of the code, scaled
down: MAX_TIME_SLOT, max_header_size and websocket.message.max_size).

**Deadlock** is checked except where the model may stop because the bounds are
used up or because the code really waits for ever (an unanswered call, a lock
that is never released); those configurations say so.

**Fairness.** `Scheduler!FairSpec`: each scheduling thread is a pthread that the
operating system runs, `join` returns when the threads have, a waker wakes.
`TimerManager!TimerFairSpec`: time passes and pollers, inserters and scheduler threads
take their steps; nothing makes a descriptor ready (`WakeIo` is not fair). `HookIO!CallFairSpec`: what is submitted is run, pollers report
and collect, expired callbacks run; nothing is assumed of the peer, of other
users or of the calling program. `IOWait!Spec`: each thread runs, a `submit` or
`stop` that has pushed goes on to notify, and `epoll_wait` returns after its slot;
time and readiness come when they like. `TcpServer!Spec`: the fibers of the
workers run and the poller reports; nothing is assumed of owners and peers. The process does
not stay out of descriptors for ever: a peer that can be accepted again and again is
accepted (strong fairness of `AcceptOk`). Otherwise only weak fairness is used.

## 5. Proofs

Each `...Proofs` module extends the module it is about; `HookProofs` is about
`FdManager` and `HookIO`, `IOWaitProofs` about `IOWait` and `TimerManager`. None of the properties
is inductive as it stands: each proof gives the invariant that is, and TLC checked
that invariant on the instances of section 4 before it was proved. The parts of
these invariants (named `...Shape` where they are not properties themselves) are
defined beside the properties. No bound of the runs is part of a theorem: the
constants `Max...` are arbitrary numbers, and the sets are arbitrary, finite
where the code counts them.

`SchedulerProofs` (assumptions: finitely many threads and at least one, the
constructor's default being 4: without a thread nothing is ever run; `None` and
`AnyThread` are none of the others; targets and groups are well typed):

* `TypeCorrect`: `Spec => [](TypeOK /\ CountersExact)`. The inductive invariant
  `Base` adds `ThreadShape`: outside start/stop every thread is `off` (else
  `start` would reset counters in use), and a thread in a body is on a fiber.
  `CountStep` relates the move of one thread to the cardinalities that the
  counters stand for; `RemoveAtFacts` describes the list after a task is taken.
* `NoParkSafe` and `ResumesAreLegal`: when no work hands its own fiber to a waker
  (`CanPark = {}`), `FiberRunsOnOneThread` and `ResumeLegal` hold on any number of
  threads. The invariant `Ownership` is needed for both: a fiber is in at most
  one place (queue entry, `task`, `task_fb`), and at each point of `run()` its state
  is the one that point calls for. `sched_park_race` shows that the hypothesis
  cannot be dropped.
* `SingleThreadResumesAreLegal`: on one thread works may park as well, and
  `ResumeLegal` holds. `SingleOwnership` replaces `Ownership`: here a fiber may be with
  a waker, or already in the list again, while the thread is still on its way off
  its stack (`Leaving`), and only then; the thread scans the list after that.
* `PinnedStaysHome`: `PinnedRunsHome`, if moreover only fibers are submitted with a
  thread id: a callback that yields is submitted again without its id
  (`task.reset()` at `scheduler.cpp:122` precedes `submit(task_fb, task.threadId)`), so a
  pinned callback may well move.
  `HomeShape` says which id each entry, `task` and fiber carries; `BodyShape` that a
  `task_fb` between two tasks has no body left over.
* `NothingIsLost` and `StopLeavesNothing`: `NoLostWork` and `StopDrains`, if no work
  parks and groups have one element, because `submit(begin, end)` on an empty list
  drops all but the first (`scheduler.h:81`). `WorkShape` is the place of every
  unfinished work; `DrainShape` says that while an entry for any thread is in
  the list some thread has not yet seen `canStop()`, which is why threads that leave
  `run()` one by one leave nothing behind for the others.

`FiberSyncProofs` (finitely many fibers):

* `TypeCorrect`: types for any use of both locks, with `PoppedShape` (an
  `unlock()` has a fiber in hand exactly when it is about to submit it).
* `ExcludesUntilShortcut`: `MutualExclusion` for any number of fibers and calls.
  It is not inductive; `HasLock` adds that whoever is inside has `m_lock`. So every
  failure of mutual exclusion in this code begins with the `m_fiber_id` test.
* `ExactlyOneWakeUp`: `OneWakeUp`. The wake-ups of a fiber are its occurrences in
  the two queues, in the hands of `unlock()` calls and among the submitted fibers;
  `OccurrencesAppend`, `OccurrencesTail` and `PopsStep` say how `push`, `pop` and
  the submit move one of them from place to place.

`HookProofs`, first half, `FdManager`:

* `TypeCorrect`: types and `IndexInRange` (the table is indexed within its size) for
  any threads and calls.
* `ContextsCurrent`: `CtxIsCurrent`. `OneWorker` is the reason: a number that is
  being opened or closed is in one thread's hands, and a number without a socket
  has no context (unless bypassed), because `del` precedes the system call.
* `HookedNonblocking`: `HookedIsNonblocking`. `SysNonblock` says that a socket blocks
  until `FdCtx::init` has switched it and that each context remembers having done
  so, which is what makes `F_SETFL` harmless.

`FdEventsProofs` (descriptors are finitely many numbers, the events are READ and
WRITE, the table begins with at least two entries):

* `RegistrationsAgree` and `CloseCleans`: `RegistrationExact` and
  `CloseCleansUnlessTorn` follow from `ContextShape`, which says of every descriptor,
  torn ones too, that what epoll watches is what `events` holds, each with a waiter.
  `CtlFacts` to `DelAllFacts` are the contract of each operation, from which
  everything else is derived: an operation changes one descriptor, and a late report
  takes off only what is registered at that moment.
* `PendingCountsEvents`: `PendingExact`. `PendingShape` also says that the
  counter is never below the number of watched events when descriptors are torn, hence never
  below zero (`TypeCorrect`). `RegsSplit` and `RegsStep` reduce the cardinality over
  all descriptors to that of the one an operation touches.
* `WaitersAccounted`: `NoLostWaiter`, with `WaiterShape`: no waiter has two places.

`HookProofs`, second half, `HookIO` (`CallSpec`): `OneSubmitPerWait` (`WokenOnce`) and `TimersAreCancelled`
(`NoTimerLeft`) are inductive with the types and, for the action property
`TimeoutsAreOwn` (`TimeoutIsOwn`), `TimerShape`: a `cancelled` flag and a callback
still on its way both belong to a timer of the current call that has expired.

`IOWaitProofs`, first half, `IOWait` (finitely many threads and at least one, works are not `NoWork`, expired
and ready works are bound to no thread, the pipe holds at least one byte):

* `CountersCorrect`: `TypeOK` and `CountersExact`, as for `Scheduler`.
* `NobodySleepsSilently`: `NoSilentSleep`. `QueueWatched` is the inductive form: a
  queue that is not empty has a notify on its way, a byte with its edge in the pipe, a
  missed notify or a thread that has yet to scan.
* `ImplementsWorkPoolSafely`: `Spec => Pool!Safety`, the safety half of the property
  `ImplementsWorkPool`. `OnePlace` (a work is once in the queue, with a thread, a timer,
  an event or among those that have been run) makes the mapping of section 3 work:
  every step of a thread is one step of `WorkPool` or leaves it unchanged. The step of
  `stop()`'s return needs more: `StopShape` says that what a thread has read inside
  `canStop()` is still so, but for works that have overtaken it; `LastOneLooks` that the
  queue is not left to threads that have looked for the last time; `ReportShape`
  that a report is of a work that is registered or was handed on.

`IOWaitProofs`, second half, `TimerManager` (`TimerSpec`; at least one poller; periods, `MaxSlot` and clock values are any
numbers):

* `CancelIsFinal`: `CancelledNeverRuns`, with `LifeShape`: a one-shot timer that can
  still be cancelled has not been collected, because both happen under the lock.
* `NobodyOversleeps`: `TimelyWake`, with `ClockShape` (a deadline is at most one
  period ahead of the clock) and `PollShape`. The insertion may fall between `AskInterval`
  and `EpollWait`; `TimeoutFacts` is what `getNextTimerInterval` promises at the moment it
  is asked, and from then on either a notification is owed or in the pipe, or the timeout
  ends by the deadline plus what was lost before sleeping.
* `CollectsOnlyDue` and `RefreshMovesLater`: the action properties `NeverEarly` and
  `RefreshNeverEarlier`, for a clock that is not set back.

`TcpServerProofs`:

* `LeaksNothing`: `NoFdLeak`, with `AcceptShape` (a peer and an accept fiber refer to
  each other).
* `AbortsOnlyAfterEarlyStart`: `AbortNeedsEarlyStart`. `WaiterShape` says that without
  an early start a socket has one live accept fiber, and none once the closing task is over;
  `CloserShape` that the closing task has every open socket of the vector still
  before it.

`HttpSessionProofs` (`ULLONG_MAX` is any number above 15, so that a hex digit fits;
`max_header_size` is any number; messages, cuts and set-ups are arbitrary):

* `ByteKeepsInv`: one turn of the loop of `http_parser_execute`, in any of its states
  and for any byte, keeps `ParserInv`: no assertion has failed; while there was no
  error, chunk states are entered under `F_CHUNKED` only, a size being read is below the
  "no length" mark, a body is entered with bytes to come, and a chunk-size line begins
  with `nread = 0`. After an error nothing is claimed of the lengths: the loop is not
  entered again.
* `ParserAssertsHold`: `AssertsHold`, for the request parser of every session and the
  response parser of its client, however the stream is cut. Most states change none of
  what the invariant speaks of; the lemmas `...Neutral` say so, one for each group of
  states, and the lemmas `...Fine` treat headers, bodies and chunks.

In these modules the arms of a CASE exclude each other. TLC takes the first arm that
holds, but TLA+ leaves the choice open, and a proof must cover every choice.

`ConfigProofs` (a file is not empty, its nodes come depth first, the keys of a map differ and
its text is no number, no value is the mark of none, listeners are numbered; names, values,
threads, and files of any depth are arbitrary):

* `ConfigTypeCorrect`: `CfgTypeOK`, together with `MapShape` (a name's entry and the
  variable's name agree, which is why `Lookup` searches again under the write lock)
  and `WorkShape` (what the locals of a call mean at each place).
* `ListenersKnow`: `ListenersFollow`. A listener lags behind while a call is in
  progress, so `Follow` says what each listener has stored at each place of
  `setValue` and of a subscription. It needs `OneBusy` (one call at a time works on a
  variable without an overlap) and `OneOwner` (a listener belongs to one variable).
* `FilesReach`: `LoadReaches`. `LoadKept` says, for a file with one root key, that every value
  of the file is still in the list, being set, or stored, and that nothing is set that the file does
  not say. It rests on what `ListAllNodes` returns: every node of the file, under the name that
  the keys on the way to it spell (`NamesExist`, `WaysLead`, `WaysExist`), and each name once
  (`NamesDiffer`). The names recur over the nesting, and induction is replaced by the least
  counterexample: the set of nodes that are not as they should be has a least element
  (`MinOfNaturals`), and that element cannot exist, its map coming before it.

Only model-checked:

* Liveness (`WorkCompletes`, `StopReturns`, `DueIsCollected` and the others of
  section 4) and the fairness half of `ImplementsWorkPool`: fairness and ENABLED are
  beyond the prover.
* `FramingExact`, `RequestExact`, `ReplyExact` and `NobodyLeftWaiting` of `HttpSession`:
  they compare what the parser has made of a whole message with what was sent, for the
  messages of the workloads; a general statement needs a grammar of messages and
  an induction over it. `NobodyLeftWaiting` depends on where the parser stops.
* `ReadsBack` of `ByteArray`: the encoders and decoders are recursive arithmetic
  in a radix, and that one inverts the other is an induction over the number.
* `DeliveredExact` of `WSSession`: what the receiver holds is its reader folded over what
  is still on the wire, an induction over the fields in flight.

## 6. Not modelled

* Memory: stacks, reference counts and destruction (except the weak pointer of the
  timeout callback and the Sockets of TcpServer). The text of logs and messages.
* The wrappers of pthread primitives (`thread`, `mutex`), whose semantics is what
  "one step" means here.
* `Channel`: `m_rep` is never allocated, so no method can run. `Bitmap` and
  `BloomFilter`: sequential and unused by the framework.
* `address`, `util`, `log`: conversions and output without protocol state.
  Start-up code (application, daemon, dynamic libraries, environment).
* In the hooks, the sleep family (a timer whose callback submits the fiber, which
  TimerManager and Scheduler cover separately); `usleep` multiplies microseconds by
  1000 and passes them as milliseconds (`hook.cpp:177`). `writev` passes `readv_f` to
  `do_io` (`hook.cpp:222`); which system call is made is abstracted in HookIO.
* `SocketStream::write(ByteArray)` passes the number of bytes as the number of
  buffers, which is undefined; `getReadBuffers` is used only there.
* Of the assertions of the vendored parser, that only one mark is set (a buffer has at most one
  in the model by its shape) and the one for a state that does not exist. A return of
  `epoll_wait` with EINTR, after which the same timeout begins again.
* HttpConnection and its pool; the parsing of parameters and cookies in `http.cpp`;
  the lenient and paused modes of the vendored parser, which this code never enters.
* The conversions between YAML text and values, fnmatch, epoll and the peer are
  external: the models contain what the code relies on.
