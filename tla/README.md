# A TLA+ model of geario

geario is an asynchronous networking runtime for Rust. Each worker is one OS
thread that runs tasks, owns its connections and drives them with a poller, an
io_uring or a completion port; an accept thread and a server manager hand new
connections to the workers. This directory holds TLA+ modules that model it, TLC
configurations that check them on small instances, and TLAPS proofs for all
instances.

Paths below are relative to `src/geario/src/`, those that begin with `polling:` to
`src/geario-polling/src/`.

## The system

| Part | Interacts with | Module |
|---|---|---|
| Connection state, filters, Iops queue, polling driver: `io/*`, `net/polling/{io,stream,reactor}.rs`, `tls/rustls/stream.rs` | application, poller, peer | `IoConn`, `Connection`; proofs in `IoConnProofs`, `IoConnHandlerProofs`, `IoConnWakeProofs` |
| Dispatcher and IO timers: `dispatcher/mod.rs`, `io/ops.rs` | connection, service, timer | `Dispatcher`; proofs in `DispatcherStepProofs`, `DispatcherProofs` |
| io_uring driver: `net/uring/{io,stream}.rs`, and its rings: `net/uring/reactor.rs` | connection, kernel | `IoCtx`, `UringStream`, `UringRing` |
| IOCP driver: `net/iocp/*` | connection, completion port | `IoCtx`, `IocpStream` |
| Outgoing connections: `net/connect/*`, `net/*/connect.rs` | the three drivers, resolver, timer | `Connect` |
| Portable poller: `polling:{lib,epoll,kqueue,poll,port}.rs` | threads that wait, notify and change interests | `Poller` |
| IOCP poller: `polling:iocp/*` | the same, and the kernel's AFD device | `Iocp` |
| Task queue: `rt/rt.rs` | every task, other threads, the driver | `Runtime` |
| Blocking pool: `rt/pool.rs` | runtime threads | `ThreadPool`; proofs in `ThreadPoolProofs`, `CoreProofs` |
| System, arbiters, signals: `rt/{system,arbiter,signals}.rs` | threads, signal handlers | `System`, `Signals` |
| Timer wheel and its futures: `util/time/{wheel,mod}.rs` | every sleep | `TimeWheel` |
| Server: `server/{manager,server,wrk}.rs`, `server/net/{accept,service}.rs` | listeners, workers, signals | `Server`; proofs in `ServerProofs` |
| Pipelines and limits: `service/*`, `util/services/{counter,inflight}.rs` | dispatcher, callers | `Pipeline` |
| Channels: `util/channel/*` | tasks of one thread | `Channels` |
| Byte containers: `bytes/{bytes,bvec,pages,storage,stvec}.rs` | every buffer | `Bytes`, `BytePages`, `ByteValues` |
| Numbers in buffers: `bytes/buf/*` | codecs | `Buf` |
| Shared configuration: `service/cfg.rs` | threads that build and read it | `Configs` |
| Owners of a connection: `io/{io,filterptr,seal,ops}.rs` | application, filters, Iops | `Owners` |
| Task callbacks: `rt/{task,rt_default}.rs` | threads that install them, spawned tasks | `Callbacks` |

What is hard: everything on a worker is single-threaded, but callbacks re-enter
the same state. An event of the poller reads, which runs a filter, which writes,
which calls the driver whose slab is taken. Wakers are taken when they are called,
so one task's wake-up can use up another's. Each piece of pending work must
have exactly one agent that will carry it out. A close races its own unsent bytes,
its timeout and the peer's reset; with completions the kernel owns buffers the
connection has forgotten. Across threads, the accept thread, the manager, the
workers, the poller's notifiers and the blocking pool exchange messages while
each may pause or stop.

`PROJECT.json` lists every part with its status, every hazard with its line, and for
every definition the source lines it models. A range there is a whole item: its
documentation comment and attributes, its signature and its body.

## Modules

A module of a component has its state as variables, `Init`, one action per operation
or step, and the properties. Handlers that call one another are operators from a
state record to the next one, named as in the source; an action applies a whole
handler. Bounds (bytes sent, calls made, faults) are constants, or fields of the
profile or scene a behaviour chooses at its start. A definition that is commented as
a wrong version is a mutation: a bug that a property has to catch. No specification
uses one.

### IoConn

`cfg` is the connection's configuration, chosen at the start from `Configs`; `c` the
connection, and `app` says what the application task waits for.

- Buffers are sizes. `wapp`/`rbuf` are the application's side of a layer,
  `wbuf`/`rraw` the socket's side; without a layer `wbuf` and `rbuf` are the only ones.
- A waker is a Boolean: `read_task` and `write_task` belong to the connection task,
  `dispatch_task` to the application. Waking moves the task into the run queue
  (`sched`, `woken`).
- `slot`, `item`, `delayed` and `busy` are the slab entry, its flags, `delayed_feed`
  and "the slab is taken" of `net/polling/stream.rs`.
- `RunPoll` and `RunDone` are the task `run`; `Event` is a driver turn that reports
  the stream, `OtherEvent` one that reports others; `IopsRun` is `Iops::run`.
- The `Poll*` actions are polls of the application's futures; `Cancel` drops one.
  `Encode`, `SendBuf`, `TryWriteVectored`, `Close`, `Terminate`, `OnDisconnect` and
  `DropIo` are calls that never wait.
- `PeerSend`, `PeerDrain` and `PeerFault` are the socket's other end. `FilterReady`
  is the answer that lets a layer finish its shutdown.

Abstractions:

- What a layer does with bytes read is chosen from `FilterReads`: pass on, hold,
  reply, close, close with a reason, fail. These cover the rustls filter. An error
  of its `process_write_buf` is left out, since that filter writes to memory.
- `WR_NOTIFY` is left out. Only the flush in `IoContext::shutdown` uses it, and `run`
  reaches that flush only if its first loop ends on a connection that is not closed.
  The loop ends only when `poll_read_ready` or `poll_write_ready` finds it closed.
- Readiness is that of the epoll back end, level-triggered, where a peer's half-close
  counts as an interrupt.
- A write that fails loses the pages it had taken, and one that takes nothing ends the
  loop; both lead to the termination that the model takes at once. A layer answers once
  for all bytes of a read. The bytes of a layer's close notice are counted with its other
  records, not added by `process_shutdown`.
- A second entry of one stream in `delayed_feed` finds the first one's work done, so
  the queue is a set.

### Connection

The abstract specification has four phases (open, closing, stopped, terminated) that
only go forward. Nothing is accepted once a close began, and a close finishes with
nothing unsent unless it is excused: its timeout elapsed, or its filter cannot
finish because data is not read. `IoConn` implements it with the phase read off the
stop flags (`Phase`, `Lifecycle`, `ImplementsConnection`). With a layer, the filter's
own records may still be added after the close began.

### Dispatcher

A poll is a run of steps (`pc = "loop"`) that nothing interrupts: `PollBegin`, then one turn
of the loop per step in the state the dispatcher is in (`Processing`, `Backpressure`,
`Stop`, `Shutdown`). Between polls the peer, the write task, the service and the timer task
move. `tm` is the thread's `TimerStorage`, with the handles other connections registered;
`Tick` is its task. `tm.present` has the keys of its map and `tm.listed` the pairs of a key
and a connection in the set under it. The byte counters of the read rate wrap at `U32`,
reduced to 256. The connection is only what the dispatcher sees of it; its own life is
`IoConn`.

### The completion drivers

`IoCtx` is the connection as these drivers use it, without a layer above `Base`. Bytes
are numbered so that their order shows. `UringStream` adds the stream's slab entry,
the slab of operations and a ring whose completions come back in any order;
a zero-copy send has a result and, later, a notification. `IocpStream` adds the two
overlapped operations, which end at once or through the port, and the close that
waits for both. `UringRing` is the reactor below: a submission queue of which the
kernel may already have taken a part, the deque of requests behind it (with the two
slices of a wrapped `VecDeque`), the eventfd and the sleep. `Connect` puts the
connector, with its timeout and its list of addresses, on the connect operations of
all three drivers.

### Poller and Iocp

One thread waits, others notify, and each source has a thread that adds, modifies and
deletes it. A step lies between two points where another thread can be seen: an
atomic access, a system call, a lock. `Poller` has seven builds of four back ends (`be`);
kernel registrations are `regs`. `Iocp` has the packets of sockets and waitables with
their status, the AFD request of each, the queue of updates and the port. A request that
ends with an error status counts as AFD's error event, since both are reported in both
directions. `LOCAL_CLOSE` is left out: it comes only when a socket is closed before it was
deleted from the poller, which `add` forbids.

### Runtime, ThreadPool, System, Signals

`Runtime` is one turn after another of the driver: the local queue up to
`event_interval`, the fixed shared queue, the unbounded one, the driver's own work, the
sleep; other threads enqueue and notify in separate steps. In `ThreadPool` the low
priority channel has no room, so a job passes only to a worker that selects, and the
counter is read in a step of its own. `System` is the registry of arbiters and the
task that stops them, `Signals` the handler that stores and wakes between any two
steps of the task that reads.

### TimeWheel

The wheel with its levels, buckets, occupied bits and next expiry, the driver and
the low-resolution clock, and the futures on top. The constants of the wheel are
parameters, and their powers and shifts are kept. The helper thread of `futures_timer` marks a
delay as fired and wakes the task, in two steps if the profile says so; one of the profiles
does.

### Server

The acceptor's step lies between two accesses to shared state, the manager's is one
poll of one of its tasks, a worker's one poll or one publication of its availability.
A connection is a number; `Places` lists where it may be. Workers fail and are
restarted, `accept` fails, signals arrive, and the calls of a profile are made at any
time.

### Pipeline

Tasks share the readiness of one pipeline: one owns the check, the others are listed
as waiters. A poll of a task is a run of steps with `turn` set. The service is an
`InFlight` around one service or around two chained by `and_then`.

### Channels

The six channels, each with the tasks that hold its halves. An operation is one step.
What can go wrong is a task that sleeps and is not woken. Every half may be cloned, closed
and dropped at any time.

### Bytes, BytePages, ByteValues, Buf

`Bytes` has the storages and every operation on a handle; `BytePages` the page queues, the
thread's caches and the program that calls all of it. `ByteValues` is the promise: every
handle is a value of its own, and an operation changes only the handles it is called on.
`BytePages` implements it with the content of each handle (`HandlesAreValues`). A call that
panics ends the program and is recorded in `fault`; whether the build checks debug
assertions is chosen per program. `Buf` writes numbers with every `put` method and reads
them with the `get` method of the same type from a source cut into chunks, with a radix of 2
so that 128-bit values stay within TLC's integers. Numbers are not made to fit the bytes
they are written to: what is read back is compared with what the width leaves of them.

### Configs, Owners, Callbacks

What is counted or owned by hand. `Configs` has the storages that `Cfg` pointers count, with
the defaults each thread keeps, and threads that build, share, read and exit; bare
`Configuration` values, whose context counts nothing, are among what they hold. `Owners` moves
the state of a connection from one `Io` to the next (`take`, `seal`, `add_filter`,
`map_filter`), with the untyped box of its filter, the reused Ids of `IoManager`
and the queue of Iops. `Callbacks` installs the callbacks of the process by whichever thread
comes first, and the tasks spawned meanwhile hold and give back their pointers.

## Runs

| Run | Module and parts | Properties | Distinct states |
|---|---|---|---|
| `connection` | `MCIoConn` | `TypeOK`, `WriteNotStranded`, `ReadNotStranded`, `AppNotStranded`, `SlotOwned`, `ImplementsConnection` | 772,695 |
| `connection_liveness` | `MCIoConn` | `CloseCompletes`, `TaskEnds`, `FlushReturns`, `ReceiveReturns`, `DescriptorClosed` | 91,524 |
| `drivers` | `MCDrivers`: Poller, Iocp, UringStream, UringRing, IocpStream, Connect | `WaiterNotStuck`, `EventsAsAsked`, `IocpFollowsInterest`, `BytesInOrder`, `UringNotStranded`, `RingSleepsOnNothing`, `ClosedBehindOps`, `ConnectsAnswered` | 1,082,491 |
| `core` | `MCCore`: Buf, TimeWheel, Runtime, ThreadPool, System, Signals, Pipeline, Channels, Configs, Owners, Callbacks | `NumbersReadBack`, `TimersNeverEarly`, `TimersNotForgotten`, `DriverAwake`, `JobNotStranded`, `StopsAndSignalsSeen`, `PipelineNotStranded`, `LimitRespected`, `ChannelNotStranded`, `ReleasedOnce` | 1,251,063 |
| `bytes` | `MCBytes` | `StorageSound`, `HandlesAreValues` | 129,698 |
| `server` | `MCServer` | `HandedOverOnce`, `AcceptorNotStranded`, `BackpressureFollowsFlag`, `ClientsServed`, `StopCompletes` | 343,476 |
| `dispatcher` | `MCDispatcher` | `InflightCounted`, `TimerBehindFlag`, `ControlsAlternate`, `DispatcherCompletes` | 213,823 |
| `disconnect_notice` | `MCIoConn` | `DisconnectResolves`, violated | |
| `close_reason` | `MCIoConn` | `FirstReasonStands`, violated | |
| `uring_order` | `MCUring` | `BytesInOrder`, violated | |
| `runtime_sleep` | `MCRuntime` | `PollRunsActiveTasks`, violated | |
| `pipeline_chain` | `MCPipeline` | `NotifiedWhenReady`, violated | |

`drivers` and `core` hold several components that do not share state. A behaviour
belongs to one of them, named by `part` and chosen at the start; the variables of the
others stay 0. Each property is the component's own one under `part = "..."`. The state
spaces are therefore added, not multiplied.

What the passing runs show:

- `connection`: pending bytes, wanted reads and waiting application tasks always have an
  agent that will act on them, except for a flush to the low watermark after a cancelled
  flush of everything; the slab entry is neither used after removal nor removed
  twice; the connection implements `Connection`.
- `drivers`: a thread that waits can be woken by whatever should wake it, on every back
  end; a wait reports only what was last asked for; the AFD request of a socket follows
  its interest through every cancellation; an io_uring or IOCP stream keeps its bytes in
  order, leaves none behind, flushes before it closes and closes behind its last
  operation; the ring keeps its requests, and its thread does not sleep on them; each connect is
  answered and each socket has one owner on the way.
- `core`: all methods for numbers agree with their counterparts; no timer is early, unless
  set while the wheel's clock has run off, and none is behind the wake-up of its driver; the
  driver does not sleep on a task another thread scheduled; a job of the pool is not left in
  the queue; every running arbiter is known to the system and no stored signal is slept over
  while its task is the right one; a task that waits for a pipeline is listed or woken, and
  the limit holds; nobody sleeps on a channel that has news, two ways to end one excepted; a
  storage of configuration, the state and the filter of a connection and the callbacks of a
  task are released once, and not while somebody holds them.
- `bytes`: whatever mix of splits, merges, freezes, truncations, clones and page moves, the
  reference counts are exact, only three calls can fail (below), and handles are
  independent values unless a call goes through a cloned storage page.
- `server`: a connection is in one place at a time and is dropped only for a reason; the
  acceptor does not sleep on a listener it should serve; back-pressure follows the
  manager's flag; clients are served and stops end, also when a worker fails meanwhile.
- `dispatcher`: calls in flight are counted; a timer stands behind each timer flag, and no
  other timer of the stream is listed, read rates of zero seconds excepted;
  back-pressure notices alternate; a dispatcher whose peer is gone, or fell silent with
  keep-alive on, completes.

### Bounds

- **Connections.** The high watermarks are 2, so one byte is below and two reach
  back-pressure; the low mark is 1. A system call moves at most 2 bytes and the send
  buffer holds 1, so writes are short and then blocked. Up to 3 bytes go in or out,
  enough to enter and leave back-pressure and stay in it. The four configurations
  split the operations by direction: writing with direct writes, reading, a layer,
  and a connection without direct writes. All of them at once is beyond TLC, so
  operations of two different configurations are not interleaved, for example `pause`
  with a layer. The liveness run has a smaller instance, in which the read watermark is 1 so
  that one byte reaches it. `close_reason` reads one byte at a time, so that a filter can meet two
  faults.
- **Drivers.** The poller has two sources and two notifiers, up to three notifications and
  two waits, so a notification can meet a wait that has begun, one that ends and the next;
  the other profiles vary the interests. Submission queue and deque hold 2 with 4 requests,
  so both overflow and the deque wraps. Streams write 4 bytes in pages that a send takes in
  part. `BytesInOrder`, and the part of `UringNotStranded` about closing, are checked for
  zero-copy sends that take the whole page and for streams without zero copy; the short one
  is `uring_order`. Direct writes are checked in an idle and in a busy thread.
- **Core.** Three levels of four buckets and a clock shift of 1 give timers that move
  through every level; durations lie at, below and above the border of a level and beyond
  the wheel's end. Three tasks, two other threads and a fixed queue of 1 make the unbounded
  queue fill; `event_interval` is 2, so it runs out. The pool has a limit of 1 and two
  threads with two jobs each. Pipelines have up to three callers at limits 1, 2 and 4. A
  byte stream's buffer holds 2 chunks and 4 are sent. Two threads have up to 3 storages and
  2 handles of configuration, so that one thread can exit while the other goes on; two
  connections share 2 Ids and 2 variables, so an Id is reused while Iops still lists it;
  three threads install callbacks, so one spins while another stores.
- **Bytes.** Inline capacity 1, pages of 2 bytes, programs of 2 or 3 written bytes: every
  container is met empty, inline, full and growing. Four programs split the interface.
- **Server.** One listener, one connection per worker and one worker that fails, fills up
  or is stopped, also fails during the stop, with `stop_on_panic` and without; two workers
  where the stop has to reach both. More clients than
  connections give back-pressure and both backlogs.
- **Dispatcher.** Frames of 2 bytes, so that frames come in halves; write watermarks at
  1 and 2 answers; timers of 1 or 2 seconds within 13, and a read rate of 0 seconds.

Symmetry is used for handles, sources, notifiers, timers and callers whose names no
definition compares, in runs whose properties are invariants or step properties
(`bytes` and `drivers` include one each).

**Deadlock** is not checked: connections, streams, servers and programs stop for good when
they are closed or their bounds are used up. That nobody waits for ever is what the "not
stranded" invariants and the liveness properties say.

### Fairness

- Connection (`Fairness` in `IoConn`): the runtime polls a woken task, `Iops::run` is a
  spawned task, shutdown(2) returns, the poller reports what stays ready, a sleep elapses.
  Nothing is assumed of the peer or of calls the application may make. Where a property
  needs the peer to read (`FlushReturns`) or another stream to have an event
  (`DescriptorClosed`), it says so in its hypothesis.
- Server: every thread and every task of the system thread is scheduled, the error timer
  elapses, a served connection ends some day. Workers are not assumed to survive, and
  nothing is assumed of clients, signals or calls.
- Dispatcher: the task is polled when woken, the tick comes, the write task and the
  filters of an open connection go on (the peer reads its answers), the service answers,
  becomes ready again and shuts down. `recv` and the peer's faults are not assumed.

Each conjunct is weak fairness; for actions that go through many handlers, on which
ENABLED is slow to evaluate, it is stated with the guard written out. All other runs check
safety only.

### Disagreements that a run shows

- `DisconnectResolves`: "The `OnDisconnect` future resolves when the I/O stream is
  disconnected" (`io/io.rs:754`). After a graceful close, `filters_stopped` does not
  call `notify_disconnect`, and nothing else does while the owner keeps the `Io`.
- `FirstReasonStands`: "The first reason stands." (`io/ioref.rs:79`). `close_with`
  looks for an earlier reason with `take()`, which removes it. A second call leaves
  no reason at all.
- `BytesInOrder` of a short zero-copy send: "It is attempted only when nothing is queued
  ahead of `bufs`, so it cannot reorder bytes" (`io/ioref.rs:213`). Between the result and
  the notification of a short send its tail is neither in the buffer nor in `wr_op`
  (`net/uring/stream.rs:405`), and a vectored write overtakes it.
- `PollRunsActiveTasks`: "Poll runtime and run active tasks." (`rt/rt.rs:92`). The local
  queue is looked at before the shared queues run; a task of theirs that wakes a local one
  leaves it waiting while the driver sleeps.
- `NotifiedWhenReady`: "The current task is notified when the service becomes ready again."
  (`service/mod.rs:126`). With `InFlight` of 1 around `A.and_then(B)`, a call past A waits
  for the owner of the readiness check and the owner waits for the call's permit.

### What else the modelling showed

Behaviour of the code that differs from a comment or is surprising, met while
translating. No run is about these. The models have them unless it says otherwise here, and
a property that does not hold because of one names it as an exception in its formula.

- Connection. `call_write` takes the driver handle out of its cell and puts it back after
  the write. If that write fails, `terminate_connection` finds the cell empty and the handle
  goes back into a terminated connection; the slab entry, and so the descriptor, then lives
  until the last reference goes. The model has this state, and `DescriptorClosed` is about
  connections whose handle was given up (`~c.handle`). A disconnect timeout of 0,
  documented as disabled, elapses at once (`io/ctx.rs:290`). A `flush(true)` that is cancelled
  leaves `WR_FLUSH` behind, and a later `flush(false)`, which "wakes when the write buffer size
  falls below the low-watermark size" (`io/io.rs:605`), is then woken only when nothing is left
  (`io/ctx.rs:194`): the exception in `AppNotStranded`. A half-close of the peer stops
  the stream after at most one read.
- Dispatcher. A keep-alive of 0 is documented as disabled (`io/cfg.rs:172`), and
  `handle_timeout` (`dispatcher/mod.rs:558`) still reports one when a stale timer fires. The
  subtraction at `dispatcher/mod.rs:528` underflows in a period in which nothing is decoded;
  in a release build the rate counts as kept, although the timeout is documented to be
  extended only "if the client sends `rate` amount of data" (`io/cfg.rs:199`). The first
  partial frame with keep-alive and without a read rate is not timed at all, which
  `DispatcherCompletes` excludes. `set_frame_read_rate` (`io/cfg.rs:205`) accepts a timeout of 0:
  `start_timer(0)` takes the timer back while `READ_TIMEOUT` is set, so a partial frame is not timed
  (`Untimed`, the exception in `TimerBehindFlag` and `DispatcherCompletes`).
- Server. Resuming after back-pressure stops half-way when an item is refused, and a later
  Resume finishes it. A worker may be listed twice; a stop reaches only listed workers. A
  user's pause is undone when a worker becomes unavailable and available again. Signals that
  arrive between two one-shot registrations are lost. When a worker's failure stops the server
  (`stop_on_panic`), callers of `Server::stop` are answered by their own stop only.
- Timer wheel. When the helper thread wakes the driver late, after the driver was polled for
  another reason, it can find no timer left; it then sets `elapsed` to `next_expiry`, the
  maximum (`time/wheel.rs:683`). Sums with `elapsed` wrap, and a timer set before the next
  turn can land in a bucket that expires early (`RunOff`, the exception in
  `TimersNeverEarly`). "`Sleep` sleeps at least one tick (16 millis) even if 0 millis
  duration is used" (`time/mod.rs:19`); the code makes 1 ms of 0, and that is what the model
  asks for. Durations beyond about 24 days are cut to the wheel's end. `Sleep::reset(0)`
  elapses without a wake-up.
- Portable poller. `notify` is documented to wake "the current or the following invocation"
  (`polling:lib.rs:777`); with `poll.rs` a wait that finds the poller notified can end in
  WouldBlock. `poll.rs` reports errors and hang-ups of a one-shot source again and again;
  `modify` with an edge mode changes key and interest before it fails. `port.rs` never
  reports a source that exists or does not.
- IOCP poller. An update may stay in the queue while another thread is in the port, against
  the comment at `polling:iocp/mod.rs:94`; an error of `feed_event` drops the entries that
  follow it.
- io_uring. A graceful close of a zero-copy stream can finish while the tail of a short send
  waits for its notification, which is why `UringNotStranded` asks for a flushed close only
  without zero copy. A direct write can stall in a thread whose Iops task is delayed: the
  task then finds the buffer empty, `call_write` answers Yes, `ops_send_buf` takes
  `WR_PAUSED` off (`io/ioref.rs:191`), and the next direct write schedules nobody
  (`WriteStalled`, the exception in `UringNotStranded`). `apply_changes` drains as many
  requests as it counted although it pushed only the first slice of a wrapped deque
  (`uring/reactor.rs:241`), so requests are lost (`DrainsUnpushed`, the exception in
  `RingSleepsOnNothing`); the notifier's request is pushed with an `expect` that a full
  queue makes panic (`pc = "panicked"`).
- IOCP stream. While a WSASend is pending the write buffer is empty, so a graceful close does
  not wait for it and cancels it; only what was written keeps its order.
- Connect. The IOCP driver's `ConnectOps::cleanup` is empty, so receivers that wait at the end
  of the runtime are not told.
- Runtime. An `event_interval` of 0 underflows; with 1 the driver never sleeps.
- Pool. The number of workers "will never exceed the `thread_limit` parameter"
  (`rt/pool.rs:114`); it can, since the counter is read before a new thread counts itself. A
  job queued on that number is stranded until the next `execute` if the worker's wait runs
  out, so `JobNotStranded` is about pools in which none does.
- System and signals. An arbiter that registers after an Exit was handled is not told to stop. The
  task that a disable queues may find the STOP of an enable that came at once and end the new
  task (`rt/signals.rs:62`); signals are then slept over although they are enabled
  (`StoppedInstead`, the exception in `StopsAndSignalsSeen`).
- Pipeline. Two tasks that share one binding overwrite each other's waker; the model has one
  task per binding.
- Channels. Producers "should call `wake` after producing the computation" (`util/task.rs:14`). The
  last sender of a byte stream wakes nobody when it is dropped (`channel/bstream.rs:149`), nor does
  `Receiver::close` of mpsc, which may be called while another task waits in `poll_recv`
  (`channel/mpsc.rs:111`): the exceptions in `ChannelNotStranded`.
- Configuration. The context of a bare `Configuration` value is a pointer that counts
  nothing, and it may be sent to another thread (`service/cfg.rs:58`). A default value that
  outlives the thread it was made on names a freed storage, and a `Cfg` made from it
  (`service/cfg.rs:204`) uses that storage (`dangling`). `ReleasedOnce` allows this for such
  values alone.
- Task callbacks. `task_callbacks` "Panics if task callbacks have already been set"
  (`rt/task.rs:104`); the code ignores the result (`rt/task.rs:122`). The model does as the code.
- Numbers. "Gets a signed n-byte integer" (`bytes/buf/buf_impl.rs:641`, and `buf_mut.rs:700`
  for writing): `get_int` does not extend the sign of fewer bytes than the word has, so a
  negative number is read as a positive one. `NumbersReadBack` compares with the bytes as
  they are (`AsRead`).
- Bytes. `BytePage::clone` over a storage says that it "is marked as non-unique after clone"
  (`bytes/pages.rs:632`), and the two share one header that either may write.
  `HandlesAreValues` and `FrozenBehindOwner`, a conjunct of `StorageSound`, except such
  storages; the counts hold for them too. Three calls can fail on their own
  (`OnlyKnownFaults`): `put_u8` on a `BytePages` whose current page was filled in place,
  since it does not look for room first (`bytes/stvec.rs:104`); `truncate` and `trimdown` of
  a view longer than the capacity that the owner's moves left in the shared header
  (`bytes/storage.rs:369`, `380`), of which the documentation at `bytes/bytes.rs:443` says
  nothing; and `with_bytes_mut` with a closure that panics, whose unwinding drops one
  storage twice.

## Proofs

Eight modules hold proofs, for every value of the constants and from the assumptions named
below. TLC has found each inductive invariant to hold on small instances as well.

| Module | Theorem | Says |
|---|---|---|
| `IoConnProofs` | `Invariance`, `TypeCorrect`, `SlotSafety` | `Spec => []IInv`, `[]TypeOK`, `[]SlotOwned` |
| | `Refinement` | `Spec => ImplementsConnection` |
| `IoConnWakeProofs` | `WakeInvariance` | `Spec => []WakeInv` |
| | `NoWriteStranded`, `NoReadStranded`, `NoAppStranded` | `Spec => []WriteNotStranded`, `[]ReadNotStranded`, `[]AppNotStranded` |
| `DispatcherProofs` | `DispatcherInvariance` | `Spec => []DispatcherInv` |
| | `CallsCounted`, `TimersBacked`, `ControlsInTurn` | `Spec => []InflightCounted`, `[]TimerBehindFlag`, `[]ControlsAlternate` |
| `ThreadPoolProofs` | `PoolInvariance`, `NoJobStranded` | `PoolSpec => []PoolInv`, and that no job is stranded |
| `CoreProofs` | `CoreNoJobStranded` | `CoreSpec => []JobNotStranded`: the same in the composition |
| `ServerProofs` | `ServerInvariance` | `Spec => []ServerInv` |
| | `NoSocketStranded`, `FlagObeyed` | `Spec => []AcceptorNotStranded`, `[]BackpressureFollowsFlag` |

`IoConnHandlerProofs` and `DispatcherStepProofs` have the lemmas about handlers and operators
that `IoConnWakeProofs` and `DispatcherProofs` use.

### Connections: slots and phases

From `SizesAssumption` and `ConfigsAssumption`. `SlotOwned` is not inductive. `RunDone` marks
the task's half of the entry dropped, and that is right only if a live connection still has
its handle (`HandleOk`), if the stop flags are set in order (`Ordered`), if the task leaves
its loop only when closed (`TaskOk`) and if no handler leaves the slab taken (`~busy`). `IInv`
is `TypeOK` with these.

The argument follows the call graph. `Reaches(s, t)` says what no handler may do between its
first and its last state: take back a stop flag, close other than by terminating, add to the
write buffer of a closing connection without a layer, lose count of an owner. `Keeps` adds
what the handlers below `shutdown_filters` leave alone. Both are transitive, each handler has
a lemma that cites those of the handlers it calls, and each action has a step in the proof of
`Invariance`. `Refinement` uses the same lemmas, and a separate one for `filters_stopped`, the
only way to phase "stopped".

### Connections: nobody is forgotten

The same argument with a second relation. `Tells(s, t)` is what a handler owes to the others:
to the connection task and Iops (`Runs`: no scheduled or registered task is lost, a queued
write stays in the queue, reading stays paused, the interests in the poller are not touched)
and to the application (`Informs`: a waker is taken only by waking, and nothing it waits for
happens without). `Handed(s, b)` says who has the unsent bytes: Iops, or nobody because there
are none, or, with writing not paused, the task or the poller. The inductive invariant is

    WakeInv == Served(c) /\ Waits(c, app)

where `Served` says that the task's wakers are registered or it is scheduled, that the
interests are in the poller, that an open connection is being read unless paused and that
the bytes are handed to somebody. `Waits` says that an application that waits is registered
and what it waits for has not happened, and that a flush has left the mark
`update_write_status` looks for; a flush to the low watermark still has more bytes than
that, unless `WR_FLUSH` is set. It needs `IInv`, since a termination in the middle of a
handler is harmless only because the stop flags then stand.

### Dispatcher

From `ProfilesAssumption`: durations are natural numbers. A flag that stands for a read rate
of zero seconds has no timer (above), so `Backed` and the theorem except it; every other
flag is covered also in profiles with such a rate.

An arm of `poll` is a chain of operators on a world `w` (dispatcher, stream, timers, service,
log). `DispatcherInv` says of it: `inflight` is the number of unanswered calls (`Count`); a
handle without a listed timer lies before `current`, and the stream is listed under no other
handle (`Handle`), which is why `update` can neither keep a handle that nothing stands behind nor
leave an old timer to fire; a timeout flag has a listed timer and a running
timer task, or a notice that has not been seen (`Backed`); flags speak of configured timeouts
(`Configured`); the service knows of back-pressure exactly in that state (`Told`); a
dispatcher that waits can be woken (`Waits`); Shutdown begins with no call left (`Ends`).
`Handle` is the strengthening that was hard to find: another connection may let `current` go
stale, or have it refreshed, between two uses of a handle.

### Pool

From `PoolAssumption`: the limit is above zero. While no `recv_timeout` passes, workers never
leave, so a counter that was once read above zero stands for a worker that is still there when
the job reaches the queue, however late (`Staffed`). Together with where each job is
(`Placed`, `Holds`) that is `PoolInv`. With time-outs the property is false, see above.
`CoreProofs` carries the result into `MCCore`: a behaviour of the composition stays in the part
it chose, and each of its steps there is a step of `ThreadPool`.

### Server

From `SocketsAssumption`: there are finitely many sockets. Their order is any one-to-one
sequence, and that one exists is taken from the theorems on finite sets. `ServerInv` is the
types with two conjuncts. `Covers`: outside of back-pressure nothing is set aside, and every
socket is armed, waits for an error timeout or is still ahead of the walk. `Follows`: as long as
manager and acceptor live, the last word (Pause or Resume) that the acceptor has not heard says
what the flag `paused` says, whether it is in the queue or still to be sent; when there is none
the acceptor does what the flag says or is about to. The second is needed since the acceptor
also looks at the flag on its own, ahead of the word.

### Only model-checked

- All liveness properties: with fairness and ENABLED they are out of the prover's reach.
- `StorageSound`, `HandlesAreValues`, `BytesInOrder` and `NumbersReadBack`: what recursive
  definitions compute, which needs induction over data.
- `HandedOverOnce`: it needs an invariant over all the places a connection may be in. No
  obstacle is known; it is long.
- The drivers and the other parts of `MCCore` (timer wheel, runtime, system and signals,
  pipelines, channels, owners, configurations, callbacks): not attempted. The invariants that
  TLC checks there are not inductive.

## Not modelled

The parts and the reasons are in `PROJECT.json`. In short:

- no behaviour over time: error types, macros, conversions of durations, formatting and
  serialisation of bytes, configuration and builders;
- forwarding without state: service combinators besides `and_then`, future combinators,
  `Framed`, the TLS acceptors and connectors;
- diagnostics and test doubles: the pings between arbiters, `io/testing.rs`, the test server;
- within modelled parts: chains of several layers, read hooks, the clean-up of the drivers at
  the end of a runtime, the Windows variant of signals, the pool of
  AFD handles, failing system calls of the IOCP poller, synchronous cancellation of the ring;
- integer widths, except where the code relies on wrapping (the read rate, the wheel's
  counters).

Components are composed where they share state: connection, filters, Iops and driver;
dispatcher and IO timers; acceptor, manager, workers, signals and system; pipeline and
counters. The dispatcher is checked over an abstraction of the connection and not over
`IoConn` itself, and streams over a ring that takes every request, which `UringRing` is
checked to do only while its deque does not wrap.
