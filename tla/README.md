# A TLA+ verification of the WaterWall runtime

WaterWall is a tunnelling proxy written in C. Its nodes (tunnels) are chained
by a configuration, and every connection (a *line*) lives on one event-loop
worker. What is hard about the program is not a protocol but the runtime below
the tunnels: worker threads that hand work to each other, device threads that
feed them, and a shutdown that has to stop all of this in the right order from
whatever thread first notices that it must. This project models that runtime.

Everything here was translated from the code; the table of every definition
and the lines it stands for is `map` in `PROJECT.json`.

## 1. Inventory

| Component | Where | State it keeps | Operations |
|---|---|---|---|
| Quiescence gate | `ww/base/quiescence_gate.{h,c}` | one atomic word: closed bit and count of operations inside | enter, leave, open, close, wait |
| Worker messages | `ww/instance/worker_messages.c` | per worker: deque, list of timed records, wake flag, admission flag | send (inline, queued, delayed), drain, cancel, detach, destroy |
| Worker lifecycle | `ww/instance/worker.c` | lifecycle phase, context, `resources_destroyed` | request quiesce, drain, teardown; wait; perform; join |
| Event loop | `ww/event/wloop.c` | custom and control event queues, wake flag, timers, pending list | post, arm wake, run, quiesce, cleanup |
| Shutdown controller | `ww/instance/application_shutdown.c` | phase, reason, context, exit code, freeze | request, commit, coordinate, finalize |
| Global state | `ww/instance/global_state.c`, `core/main.c` | run flag, worker table | construct, spawn, run, shutdown sequence |
| Signal manager | `ww/managers/signal_manager.c` | mailbox of one signal, self-pipe, handlers | handler, consume, arbitrate |
| Node manager | `ww/managers/node_manager.c` | configurations, nodes, chains | run, quiesce, stop |
| Socket manager | `ww/managers/socket_manager.c` | listeners and filters | register, accept, distribute |
| Line | `ww/net/line.{h,c}` | reference count, alive flag, per-tunnel state | create, ref, unref, destroy |
| Pipe tunnel | `ww/net/pipe_tunnel.c` | pairs of lines on two workers | pipe, send, reconcile, detach |
| Idle tables | `ww/base/widle_table.c`, `local_widle_table.c` | heap and map of deadlines, items handed to messages | create, keep, remove, expire, drain, destroy |
| Channel | `ww/base/wchan.c` | ring, wait queues, closed flag | send, receive, try, close |
| Device readers | `ww/devices/device_reader_*.c`, `tun/tun_linux_reader.c` | generation, two gates, output budget, a FIFO per worker, a lane per worker | begin, end, read, reserve, post, deliver |
| Device writers | `ww/devices/raw/raw_writer.c`, `tun/tun_writer.c`, `device_writer_channel.c` | published generation, retired generations, a lane per worker | open, send, write a batch, retry, close, retire |
| Pools and budgets | `ww/bufio/*.c` | free items, bytes in use | get, put, reserve, release |
| Async DNS | `ww/net/async_dns.c` | queries per worker | start, complete, cancel |
| Rate bucket | `ww/base/rate_bucket.c` | credit, remainder, clock | refill, grant, retry time |
| Traffic shaper | `ww/net/traffic_shaper.c`, `UserController/common/bandwidth.c` | queue, pause flags, continuation and timer per direction | submit, drain, pause, quiesce, destroy |
| Users | `ww/objects/user.c` | records, limits, bandwidth credit and its waiters | reserve, preview, commit, cancel, set limit |
| Tunnels | `tunnels/*` | protocol state per line | init, payload, finish, pause, resume |
| lwIP and vendored code | `ww/lwip`, `ww/vendor` | third party | |

How they interact:

- Any thread calls `sendWorkerMessage*` on a target worker; the message runs as
  a callback of that worker's loop. Pipe tunnels, idle tables, device readers
  and DNS all rest on this.
- Device reader and writer threads are guarded by quiescence gates: a packet
  path enters, uses the generation's objects and leaves; the owner closes the
  gate, waits and reclaims.
- Any thread may call `requestProgramShutdown`. The controller installs a
  quiesce request on worker 0 (the main thread), whose loop then ends; the main
  thread coordinates the rest: close admissions, quiesce every worker, join
  the device threads, drain, stop the tunnels, tear down, join, free.
- A POSIX signal only writes a mailbox and a pipe; the main thread takes it at
  start-up checkpoints, in its loop, before the commit and after the loop.

What is hard, and where, is the `hazards` list of `PROJECT.json`. In short:
state checked without a lock and used under one; wake-ups suppressed because
one is already pending; a queue taken away while somebody pushes; a callback
that closes the worker it runs on; timers that fire while their record is
being cancelled; a shutdown requested at any moment of start-up; barriers that
skip workers already destroyed; several failures competing for one exit status;
two workers that let go of shared storage at once; a message that owns an item
and is refused, cancelled or overtaken; a device reopened while packets of its
former life are queued; credit that is seen by one worker and spent by another.

What makes each component correct:

- *Gate*: nobody is inside when the owner reclaims; the count is neither
  carried into nor borrowed from the closed bit; a close is final until reopened.
- *Messages*: an accepted message is run or cancelled exactly once, in order;
  a refused one is cleaned or handed back, exactly once; a wake is never lost;
  a quiesced worker owes nothing and runs nothing.
- *Shutdown*: one context for all workers, no barrier passed early, nothing
  freed under a thread, the first failure is the exit status, and it ends.
- *Event loop*: no queued event without a wake; each queue in order, a control
  event never lost, nothing accepted or started behind a closed admission; no
  timer freed under a pointer, lost, or fired for a cancelled expiration.
- *Pipe tunnel*: references are exact, each neighbour sees one conversation,
  no pair escapes the stop, and one side that ends brings down the other.
- *Idle table*: an item is freed once and by its owner, never called back after
  its removal, and an item left alone does expire.
- *Channel*: no value is lost, doubled or reordered, and answers are honest.
- *Devices*: budgets, references and tokens are exact, nothing is stranded
  without a driver, no packet of an old generation reaches a new one.
- *Limits*: the credit is exact to a thousandth of a byte; no retained payload is
  without a turn to come; the user pays for what was forwarded.

## 2. Modules

| Module | Role |
|---|---|
| `QuiescenceGate` | the gate, one atomic operation per step |
| `QuiescenceGateProofs` | its inductive invariant and three theorems |
| `MessageDelivery` | the abstract contract of worker messages |
| `WorkerMessages` | the message system of one worker, its loop and lifecycle |
| `WorkerMessagesProofs` | the drain-root protocol; custody of messages and records, their order, the refinement of the contract |
| `ApplicationShutdown` | start-up, controller, coordinator, all workers, signals |
| `ApplicationShutdownProofs` | the order of a shutdown, its outcome, no way back |
| `EventLoop` | the wake of one loop, its two event queues, close and quiesce |
| `LoopTimers` | the lifetime of the loop's timers |
| `Loop` | `EventLoop` and `LoopTimers` on one thread, with one admission |
| `LoopProofs` | the wake and the queues; the composition implements both halves; the storage of timers |
| `PipeTunnel` | pairs of lines across two workers, and the lines' own life |
| `IdleTable` | the shared idle table, expiry by worker message |
| `IdleTableProofs` | ownership of items and storage, handles, callbacks |
| `Channel` | the Go-style channel, down to its unlocked reads and wake-ups |
| `ChannelProofs` | conservation, causes to wake up, honest answers |
| `RawWriter` | generations, lanes and tokens of the raw device's writer |
| `RawWriterProofs` | the order of packets, and all of `WriterInv` |
| `DeviceReader` | reader session, budget and gates, with the Linux TUN reader |
| `RateBucket` | the credit arithmetic in machine words |
| `RateBucketProofs` | the words compute what unbounded arithmetic would |
| `TrafficShaper` | the shaper of a direction, its adapter and the user's queue |
| `MC*` | model values and bounds for TLC; `MCPrimitives` holds the gate and the bucket, of which one moves in a behaviour |

Definitions named `X_Something` directly before `X` are variants of `X` with a
plausible bug. No specification uses them; they serve to show that each
property can be violated.

### QuiescenceGate

`word` is the 32-bit atomic, with `CLOSED` as a parameter so that a narrow
word saturates. Every entrant is somewhere between its load and its
compare-exchange (`pc`, `seen`); the weak compare-exchange may also fail
spuriously. `data` is the generation the owner has installed and `held` what an
entrant inside works with. The underflow abort of `quiescenceGateLeave` sets
`aborted`. The gate is one atomic variable, so its operations are totally
ordered by coherence and interleaving them loses nothing; what the acquire and
release orders add (visibility of other memory) is not modelled.

### WorkerMessages

One target worker, with foreign submitters and its own thread. A step is a
critical section under `worker->control_mutex`, or what the owner's thread does
between two of them. A submission is in two steps (`SubmitCheck`, then one of
the `Enqueue*` actions), because the first check is made without the lock;
`EnqueueRefused` is the recheck. The owner's position `opc` goes through the
loop: polling, a popped drain root, the drain's batch, a running callback, a
timer. `RequestQuiesce` can happen between any two steps, from any thread.

The event loop is kept as a service: `roots` are the drain events in
`custom_events`, `timer[m]` says whether a timer is in the heap, pending or
quiesced, `normalOpen` is its admission. `EnqueueWakeFailed` is a
`wloopPostEvent` that returns false.

Timed messages own a pooled record; `records` are those in use. `fault`
records what would be undefined behaviour or an abort: a record released
twice, a timer that fires without record, the checks of `runTimedTask`.

`result`, `runs`, `cleanups` and `reason` are history: what the submission
returned, how often the callback and the cleanup were called and why. Each
message is submitted once. A cleanup may itself submit messages (`InCleanup`).

`MessageDelivery` is what a submitter may rely on: no queue, batch, timer or
wake, only a phase and a status per message. `WorkerMessages` implements it
under the mapping `phaseBar`, `statusBar`.

### ApplicationShutdown

Worker 0 (the main thread), `NWorkers` more, and device threads. A request
takes two steps while `holder` keeps the controller's mutex, because the code
installs the quiesce request on worker 0 first and publishes the phase after,
and worker 0 may be gone from its loop in between. Start-up can fail at each
worker, at the signal handlers and in the configuration; a signal can arrive
at any step once the handlers are there, a second one ends the process.
Callbacks and device threads request shutdowns with any code; tunnel hooks
record failures during the sequence; loops fail. `next` is the coordinator's
loop variable, so that workers move between the requests to their peers.

What a worker does inside a phase is `WorkerMessages`' concern; here a phase is
one step. The three calls of `globalstateRequireWorkerPhase` are guards
(`Reached`), with `PhaseTimeout` for the 30 seconds.

### EventLoop

What `WorkerMessages` takes as a service is opened up here. `custom_events`,
`control_events`, `wakeup_pending` and the admission flags are the fields of
`wloop_t`; `readable` is unread data in the eventfd, pipe or socket pair. A post
is one step, since it holds the mutexes throughout; arming fails when the
descriptors cannot be made or the write fails for good (`ArmFails`). A close is
three steps, its two stores and its wake, because the owner reads the flags
without the lock. The owner goes from the head of the loop (`check`) to the
poll, the pending dispatch, the read of the wake (`nio_read` consumes it, then
looks at the admission), the snapshot of `eventFDReadCB` and its batches.
`posted`, `ran` and their control counterparts are history. A control callback
is one step: what it may post, any thread may post. Timers, idles and other
descriptors appear as polls that return without the wake (`PollOther`).

### LoopTimers

The other half of the loop, run as a part of `Loop`. `heap`, `pendings` and `quiesced` are the three
lists a timer may be on, `held` the handles of its owners, `mem` the state of
its storage, and the flag sets are the bit fields of `wtimer_t`. A pass lets any
timers of the heap expire in any order, which is every outcome time can have,
and then dispatches the pending list; from a running callback the owners add,
reset and delete any timer, the running one and later ones of the list
included. `Close` is the one step of another thread. Of the owners it is
assumed that they drop the handle of a one-shot timer whose callback has run
and of a timer they have deleted, which is what the callers in `src/` do. The
libraries' heap is external; only membership matters here. A period timer has a
lower priority in the pending list than a plain one and cannot be reset.

### Loop

The two halves meet in the thread that owns the loop and in the admission.
`CloseAdmission` is one store for both (`Others`). A poll that returns on an open
loop with timers runs them before the wake it may have reported, because the
wake's descriptor has the lower priority (`Poll`, `AtRest`); a close in between
suppresses the rest of the timers and then the wake. An event's callback
(`Callback`) is where owners add, reset and delete timers, as are the callbacks of
the timers themselves, the time before the loop runs and the time after it has
left. The quiesce and the cleanup are those of both modules in one step.
Every step of `Loop` is a step of `EventLoop` and of `LoopTimers` or leaves the one or
the other alone.

### PipeTunnel

A pair joins a borrowed line of one worker to an owned line the pipe creates on
another. `refs`, `attached`, `registry`, `terminal` and `finished` are the fields
of `pipe_pair_t`, `alive` and `refc` those of the lines. `todo[w]` is a worker's
call stack: each entry is one call with at most one access to what both workers
share, so the two interleave between any two accesses; `holds` are the references
taken by the calls on the stacks. A neighbour that is called may call the pipe
again before it returns. Messages travel over the mailboxes of `MessageDelivery`'s
contract: a message is accepted, refused or cancelled with a cleanup. A refusal of
what cannot be lost asks for the program's shutdown; a request that fails aborts
the process, which ends the behaviour and is not a state of the model.
`trace[p, s]` is what the neighbour of a side has seen and done. Payload, Pause
and Resume differ in nothing the pipe keeps, and are one kind. The shutdown is
the part of `ApplicationShutdown` a tunnel sees: quiesce request, worker stop,
stop. What neighbours do is external; they finish once and send nothing after. A
load says what they may send, how much of it and how many messages are refused.

### IdleTable

A block under the table's mutex is one step. `mem`, `heap`, `hmap`, `removed`,
`detached` and `pending` place an item; `batch` are those `idleCallBack` has taken out
and not yet posted, `queue` those whose message waits at their owner. Each worker
reads a clock of its own. Owners create, renew and remove their items at any
time, from callbacks too; messages are refused by an open mailbox
(`MaxRefusals`), by a closed one, or cancelled by the quiesce; workers drain; the
table is destroyed with messages in flight. `DrainAfterQuiesce` tells the order in
which the tunnels drain (in `onWorkerStop`) from any order the header allows:
storage is safe in both, handles only in the first.

### Channel

What the lock protects is one step, except that a close wakes its waiters while
it holds the lock. The three words read without it (`closed`, `qlen`, the heads
of the wait queues) are read one by one. A wake-up is three steps on the waiter's
thread-local `Thr`, because the waiter may return and its thread exit between
them; `fault` would be a touch of a `Thr` that is gone. `seen[t]` collects what was
true during a call and `answer[t]` what it returned. A comment taken over from Go
(`wchan.c:567`) reasons that a closed channel cannot become "not ready for sending",
so that the two unlocked reads of a non-blocking send imply a moment at which the
channel was open and full. `FullWhileOpen` states this and is refuted for an
unbuffered channel (see Findings). `HonestAnswers` states what is true of every
capacity (`SawFull`): of a buffered channel that very moment, of an unbuffered one a
moment at which it was open and one at which no receiver waited.

### RawWriter

Each bring-up makes a generation with a lane per worker; `published`, `current`
and `retired` are the writer's pointers, `references` what keeps a generation
alive. A token is a worker message, immediate or timed, or a native notification
from a foreign thread while the native call borrows the first packet. `pc[w]`
walks a send (load, gate, append, schedule) and a token (gate, batch, write,
reschedule); the owner unpublishes, closes the gate, waits, retires and frees. A
write may take part of a batch, block, or fail; the drain that failed first requests
a shutdown after it has left the gate and given its reference back (`shutdown.due`
and `shutdown.asked`). The
gate is used at the level `QuiescenceGate` proves: nobody is inside once the wait
is over.

### DeviceReader

`stack[t]` holds the calls of a thread, as in `PipeTunnel`. A worker's lane reads
its native queue, reserves budget, and posts to the FIFO of a target worker, whose
one token delivers a quantum at a time. A lane the budget refuses keeps its packet,
stops listening, and is called by the capacity notification. The owner's bring-up
and bring-down go through admission, both gates, the lanes' attachment and the
last reference; a worker's own quiesce detaches its lane. The calls of the owner
follow one another but are not of one thread: a worker brings the device up, and
down again, in which case it lets go of its own lane (`WaitReader`); the thread that
stops the program (`Owner`) brings it down in the end. What may fail: a read, the
attachment of a descriptor (`RunNoIo`) and listening on it (`Rearm`), each of which
fails the device and, once it was up, stops the program; the interface going up
(`InterfaceFails`) or down (`SetDown`, after which the device stays stopping and may
be brought down again); the message that starts a lane (`StartRefused`, `Rollback`);
and a required message to an open mailbox, which aborts the process (`AbortPost`).
`born` and `fate` are history. Packet contents, offload and target selection are
abstract: a load says how many packets there are for a worker, which targets may be
chosen, and how many operations fail.

### RateBucket

The operators are the C functions, in a word of `MaxWord` with wrapping arithmetic
and `Kilo` for the thousand, so that all products the code avoids would overflow in
the small instance too. `units` is the exact credit, kept beside the bucket as a
rational. A policy says whether the bucket is stored in units, as SpeedLimit does,
or in bytes with a remainder, as users do. Each worker has a clock; one may ask
with a time before the last refill. `units` has a time of its own up to which it is
earned (`since`), not the bucket's `last`, so that a refill that failed to advance
its time would show. The names carry `Bucket` so that one run can hold both
primitives of `ww/base`.

### TrafficShaper

A direction is one worker's; `user` is shared by all and locked. A step is what
happens in one hold of the user's locks, so other workers spend credit, change
the limit, pause or leave between a preview and its commit. The queue of waiters,
the eligible head and the larger cap of an oversized datagram are those of
`user.c`; the continuation and the retry timer those of the shaper. Abstractions:
one direction per line; the credit grows eagerly (`Earn`) where the code refills
at the next question, which `RateBucket` shows to be exact; a retry timer may fire
at any time; registering and reserving are one step, so are releasing and
notifying, and a destroy. A queue that cannot grow
(`Publish`) refuses the payload and gives its reservation back. A load gives each
direction its payloads, one after the other, the limits that may be set and how
often. Datagrams above 65535 bytes, the ticket budget of a
client and the removal of the user are left out.

In `PipeTunnel`, `IdleTable`, `RawWriter` and `DeviceReader` a worker's mailbox may be
closed at any moment by the thread that requests the quiesce, in the middle of
what the worker is doing, and the worker notices later.

## 3. Runs

| Run | Instance | Distinct states | What it shows |
|---|---|---|---|
| `primitives` | gate: 4 entrants, 2 count bits, 3 generations; bucket: 6-bit words, a thousand of 4, steps 1, 3 and 20, 2 clocks | 398,160 (171,135 gate, 227,025 bucket) | the gate's inductive invariant: count, closed bit, protection, no underflow; a close ends in a reclamation; exact credit, least retry time |
| `messages` | 3 messages, 2 submitters and the owner, batch 2, limit 2 | 217,669 | exactly-once, order, wake protocol, records, quiescence; accepted messages settle, a quiesce ends; refinement of the contract |
| `shutdown` | worker 0 and 2 more, 1 device thread, code 0, timeouts | 258,641 | contexts, barriers, ownership, status; requests and failures end the process |
| `loop` | 2 normal and 1 control event, batch 1, 2 timers of either kind | 246,593 | wakes, order and loss; storage and lists of timers, no cancelled expiration fires; events run, a quiesce request is noticed |
| `loop_quiesce_wake` | the same events, no timers | stops at the violation | the wake of a quiesce request can be lost (see Findings) |
| `pipe` | 1 pair, 2 workers; 2 payloads upstream and 1 refusal, 2 payloads downstream, or an Est from either side and 1 refusal | 607,801 | references, no use after free, one conversation in order, the sweep misses no pair, a half-closed pair ends |
| `idle` | 2 items with one key, 2 workers, 1 refusal, drains after the quiesce | 301,066 | one owner per item, capacity, table's end, valid handles, no callback after removal; items expire |
| `channel` | a sender, a thread that sends or receives, a receiver, a closer, capacities 0, 1 and 2 | 550,291 | no loss, no lost or stray wake-up, honest answers; a close wakes everyone |
| `channel_full_open` | the same threads, capacity 0 | stops at the violation | "full" may be answered for a channel that was never open and full (see Findings) |
| `raw_writer` | 2 generations, 3 packets, limit 2, batch 2, 1 refused token, writes cut short, timed retry and notification | 459,558 | packets, references, drivers, order; accepted packets settle |
| `device_reader` | 2 workers, budget of 1; 2 packets over 2 bring-ups or until a stop, 3 packets of both workers, or 1 packet over 2 bring-ups with 1 failure | 279,537 | budget, references, tokens, no stale delivery; refused readers are called |
| `shaper` | a stream and a datagram direction, slice 2, quota 4; 1 payload each and 2 changes of limit, 2 stream payloads and a datagram, or a limit that drops from 2 to 1 | 314,792 | turns, conservation and charge, oversized cap; payloads settle |

A component is in one run, with the fairness its code justifies, in which safety and
liveness are checked on the same instance. The bounds are what two workers and a
few minutes allow with liveness; larger instances were checked for the invariants
alone while the models were written and are given below.

Why these bounds suffice:

- *Gate*: more entrants than the count can hold, so the saturation branch is
  taken; three generations, so an entrant can keep a value over a full close
  and reopen. Its theorems hold for any bounds.
- *Messages*: three messages with batch and limit two give a full queue, a
  refused push and a successor of the drain; two foreign submitters race for the
  wake while the owner submits from a callback. With four messages the safety
  properties hold in 157,223 states. Most of it is proved for any bounds.
- *Shutdown*: two further workers let one be destroyed unstarted while the
  other runs, and let one fail while the other is asked. With a second code, to
  tell statuses apart, safety holds in 1,478,803 states.
- *Loop*: two events against a batch of one give a full batch and a remainder; a
  callback can act on its own timer, on one pending after it and on one that is
  not pending; a repeat count of two tells the last repetition from the one
  before. With three timers, repeats 1, 2 and infinite, `LoopTimers` alone has 42,386
  states. The theorems hold for any number of events and timers.
- *Pipe*: both sides may end at once, a message may be queued behind a Finish, and
  refusals come from a closed mailbox and from an open one. Two payloads one behind
  the other may be swapped or one of them lost, in either direction, and an Est may
  come from both sides. The loads keep these apart; safety holds as well with two
  payloads one way and one the other together (2,507,691 states; 4,823,895 with a
  refusal), and for two pairs in opposite directions, for a sweep with one pair
  published and another in the making (2,536,968).
- *Idle table*: a removed item's key is given to a second item while the first
  one's message is under way; a first capacity of one forces the heap to grow.
  With three items and drains at any time `IdleInv` holds in 3,431,376 states.
- *Channel*: two senders against one place give a parked sender, direct hand-off
  and a ring that wraps; a thread makes two calls, so it can park again. Two
  senders with all kinds of calls: 832,362 states.
- *Raw writer*: two packets of one worker fill the queue and a write may take one of
  them; two generations overlap. A write that takes nothing is not in the run, nor a
  packet that joins the queue behind what a write has left: with batch 1 and one such
  write all three properties hold in 792,075 states, and with four packets, batch 2,
  refused tokens and such a write safety does in 4,086,245.
- *Reader*: the budget holds one packet, so the second waits for its delivery. The
  first load brings the device up twice, on either worker, with a packet of the first
  life queued; the second stops the program in the middle. In the third both workers
  read, one for itself, so that two lanes wait for one place and a burst claims the
  token of its own queue. The fourth lets any one operation fail. With
  both workers reading, charges 1 and 2 against 2, safety held in 2,005,702 states of
  the model without failures.
- *Rate bucket*: rates and capacities up to the word's limit, recharge steps of 1, 3
  and 20 (the word's limit being 63), with ticks long enough to overflow the product
  and short enough to leave a remainder. A step of 20 is longer than the shorter
  tick, so that a refill may earn nothing.
- *Shaper*: a limit of one byte makes a datagram of two oversized and a stream of
  two need two turns; the other direction may be ahead in the queue, paused. A second
  stream payload is submitted behind a backlog, and one load lowers the limit under a
  slice of two that is already prepared, which is then split again
  (`traffic_shaper.c:387`).

Deadlock is checked in every run but the shaper's, whose lines may all have
ended; a worker that is gone, a loop that is destroyed and a process that has
ended stutter explicitly. The gate's owner may leave its last generation closed,
and entrants can always retry, so it does not deadlock either.

### Fairness

- *Gate*: an entrant inside leaves and the owner's polling loop goes on.
  Entering and closing are voluntary.
- *Messages*: threads that run keep running, callbacks return, a lock is
  obtained. The wake descriptor and the timers are looked at in each pass of
  `wloopRun`, so they get strong fairness: other I/O may come in between for
  ever but cannot take every pass. Once a worker is quiesced the coordinator
  goes on to drain and tear down (that it does is shown by
  `ApplicationShutdown`). No submission, failure or quiesce request is forced.
- *Shutdown*: each thread's own progress; strong fairness for reading the
  self-pipe, for the same reason. Nothing is assumed of signals, failures,
  callbacks or timeouts; a timeout ends the process, which `ShutdownCompletes`
  counts as an end.
- *Event loop*: the owner's thread goes on; a wake that stays readable is
  reported by some poll and its read is not interrupted for ever (strong
  fairness: each poll is bounded by `WLOOP_MAX_BLOCK_TIME` and level triggered).
  A close that has begun continues, and a loop whose poll failed is closed by
  its worker (`workerRun`). The timers of a pass are processed and callbacks
  return. No post, no timer and no close is forced.
- *Pipe*: workers make their calls and run their messages, and a shutdown that
  was requested goes on. No neighbour need call, no shutdown need be requested.
- *Idle table*: workers go on, their clocks and the timer too; an open mailbox does
  not refuse for ever (`MaxRefusals`). A shutdown that has begun reaches every
  worker, with strong fairness: a loop looks for the request after each callback,
  however busy the timer keeps it. Owners need do nothing.
- *Channel*: a thread that is not parked goes on and the lock is granted.
- *Raw writer*: workers, native calls and timers go on, and the device is brought
  down once the program or a worker stops. A packet whose token an open mailbox
  has refused may wait for the close (`raw_writer.c:188`), which need not come:
  `OwnedSettles` excepts cancelled lanes once there was such a refusal.
- *Reader*: each worker's thread goes on, and what the owner has begun. A loop serves
  its messages in each pass, however often a descriptor is reported readable, which
  is strong fairness of `TakeMessage`. A device that was up and has failed has asked
  for the program's shutdown, which comes; a program that halts brings the device down.
  No packet need arrive, and no device need be brought up or down otherwise.
- *Shaper*: a call is finished, a scheduled continuation or timer runs, and credit
  is earned. `PayloadSettles` only assumes of a direction that its own consumer
  does not pause it for ever; nothing is assumed of the other directions.

### Properties

`QuiescenceGate`: the inductive `GateInv` with `CountIsInside`, `ClosedBitIsOwners`,
`NoUnderflow` and the protection of what entrants hold among its parts;
`CloseQuiesces`.

`WorkerMessages`: `MessageLedger` joins `SettledOnce` and `AcceptedIsHeld` (the
ownership of a message), `TimedRecordsSafe`, `QuiescedOwesNothing` (the end of a
worker) and `Custody`, which makes them inductive. `WakeCovered` is the drain-root protocol, `FirstOut` the order,
`ImplementsDelivery` and `ImplementsFairDelivery` the refinement (which includes
that nothing is accepted after the close and that an accepted message is
settled in the end), `QuiesceTerminates` the liveness of a worker's end.

`ApplicationShutdown`: `ShutdownInv` joins `ContextsAgree` (one context for
everyone), `PhaseBarriers` (no phase early) and `NobodyLeft` (nothing is freed under
a thread), with `ThreadsAgree`, which ties every thread's place to the phase and
the lifecycles and makes them inductive; `OutcomeHonest` joins `BlameIsReal` (the coordinator's fallback never
invents a worker failure), `ExitStatusHonest` and `NoInternalAbort` (only an expired
wait aborts). `ShutdownCompletes`: requests and failures end the process.

`EventLoop`: `WakeNotLost` (no lost wake, no queued event without one),
`ControlKept` and `NormalInOrder` (the two queues), and `LoopServes`, which joins
`PostedRuns`, `ControlRuns` and `QuiesceNoticed` (liveness).

`LoopTimers`: `TimersInv` joins `NoDangling` and `NoLeak` (storage) and `ListsExact`
(heap and pending list against the flags and the counter), with the flags of each
timer that make them inductive (`FlagsAgree`); `FiresOnlyDue` is about
what runs.

`PipeTunnel`: `PipeInv` (both reference counts equal the claims of registry, sides,
messages and running calls, and no assertion fails), `OneConversation` (what a
neighbour sees), `SweepIsComplete`, `NothingKept`, `HalfClosedEnds`.

`IdleTable`: `IdleInv` (ownership, capacity, the table's end; with `OnePlace`, `Threads`
and `FlagsOf`, which tie an item's flags to its place and make it inductive),
`CallbackOnlyHeld`, `HandlesValid`, `HeldEnds`.

`Channel`: `ChanInv` (`Conserved`: nothing lost, doubled or reordered;
`NoneWaitsInVain`: no waiter for what is there; `OneCause`: exactly one cause to wake;
with `Books`, which says of each thread what goes with its place and makes them
inductive), `HonestAnswers` (with `SawFull`), `CloseWakes`; and `FullWhileOpen`, which is
refuted for capacity 0.

`RawWriter`: `WriterInv` (`HeldBooks`: each packet has one owner; `StoreBooks`:
references and storage; `SenderBooks`: what a producer may rely on; `LaneBooks` and one
driver per lane; `NativeBooks`: what a native call reads; with `Books`, which is what
`FifoOrder` needs to be inductive), `FifoOrder`, `OwnedSettles`. `DeviceReader`:
`ReaderInv`, `NoStaleDelivery`, `CapacityWakes`.

`RateBucket`: `CreditExact`; `RetryHonest`, which counts the time from the worker's clock
or, for a worker whose clock is behind the last refill, from the refill (such a worker
comes back early and asks again). `TrafficShaper`: `ShaperInv` (a turn to
come, nothing mislaid, exact charge), `BandwidthInv` (the queue, the credit, the
oversized cap), `PayloadSettles`.

### Findings

`loop_quiesce_wake` refutes what `wloop.h:172` says of `wloopRequestQuiesce`: that
it "ensures that the poller has a pending eventfd/pipe/socketpair wake", and
that it returns false only if the wake could not be armed. The admission flag
and the stop flag are stored one after the other (`wloop.c:1370`, `1371`). If
the owner has just consumed a wake in `nio_read`, it sees the first store, drops
the wake and leaves `wakeup_pending` set; it checks the stop flag before the
second store and polls again; the request then finds `wakeup_pending` and
returns true without a write. The owner sleeps until its poll times out, at
most `WLOOP_MAX_BLOCK_TIME` (100 ms): a delay, not a hang, as `QuiesceNoticed`
confirms.

`channel_full_open` refutes a comment in `chan_send` (`wchan.c:567`): "Because a closed
channel cannot transition from 'ready for sending' to 'not ready for sending' [...]
they imply a moment between the two when the channel was both not yet closed and not
ready for sending". `chanClose` stores `closed` (`wchan.c:929`) and then detaches the
parked receivers (`wchan.c:935`). An unbuffered channel is ready as long as a receiver
is parked, so it goes from ready to not ready after it was closed. A `chanTrySend` that
reads `closed` before the store and the head of the wait queue after the detachment
reports a full channel, although the channel was ready as long as it was open. The
send is refused either way; the caller learns of the close at its next call.

## 4. Proofs

The proofs hold for every value of the constants that satisfies the named
assumptions (`GateAssumption`, `MessagesAssumption`, `LoopAssumption`,
`TimersAssumption`, `IdleAssumption`, `RateBucketAssumption`, `ShutdownAssumption`,
`ChannelAssumption`, `RawWriterAssumption`), which TLC also evaluates.

`QuiescenceGateProofs`
- `GateSafe`: `Spec => []GateInv`. The interesting properties are not inductive
  by themselves. To see that an entrant's compare-exchange cannot carry into the
  closed bit one needs that the value it loaded is open and below the mask
  (`SeenIsOpen`), even if the gate was closed and reopened since: the exchange
  then succeeds only on an equal, hence open, word. To see that nobody is
  inside at a reclamation one needs that the count is the cardinality of the
  set inside (`CountIsInside`), and that a reclaimed gate is exactly the closed
  word (`DownIsQuiesced`). `WordBits` states what the two bit fields of a word
  are, `InsideFinite` what the cardinality says.
- `GateProtects`, `GateDrains`: consequences, the second an action property.

`WorkerMessagesProofs`
- `MessagesTyped`: `Spec => []TypeOK`, through `TypeInv`: the type needs to
  know that the batch is not empty when its head is started and that a timer
  being handled has a message (`OwnerShape`).
- `WakeNeverLost`, `DrainsAlone`: `WakeCovered` and `SingleDrain` from the
  inductive `WakeInv`. It adds `OwnerPhase`, which ties the owner's position to
  the lifecycle, the attachment and the loop's closure: a drain root may only
  be forgotten when the loop is closed, and only a closed loop is cleaned.
- `QuietAfterQuiesce`, `ClosedAcceptsNothing`: action properties from the same
  invariant.
- `LedgerKept`: `Spec => []MessageLedger`, from the inductive `LedgerInv`. The
  ledger is stated per message (`MsgInv`): it is settled at most once, an
  accepted and unsettled message is queued or timed and never both, a timer in
  the heap has its record, and a record is in use exactly while a submission, an
  entry or a timer refers to it. A step moves one message, so each lemma proves
  the moved message and shows that the others keep their books (`MsgFrame`). What
  it takes besides is who may hold a list at all: only a drain has a batch, only a
  cleaning worker has taken lists (`OwnerLists`), and the two admissions close
  together (`Admissions`). Without these a cancelled batch could meet an open
  queue. `Custody` puts all of it into the invariant that TLC checks.
- `FirstInFirstOut`: `FirstOut` as an action property. What waits is the batch, the
  queue and the list taken for cancellation, in this order; a step either keeps
  it, takes its first entry off, appends a new one or moves the boundary between
  two of the three lists (`OrderSame`, `OrderFirstOut`, `OrderAppend`).
- `DeliveryImplemented`: `Spec => ImplementsDelivery`, the refinement of the
  contract's safety part under `phaseBar` and `statusBar`. Each action is shown to
  be a named abstract step or a stutter; `LedgerInv` is needed to know that a
  message that is started, cancelled or refused was pending.

`LoopProofs`
- `LoopSafe`: `Spec => []LoopInv`, for any events and any batch size. The wake
  properties need to know where the owner is: a snapshot never exceeds its queue
  (`NormalShape`, `ControlShape`), a pending flag may outlive the data only
  while the owner is between its read and its snapshot, and the flags follow the
  steps of a close (`ClosingShape`). The order of service needs that taking a
  batch, starting its head and posting all keep the concatenation of history,
  batch and queue (`SplitSeq`, `HeadOff` and the lemmas after them).
- `WakeArmed`, `ControlServed`, `NormalServed`: its parts.
- `LoopRefuses`, `LoopStops`: action properties.
- `LoopImplementsEvents`, `LoopImplementsTimers`: the composition implements both
  halves, because only the closing store touches the admission they share
  (`SharedAdmission`). `LoopWakes`, `LoopControl` and `LoopNormal` carry the theorems
  of `EventLoop` over to the loop with timers.
- `TimersKept`: `LoopSpec => []TimersInv`, for any finite set of timers. The lists
  are not inductive by themselves. `TimerBooks` says of one timer which flags and
  lists go together: a marked timer waits for its dispatch or is quiesced, an
  owner's timer is active or quiesced, one that was reset and then marked again
  was deleted. `DispatchBooks` says that the pending list names no timer twice and
  not the running one, so that releasing one leaves the others; the lemmas
  `JoinList`, `LeaveList` and `Counting` say what insertion, removal and one more
  element do. TLC checks the same facts as `FlagsAgree`, a part of `TimersInv`.
- `FiringIsDue`: `FiresOnlyDue` from the same invariant.

`IdleTableProofs`
- `IdleSafe`: `Spec => []IdleInv`, for any finite sets of items and workers, any
  capacity and any clocks, from the inductive `IdleBooks`. Ownership is stated per
  item (`OwnersOf`: the table, a batch, a message, a running callback or nobody; and
  `FlagsOf`: which of removed, detached and pending go with which owner), so that
  a step proves the item it moves and frames the others. That heap and map
  agree needs a pigeonhole (`EntriesOrdered`): an order of a finite set has as many
  entries as the set has members. The count of pending messages equals the
  messages that someone owns, since a step moves one of them or all that a scan
  takes (`MessagesCounted`); the table is then freed by the last of them
  (`TableEnd`) and never before. A callback that gives an item up finds it removed,
  which is the part of `Threads` that is easy to miss.
- `CallbacksOwned`: `CallbackOnlyHeld` from the same invariant. Neither theorem
  depends on when the workers drain.
- `HandlesGood`: `DrainAfterQuiesce => (Spec => []HandlesValid)`. A drain of a worker
  whose mailbox is closed and empty finds no message of its own left
  (`NoMessageLeft`), so that the items it frees are the ones it alone refers to.
  Without the premise the theorem is false; the header allows what the tunnels do
  not do.

`RateBucketProofs`
- `CreditKept`: `BucketSpec => []CreditExact`, for any policy that the configuration accepts,
  any width of the word and any `Kilo` with `Kilo * Kilo <= MaxWord`. A test by
  division is a test of the product it does not form (`TooMuchIsProduct`); rate
  times elapsed is put together from seconds, milliseconds, bytes and thousandths
  (`Parts`); each partial sum stays below what is missing and so below the word
  (`EarnExact`, `RefillExact`); and the one word in which SpeedLimit keeps the bucket
  gives back what was stored (`StoredExact`, from `DivisionUnique`). The bucket
  must be `Valid`: a full one has no thousandths, or the clamp would lose them. That the
  history has earned up to the same time as the bucket is a part of the invariant.
- `BurstBounded`: the bucket never holds more than its capacity.

`ApplicationShutdownProofs`
- `ShutdownOrdered`, `OutcomeKept`: `Spec => []ShutdownInv` and
  `Spec => []OutcomeHonest`, for any number of workers, device threads and exit codes,
  from the inductive `ShutdownBooks`. Its parts say what a thread may rely on from
  where it stands. The coordinator's place fixes the phase and what it has asked
  of worker 0 and of the components (`Stages`). Worker 0 is asked to quiesce exactly
  when a request is published or its publisher is one step away (`MainBooks`), so
  that the fallback of the coordinator, which would record a worker failure, and the
  checks that abort are not reached. A worker's place fixes its lifecycle up to the
  request it has not yet read (`WorkerBooks`), and no worker is ahead of the
  coordinator or more than one phase behind it (`BarrierBooks`); a device
  thread has a request under way only while the components run or wind down
  (`ProducerBooks`); the kept codes are among those reported
  (`StatusBooks`). One lemma takes each part through all actions. Every worker and
  device thread is treated alone, so that the number of them does not matter.
- `NeverAborts`: with `Timeouts` false no abort is reachable.
- `ShutdownAdvances`: an action property of the same invariant. Phase and lifecycles
  never go back, a context once selected or handed to a worker is not replaced.

`ChannelProofs`
- `ChannelSafe`: `Spec => []ChanInv`, for any threads, calls and capacities, from the
  inductive `ChanBooks`. A channel is shared by threads of which each may be waking
  another, so every thread has its own books: what its place says of its call, of
  the lock, of the queue it waits in, of the wake-up it is giving and of the message
  it carries (`CallBooks` to `SeenBooks`). Each step has a lemma that says what it does
  to one thread (`BeginDoes` to `ExitDoes`) and what becomes of the lists and of those
  who wake somebody (`QuietMoves` to `CloseMoves`); each part of the books has a lemma
  that takes it through all steps (`CallKept` to `QueuesKept`). The ring's contents are
  a sequence whatever the wrapping of its two indices (`Wraps`, `RingGrows`, `RingDrops`).
  That a parked thread has exactly one cause to wake is a count and follows at the
  end: it is in one list, or one thread is about to wake it (`CausesCounted`).
- `AnswersTrue`: `HonestAnswers` from the same invariant. For capacity 0 it says less of
  "full" than the code's comment, which is false there (see Findings): open at one
  moment of the call, without a waiting receiver at another. Two receivers never get the
  same message because what is received is a prefix of what was accepted and each
  message is accepted once (`NotReceived`, `GetsNew`).

`RawWriterProofs`
- `OrderKept`: `Spec => []FifoOrder`, for any workers, generations, batches and limits.
  The invariant is `Books /\ FifoOrder`. Order within one lane is about sequences:
  a worker appends the packet it numbered last (`LineBooks`), a batch takes a prefix of
  the queue and a write a prefix of the batch (`LineFilled`, `LineShortened`). But a
  worker's output joins the lanes of all its generations, so that order holds only
  if no packet of an old one is left when a new one opens. This is the close: it
  discards what is in the lanes once the gate's count is zero, and nobody may be
  between the gate and the lane then. Hence the count must be exact (`Exact`: the
  workers inside, the notifications that have yet to post, and those on their way
  out), and only the current generation has anybody inside (`OnlyCurrent`) or holds a
  packet (`OthersEmpty`). Exactness in turn needs that a lane has one driver: two
  notifications of a lane would be counted as one (`DriversKept`).
- `BooksKept`: `Spec => []Books`, the same facts by themselves.
- `WriterSafe`: `Spec => []WriterInv`. The inductive invariant is `WriterCore`: `Books`
  and `FifoOrder` with every part of `WriterInv` but the number of drivers, which
  follows from what is said of a lane (`DriversCounted`). Its parts need each other:
  - Lanes (`LanesKept`, `NativeKept`): a lane that is not marked as scheduled has no
    driver, and a driver of the current generation finds something to do.
  - Storage (`StoredKept`): the references of a generation are its tokens, its drains
    and its owner. Tokens sit in queues; since a lane has one at most, they are as many
    as the workers that have one (`TokenCount`), and a step adds or removes one of these.
  - Producers (`SendersKept`): the owner waits for those who borrowed a generation, so
    what a producer holds is current or retired, never freed.
  - Ownership (`HeldKept`): the packets of a lane are distinct because they are in
    order (`FifoOrder`), and other generations hold none, so that a write of n packets
    reduces the count by n.
  - No fault (`FaultsKept`): a reference is taken only of a living generation and given
    back only by one who has it.

Only model-checked: liveness and fair refinement (beyond the prover); `RetryHonest`,
whose binary search is a recursive function and would need an induction over data;
and all of `PipeTunnel`, `DeviceReader` and `TrafficShaper`. The shaper's conservation
is stated with filters and sums over queues, about which the provers know nothing
without induction; the call stacks of the pipe and the reader are sequences of calls
that each need an invariant of their own.

## 5. Not modelled

- Memory orders: every atomic is sequentially consistent.
- Allocation failures, most of which end the process.
- Of the event loop: idle callbacks, pause and resume, the run-once flag and
  the I/O objects with their write queues.
- Windows: console handlers, service stop, IOCP.
- Constructing and rolling back the process before the first worker is spawned.
- What tunnels do with bytes: formats, cryptography, proxy protocols.
- Of the devices: the TUN writer (a near twin of the raw writer), the writer
  channel, the readers of other systems, offload, and the blocking posts of the
  capture readers.
- Of the users: records, lookup, connection limits, statistics.
- lwIP, c-ares, mimalloc, BoringSSL, Brotli and the other third-party libraries.
  Most lines of the repository are such code, kept in `ww/vendor`, `ww/lwip` and
  inside the TLS tunnels, and are not WaterWall's own logic.
- The components marked `not_modelled` in `PROJECT.json`; see the plan.

## 6. Plan

1. Done: `QuiescenceGate`, `WorkerMessages`, `ApplicationShutdown`, `EventLoop`,
   `LoopTimers`, `IdleTable`, `Channel`, `RateBucket` and `RawWriter`, with proofs;
   `PipeTunnel`, `DeviceReader` and `TrafficShaper`, model-checked.
2. What `WorkerMessages` takes for granted of a posted event and a timer, as an
   abstract specification that `EventLoop` and `LoopTimers` implement; what the
   device modules take for granted of a gate, implemented by `QuiescenceGate`.
3. Pairing in the reverse and half-duplex tunnels, and the mux protocol, on top
   of `PipeTunnel`.
4. The TUN writer and the capture readers, as far as they differ.
5. Node chaining (`node_manager`) and the socket manager's distribution.

Theorems to come: `SweepIsComplete`; `ReaderInv`.
