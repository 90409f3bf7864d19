# yatpool: a verification project

`yatpool` is a thread pool in C (`src/src/yatpool.c`, `src/src/yatpool.h`): a
fixed set of worker threads, a bounded task queue, and three calls that any
thread may make - `yatpool_put` (blocks while the queue is full),
`yatpool_wait` (blocks until the current batch is done) and `yatpool_destroy`
(runs what is queued, joins the workers, frees the pool). This directory holds
TLA+ models of it and of the programs under `src/examples` that use it, the
configurations that check them with TLC, and proofs checked by TLAPS.

## 1. Inventory

### Components

| Component | Code | State | Operations | Modelled by |
|---|---|---|---|---|
| Task queue | `yatpool.c:28-125` | ring of `capacity` slots, `start`, `end` | `taskqueue_init/put/pop/empty/full/destroy` | `TaskQueue`, abstractly `BoundedFifo` |
| Workers | `yatpool.c:143-187` | program point, local `task` and `all_done` | one loop: take, run, free, count, broadcast | `YatPool`; start-up in `PoolInit` |
| Pool calls | `yatpool.c:253-356` | `task_queue`, `all_done`, `tasks_completed`, `tasks_submitted`, one mutex, three condition variables | `yatpool_put/wait/destroy`, `yatpool_pool_size` | `YatPool`, abstractly `PoolContract`; the width of the counters in `BatchCounters` |
| Pool creation | `yatpool.c:189-251` | what has been allocated, how many threads run | allocations, thread creation, error path | `PoolInit` |
| Echo servers | `multithreaded_server.c`, `tcp_server_multithreaded.c` (the same program) | shutdown flag, one socket per task | accept loop, `handle_connection`, `handle_sigint` | `EchoServer` |
| CSV writer | `writing_to_file_threaded.c` | array of lines, array of offsets, mapped file | generate, wait, sort, add up, write, wait, destroy | `CsvWriter` |
| Image blurring | `image_blurring_multithreaded.c` | two images | draw, wait, save, blur, wait, save, free, destroy | `ImageBlur` |
| Numerical integration | `numerical_integration_threaded.c` | array of counts | count, destroy, add up | not modelled, see 6 |
| Serial examples | `*_serial.c` | - | - | results are the reference of `CsvWriter` and `ImageBlur` |
| Tests, build files | the rest | - | - | not modelled |

### How they interact

Everything the workers and the callers share is in the `YATPool` structure and
is read and written with `pool->mutex` held. They talk through three condition
variables:

- `cond_queue`: workers sleep on it while the queue is empty and the pool is
  open; `yatpool_put` signals it (one worker), `yatpool_destroy` broadcasts it;
- `cond_slot_available`: a put sleeps on it while the queue is full; a worker
  signals it (one put) after each pop;
- `cond_curr_batch_done`: `yatpool_wait` sleeps on it until
  `tasks_completed >= tasks_submitted`; a worker broadcasts it, after releasing
  the mutex, when it has seen the batch finished.

A `Task` structure passes by pointer from the put that allocates it to a slot
of the queue, to a worker, to `free`.

The example programs use the pool only through these calls. Their tasks share
arrays with `main` without any synchronisation of their own: that a batch has
ended is known only from `yatpool_wait` or `yatpool_destroy`. The servers also
share a flag between `main` and a signal handler, which may run in any thread.

Two parts of the code touch shared state without the mutex: the error path of
`yatpool_init` (`:229-230`), and the end of `yatpool_destroy` (`:333-354`),
after the join: it empties the queue, destroys the condition variables and
frees the pool, each by itself.

### What is hard, and what must hold

- *Queue.* Full and empty differ only by one spare slot, at every position of
  wrapped indices; a capacity of `SIZE_MAX` has no spare slot. Must hold: the
  ring is a bounded FIFO queue.
- *Counters.* `yatpool_wait` resets both counters to 0 while other threads put
  and workers complete. Must hold: the counters always differ by the tasks
  queued or held by workers, so a wait ends neither early nor never.
- *Wake-ups.* Signals are lost when nobody sleeps, a woken thread may find that
  another took its task or its slot, wake-ups may be spurious, and the
  broadcast for waiters is sent outside the mutex. Must hold: no thread sleeps
  while what it waits for is there and nobody is on the way.
- *Ownership.* A task is run once, freed once, lost never.
- *Shutdown.* `yatpool_put` tests `all_done` once, before it sleeps; workers
  drain the queue before they leave; the pool is freed after the join. Must
  hold: no worker touches the freed pool, accepted tasks run, destroy returns;
  and when other calls overlap it, what was accepted before it still runs.
- *Creation.* Threads run while the pool is still being built, and any step of
  building it can fail. Must hold: workers find everything they read, and a
  failed creation leaves no thread behind.

- *Clients of the pool.* What one batch wrote is read by `main` and by the next
  batch; work is divided with remainders; memory is freed before the pool is
  destroyed, or read after it. Must hold: the threaded program has the result
  of the serial one, no task runs with freed memory.
- *Servers.* A signal meets the accept loop or a handler at any point; peers end
  or reset their connections; a read may fail. Must hold: what was accepted is
  served and closed, also at the shutdown; the shutdown happens.

The complete list, line by line, is under `hazards` in `PROJECT.json`.

## 2. Modules

| Module | What it is |
|---|---|
| `BoundedFifo` | abstract: what the callers of the `taskqueue_` functions rely on |
| `TaskQueue` | the ring of `struct queue` with its index arithmetic and the width of `size_t`; implements `BoundedFifo` |
| `TaskQueueProofs` | proofs about `TaskQueue` |
| `PoolContract` | abstract: what the callers of `yatpool.h` rely on |
| `YatPool` | workers, put, wait and destroy, on top of the FIFO queue; implements `PoolContract` |
| `MCYatPool` | instances of `YatPool` for TLC |
| `YatPoolProofs` | proofs about `YatPool`, in six sections: types and steps, ownership of tasks, `yatpool_wait`, the wake-ups of the queue, `yatpool_destroy`, and that it implements `PoolContract` |
| `PoolInit`, `PoolInitProofs` | `yatpool_init`, its workers' first steps, its error path; proofs about it |
| `BatchCounters`, `BatchCountersProofs` | the two counters as `int`s; proof about them |
| `EchoServer`, `CsvWriter`, `ImageBlur` | the example programs, composed with `PoolContract` |
| `ExampleLemmas` | lemmas that the next three share: sums over finite sets, counting up, who is in the backlog |
| `EchoServerProofs`, `CsvWriterProofs`, `ImageBlurProofs` | proofs about the example programs |

`YatPool` uses a sequence where the code uses the ring; `TaskQueue` is the
reason it may: its refinement of `BoundedFifo` is both checked and proved. In
the same way the example programs use `PoolContract` where the code calls the
pool, and the theorem `YatPoolProofs!Implementation` is the reason they
may. `PoolContract` has the capacities too (`Slots`, `Width`): a put blocks
while the queue is full, and no more tasks run than there are workers.

### TaskQueue

The variables `capacity`, `start`, `end`, `data` are the fields of the
structure; `reply` is the result of the latest call. One action per function
and outcome. `capacity` is `(Capacity + 1) % SizeMod`, as in `size_t`. The
refinement maps the ring to `Contents`, the tasks in its slots from `start` on.

### YatPool

*Grain.* An action is one stretch of code from taking the mutex to releasing
it, where `pthread_cond_wait` releases it on the way in and takes it on the way
out. That is sound because those stretches touch shared state only under the
mutex, so each is equivalent to one atomic step; waiting for the mutex is the
label before the action. Code that runs without the mutex is made of separate
actions: running the task, freeing it, the broadcast after the unlock, and
after the join each step of `yatpool_destroy` that another thread can tell
apart: one discarded task, the end of the loop, the destruction of each
condition variable that a client may sleep on, the release.

*State.* `pc` says where each thread is (the labels are listed in the module,
with the code they stand for); `queue`, `all_done`, `tasks_completed` and
`tasks_submitted` are the pool's fields; `curr` is a worker's `task` from the
pop until it is counted, `local_done` its local `all_done`; `arg` is the task a
thread is submitting; `status` records how far each task has come, for the
properties.

*Condition variables* are sets of sleeping threads, given by `pc`. A signal
moves one of them, whichever; a broadcast moves all; `SpuriousWakeup` moves any
at any time. A woken thread goes back to re-checking its condition under the
mutex, as the `while` loops of the code do.

*Callers.* The clients are arbitrary threads: each, whenever it is outside the
pool, may put any task not submitted yet, wait, or destroy. The function of a
task may put further tasks (`Spawns`); it does not call wait or destroy, which
could not return, since the caller's own task is never counted and its own
worker never joined.

*Overlap.* A pool being destroyed cannot be used afterwards: that is the
caller's obligation, as for every `destroy` in C. With `Overlap = FALSE`
clients respect it (a client destroys only when no other is inside a call, and
no client calls during the destruction); tasks may still put. With
`Overlap = TRUE` clients do as they like, as long as the pool is not freed; what
a call does with a freed pool is undefined, so the behaviours stop there. A put
may then be accepted between the last look at the queue (`:340`) and the
release. `pthread_cond_destroy` with threads still asleep is undefined by POSIX;
the model has what glibc does, which is to block until they have left
(`SlotConditionDestroyed`, `BatchConditionDestroyed`).

*Left out.* The early return after a failed pop (`:161-164`) is dead code: the
mutex has been held since the queue was seen non-empty. The refusal of null
arguments changes nothing. `taskqueue_put` cannot refuse at `:282` for the same
reason. The integers `tasks_completed` and `tasks_submitted` are natural
numbers here; their width is the subject of `BatchCounters`.

### PoolInit

The error path of `yatpool_init` sets `all_done` and broadcasts without the
mutex, so the workers' first steps are split further here: taking the mutex,
reading `all_done` and deciding, and entering the wait are separate. The queue
is empty, as nobody has the pool yet. `held` is what has been allocated or
initialised and not released; each allocation and each `pthread_create` may
fail. If the array of threads cannot be allocated, the error path reads and
frees through `task_queue`, which has never been set (`:242`): that is undefined
behaviour, and `CleanupOfGarbage` leads to a place `"undefined"` about which no
property says anything. It is not a return of NULL.

### BatchCounters

The counters are `int`s that wrap at `IntMax`; a put, a count and a return from
`yatpool_wait` act on them as in the code. The threads are left out: the tasks
that are queued or held by a worker are a number, which `Accounting` of
`YatPool` justifies. Nothing bounds the puts between two waits, as nothing in
`yatpool_put` does; the model is finite because the counters wrap around. `lost`
is a history variable: the tasks that were still outstanding when the latest
wait returned.

### EchoServer

A task of the pool is a connection. `mpc` is where `main` is: between the test
of the flag and the call of `accept` there is a state of its own, because a
signal can arrive there. `hpc`, `bytes_read`, `received` and `echoed` belong to
the handler of each connection; data is counted in chunks, a chunk being what
one `read` returns. `bytes_read` is what the C variable is, a `size_t`: -1
becomes `SizeMod - 1`.

The environment is Linux: `accept`, `read` and `write` of the thread that runs
the signal handler return early, as `sigaction` is called without `SA_RESTART`;
a `write` of `SIZE_MAX` bytes is refused; a reset connection fails one call with
an error, and after that a read sees the end of the connection and a write
raises `SIGPIPE`, which ends the program as nothing handles it. A reset that
follows the end of a connection is met by writes only. A peer need not read what
is echoed: a `write` for which the buffers on the way have no room blocks
(`WriteBlocks`) until the peer reads (`PeerReads`), resets the connection, or a
signal interrupts it. SIGINT arrives any number of times, each time at any
thread; a further one may interrupt the `accept` that the first did not, or the
`read` or `write` of another handler. One that arrives before `sigaction` ends a
program that has done nothing.

### CsvWriter

`main` is one label per statement that matters; the two loops that submit share
`PutTask`, the two waits `CallWait` and `ReturnWait`. A line is its number and
its length; a byte of the file is a line number and a position in that line, so
that a byte in the wrong place, or of the wrong line, is a different file.
Generating and writing are one line per step, so the tasks of a batch
interleave. The reference is what `writing_to_file_serial.c` does with the same
lines: one after the other.

### ImageBlur

The three channels of a pixel are always equal, so a pixel is a number. The
Perlin noise is abstracted to any direction: in whole pixels a worm moves by -1,
0 or 1 along each axis (`Drift`). Drawing is one step of a worm per action,
blurring one row. A saved file is the image at the moment of saving, or nothing
if it could not be opened. The pool is tested for NULL only between the batches,
as in the code.

## 3. Runs

| Run | Configuration | What it shows |
|---|---|---|
| `ring` | `TaskQueue.cfg`: capacity 3, 2 tasks | indices in range, full and empty exact, and the ring implements `BoundedFifo`: what comes out is what went in, once and in order |
| `ring_size_max` | `TaskQueueSizeMax.cfg` | **violation**: for a capacity of `SIZE_MAX` the ring has no slot |
| `pool` | `Pool.cfg`: 2 workers, 3 clients, 4 tasks of which one submits another, queue of 1 | counters, ownership, the three no-lost-wake-up invariants, the wait barrier, the shutdown, the contract; accepted tasks run, put, wait and destroy return |
| `pool_overlap` | `PoolOverlap.cfg`: 2 workers, 3 clients, 3 tasks, queue of 1 | what is left when clients call during the destruction: the contract, up to the tasks it may leave behind; tasks accepted before it still run; and it ends, unless threads go on sleeping on a condition it destroys |
| `init` | `PoolInit.cfg`: 4 threads | whichever step fails: no worker outlives the pool, none meets an unready pool, what leaks when NULL is returned is known |
| `init_hang` | `PoolInitHang.cfg` | **violation**: `yatpool_init` may never return when a thread cannot be created |
| `init_garbage` | `PoolInitGarbage.cfg` | **violation**: the error path passes an unset pointer to `taskqueue_destroy` |
| `echo_server` | `EchoServer.cfg`: 3 connections, 1 worker, 1 slot, 1 chunk | accepted connections are served and closed, also at the exit; complete echo; the shutdown itself, unless `main` sits in `accept` |
| `echo_sigint` | `EchoSigint.cfg` | **violation**: SIGINT need not end the server |
| `csv_writer` | `CsvWriter.cfg`: 0 to 6 lines of length 1 or 2, chunks of 2, 2 workers, 1 slot | the file is the serial one; lines never change; nothing runs while `main` sorts |
| `image_blur` | `ImageBlur.cfg`: 3x3 pixels, 3 worms of 2 steps, 2 workers | the output is the serial blur of the input; each worm drawn once; freed images unused |
| `batch_counters` | `BatchCounters.cfg`: `INT_MAX` 31, 4 tasks outstanding at most, any number of puts | until a wait has returned too early, the comparison in `yatpool_wait` errs in exactly one case: while the put that overflowed `tasks_submitted` is outstanding |

### Bounds

- *Workers 2.* Two workers meet every interference between workers the code
  has: one steals the task another was woken for, one broadcasts while the
  other completes the next task, one leaves while the other is still running.
- *Clients 3*: two wait or put while another puts, or one puts and one waits
  while the third destroys the pool. One of the four tasks of `pool` is
  submitted by another task.
- *Tasks 3 or 4, queue 1.* More tasks than workers and slots together, or as
  many, so puts block, several of them at once, and the counters are reset by a
  wait in the middle of the tasks.
- *Each task is submitted once.* A `Task` is allocated by its put, so
  submitting a function twice is two tasks. This also bounds the counters.
- *Ring: capacity 3, so 4 slots*, through every position of both indices;
  `SizeMod` is 16 in place of 2^64, so that `SIZE_MAX` is 15. Only `capacity +
  1` can reach it.
- *Threads created: 4*; the creation may fail at each of them.
- *Echo server: 3 connections, 1 worker, 1 slot.* The first is being handled,
  the second is queued, and `main` is blocked in the put of the third: the
  shutdown meets all three. One chunk lets an error or a signal come before
  it, between its read and its write, during a blocked write, and after it.
- *CSV writer: chunks of 2, up to 6 lines.* Every remainder, none, one and
  three chunks, so that a chunk has a predecessor whose offset is itself a sum;
  one slot, so `main` blocks in the put.
- *Image: 3x3, kernel 3x3, 2 workers.* Corners, edges and a middle; three worms
  and three rows leave a remainder for the last task; a pixel of one strip
  depends on rows of the other.
- *Counters: six bits* in place of 32; only the place where they wrap differs,
  and `CountersSuffice` holds for any width and any room. Both counters wrap
  around, with up to four tasks outstanding.
- *Symmetry* is not used: the runs of the pool check liveness too.

`TaskQueue` switches deadlock checking off because it stops when destroyed;
everywhere else a state without a step would be reported. In the example
programs the end of the program is an explicit stutter, so a program that hangs
would be a deadlock; the CSV writer and the blurring only go forward and
therefore end. In `YatPool` the only
state without an ordinary step that TLC accepts is the freed pool. (A client
may always choose to call, so a hang of some threads shows up in the wake-up
invariants and the liveness properties, not as a deadlock.)

### Fairness

`FairSpec` of `YatPool` has weak fairness of each thread's own steps: a thread
that can go on eventually does. The operating system schedules every thread,
the mutex starves nobody (it is free between any two actions, so a thread that
wants it is continuously able to take it), and task functions return. Not
assumed: that clients call anything, that spurious wake-ups happen, which
sleeper a signal wakes. `PoolInit` needs strong fairness for taking the mutex,
which other workers hold between its actions; the violation found there is not
an artefact of weak fairness.

`FairSpec` of `EchoServer` assumes that threads are scheduled, that a queued
task is started when a worker is free (`AcceptedTasksFinish` of `YatPool` is
where that is checked), and two things about the peers, which this code does
nothing to enforce: that each peer reads what it is sent, so that a blocked
`write` goes on, and that each ends its connection at some time. Without either
a handler, and with it the server, would stay for ever. Not assumed: that
anybody connects, that a signal comes or comes again, that `accept` fails.

### What was found

1. *A worker can miss the shutdown of a failed creation* (`init_hang`). When
   `pthread_create` fails, `yatpool_init` sets `all_done` and broadcasts
   `cond_queue` without the mutex (`:229-230`). A worker that has read
   `all_done` as false (`:154`) but not yet entered `pthread_cond_wait`
   (`:155`) sleeps after the broadcast; `pthread_join` (`:233`) then never
   returns.
2. *Unset pointer in the error path* (`init_garbage`). If the threads array
   cannot be allocated (`:209`), `taskqueue_destroy` (`:242`) gets
   `pool->task_queue`, which has not been assigned.
3. *No slot for a capacity of `SIZE_MAX`* (`ring_size_max`). `capacity + 1`
   (`:63`) is 0; the comment two lines earlier asks for one extra slot.
4. *SIGINT need not stop the server* (`echo_sigint`). The flag is tested at
   `multithreaded_server.c:98`, `accept` is called at `:107`; a signal in
   between, or one taken by a worker - no thread blocks it - interrupts no
   `accept`. The server stops only when the next connection or a further
   signal arrives. `InterruptSeenOutsideAccept` says that this is the only place
   it can hang.

Also visible in the models, and not errors of the code, as its callers must not
use a pool that is being destroyed:

- A put that was blocked on the full queue when the destruction began is
  accepted all the same, as `all_done` is not tested again
  (`LatePutsWereBlocked`). If the workers have gone by then its task is freed
  without being run and its argument is not destroyed; or, if it comes after the
  last look at the queue (`:340`), it is left in the queue that is freed.
  `EarlyTasksKept` says that neither happens to a task accepted before.
- A put or a wait that is asleep when the last worker leaves is not woken any
  more, and `yatpool_destroy` then blocks in `pthread_cond_destroy`
  (`:349-350`). `DestroyReturnsUnlessHeldUp` says that nothing else keeps it.
- A task that itself puts can be kept in `yatpool_put` for ever if the other
  workers have left and a late put takes the last slot, so that its worker
  never leaves either. This is why the two liveness properties under overlap are
  about tasks that submit nothing; without overlap the same needs as many
  submitting tasks as workers.

An error of the code in a case that hardly occurs, and so not among the above:
the counters are `int`s that only a wait sets back, and `yatpool_put` counts
without a limit (`:283`). A program that puts more than `INT_MAX` tasks and then
waits overflows `tasks_submitted`; as built it becomes `INT_MIN`, and while its
task is outstanding `yatpool_wait` returns at once. `ComparisonExact` says that
this is the only case in which the comparison errs, and that in this case it
does: once both counters have wrapped around, it is exact again.

After a failed creation the mutex is never destroyed, and the queue structure
leaks if its array cannot be allocated (`FailureLeaksLittle`). One peer that
resets its connection after ending it can end the server with SIGPIPE
(`KilledBySigpipe`). The CSV writer and the blurring end without destroying
the pool when they fail.

Three conversions and omissions that came up while modelling; the first two are
in the models:

- `bytes_read` in `handle_connection` is a `size_t`
  (`multithreaded_server.c:46`), so the -1 of a failed read is greater than 0:
  the handler writes with a count of `SIZE_MAX`, which the kernel refuses, and
  reads again; the check for a read error after the loop never sees one. The
  connection is nevertheless closed (`AcceptedIsClosed`, whose mutant shows
  that this hangs on the `> 0`).
- `yatpool_init` may return NULL and the CSV writer does not look
  (`writing_to_file_threaded.c:200`): the lines stay null pointers and `qsort`
  hands them to `cmp_lines` (the outcome `crashed` of `Sort`).
- A negative argument of `numerical_integration_threaded.c` becomes a huge
  `size_t` (`:90`) and passes the test for a minimum number of iterations.

## 4. Proofs

TLC checks the properties on the instances above; the theorems below hold for
every value of the constants: any number of workers, clients and tasks, any
capacity, tasks that submit tasks, with `Overlap` true or false; any number of
lines of any lengths in chunks of any size, images of any size with any kernel
and any number of worms and tasks, any number of connections and chunks. Every
invariant and every action property that a passing run checks is stated by one
of them.

| Theorem | Module | Property |
|---|---|---|
| `Typing` | `TaskQueueProofs` | `TypeOK` |
| `FullAndEmpty` | `TaskQueueProofs` | `FullAndEmptyExact` |
| `Implementation` | `TaskQueueProofs` | `ImplementsFifo` |
| `Typing` | `YatPoolProofs` | `TypeOK` |
| `Ownership` | `YatPoolProofs` | `OneOwner` |
| `CountersAgree` | `YatPoolProofs` | `Accounting` |
| `WaitEndsBatch` | `YatPoolProofs` | `WaitIsBarrier` |
| `WaitersWake` | `YatPoolProofs` | `NoWaiterForgotten` |
| `WorkersWake` | `YatPoolProofs` | `NoTaskWithoutWorker` |
| `PutsWake` | `YatPoolProofs` | `NoSlotWithoutPut` |
| `NobodyLeftInside` | `YatPoolProofs` | `FreedWhenQuiet` |
| `NothingDiscarded` | `YatPoolProofs` | `DestroyRunsEverything` |
| `OnlyBlockedPutsAreLate` | `YatPoolProofs` | `LatePutsWereBlocked` (stated there, not run) |
| `EarlyTasksAreKept` | `YatPoolProofs` | `EarlyTasksKept` (stated there, not run) |
| `Implementation` | `YatPoolProofs` | `ImplementsContract` |
| `Typing` | `PoolInitProofs` | `TypeOK` |
| `NobodyOutlives` | `PoolInitProofs` | `NoWorkerOutlivesPool` |
| `PoolReady` | `PoolInitProofs` | `WorkersFindPoolReady` |
| `WorkersServe` | `PoolInitProofs` | `AllWorkersServe` |
| `LittleLeaks` | `PoolInitProofs` | `FailureLeaksLittle` |
| `CountersSuffice` | `BatchCountersProofs` | `ComparisonExact` |
| `Typing` | `CsvWriterProofs` | `TypeOK` |
| `LinesStayThere` | `CsvWriterProofs` | `LinesStay` |
| `Barrier` | `CsvWriterProofs` | `SortSeesWholeBatch` |
| `SerialFile` | `CsvWriterProofs` | `FileIsSerial` |
| `Typing` | `ImageBlurProofs` | `TypeOK` |
| `WormsDrawn` | `ImageBlurProofs` | `EveryWormOnce` |
| `SerialResult` | `ImageBlurProofs` | `OutputIsSerial` |
| `ImagesSafe` | `ImageBlurProofs` | `FreedImagesUnused` |
| `Typing` | `EchoServerProofs` | `TypeOK` |
| `Served` | `EchoServerProofs` | `ExitServesEveryone` |
| `Echoes` | `EchoServerProofs` | `EchoComplete` |

### Assumptions

`QueueAssumption` and `PoolAssumption` say what the guards of the code say: at
least one thread, at least one slot. They add what the models need: finitely
many threads, workers are not clients, the null task is no task.
`InitAssumption` and `CounterAssumption` only give the constants their types.
The theorems about the ring assume `Fits`, that `capacity + 1` does not wrap;
run `ring_size_max` shows that without it they are false. The theorem about the
counters assumes nothing about the number of puts or the width of an `int`.

The example programs have positive sizes where the code has positive constants
(the number of threads, the queue, the chunk, the image, the steps of a worm);
lines have at least one byte, as each ends in a newline. `ServerAssumption` says
besides that the connections are finitely many, that "no connection" is not one,
and that a `size_t` can count the chunks. The programs rely on the pool
through `PoolContract`, so what is proved of them holds with `YatPool` in its
place to the extent that `Implementation` says: for safety.

### The ring

`TypeOK` is inductive by itself (an index advances modulo the number of
slots). Full, empty and the number of occupied slots are arithmetic on the two
indices: a lemma says what advancing `start` or `end` does to the slot at each
offset. That the slots from `start` to `end` hold task pointers at all
(`OccupiedSlotsHoldTasks`, the type of `Contents`) is by cases on whether the
slot is the one just written; a slot that was popped keeps its old pointer, so
that the *right* tasks come out is only in the refinement. For the refinement,
a put appends to `Contents` and a pop takes its tail, by comparing the two
sequences position by position.

### The pool

1. *Types and placement.* `TypeOK` is not inductive alone: that a worker
   returns from a put into its task's function needs to know that it had a task.
   `Typed` adds `Placement`: a worker holds a task exactly between the pop and
   the count, and a thread submits a task exactly inside `yatpool_put`. The
   lemma `Steps` lists the actions once, `TakeWakes` and `PutWakes` say what
   the two signalling actions do to `pc`; every later proof goes by them.
2. *Ownership.* `OneOwner` is inductive given `Typed`. Each half of it is
   needed: that a queued task is in no other slot, that a held task has no other
   holder, and that `status` names the owner. Actions that move no task share
   one lemma (`OwnerQuiet`).
3. *Counters.* `Accounting` counts the queue and the busy workers; a take moves
   one task from one to the other, a count removes a busy worker, a reset
   happens only when both are empty, because neither is negative. Its second
   half holds until `yatpool_destroy` discards a task, and a discarded task is
   nobody's, so it stays discarded (`DiscardedStays`).
4. *The barrier.* `yatpool_wait` returns when completed >= submitted; by
   `Accounting` nothing is then queued or held, and by `OneOwner` no task has
   the status of a task that is.
5. *Wake-ups.* Each of the three invariants is inductive given `Typed`, so for
   each the question is only which actions could break it. A put signals one
   sleeping worker for one task, so the number of workers on the way grows with
   the queue; a worker that takes a task leaves both; a worker falls asleep only
   on an empty queue. The same for slots, and for the wait: only the count that
   makes the batch done can strand a sleeping waiter, and that worker's next
   step is the broadcast, whatever `local_done` was before.
6. *Shutdown.* `ShutdownOrder` (workers leave and joins begin only after
   `all_done`, the pool is freed by the one that joined) gives
   `NobodyLeftInside` for the workers with any clients. For the rest the
   clients must not overlap the shutdown: `ShutdownAlone` says that the client
   inside `yatpool_destroy` is alone, and that the workers left an empty queue.
   The last worker to leave saw it empty; only a running task could still put,
   and no task runs in a worker that has left.

   With overlap, `OnlyBlockedPutsAreLate` and `EarlyTasksAreKept` say what one
   state implies for all later ones, so each is proved by a predicate of one
   task that its assumption gives and that every step keeps. For the first:
   `all_done`, and the task is neither accepted nor blocked (`TooLateStays`);
   any put of it is then before its test of `all_done`, which refuses it. For
   the second (`Kept`): the task is accepted and not dropped, and while it is
   queued a worker is left (`KeptStep`); workers leave only an empty queue,
   and tasks are discarded only when all have left. When the pool is freed no
   worker holds a task, so it has finished.

7. *The contract.* `Implementation` needs no new invariant: `Typed`,
   `OneOwner`, `Accounting`, `ShutdownOrder` and `ShutdownAlone` together.
   Eight actions show something: `PutAccepted` is `Accept` (the queue has a
   slot), `WorkerTake` is `Start` (nobody has run the head, and the worker
   itself was not busy, so fewer tasks run than there are workers), `CountTask`
   is `Finish`, `ClientWait` and `WaitReturns` are the two ends of a wait
   (`Accounting` gives that nothing is outstanding), `DestroyBegins`,
   `DiscardTask` and `FreePool` are `Close`, `Drop` and `Release`. `Release`
   requires that no task is active, and an empty backlog as well unless
   `MayDrop`: without overlap `FreePool` finds the queue as the last worker left
   it (`ShutdownAlone`), with overlap nothing is claimed of it. For all
   others, lemmas reduce "shows nothing" to "moves no task and nobody in or out
   of `yatpool_wait`".

### Creation

`IInv` of `PoolInitProofs` says what has been acquired at each point of
`yatpool_init` (`HeldByStage`), that threads are created and joined in order
(`ThreadsInOrder`), and that no worker leaves before a creation has failed
(`NobodyLeavesEarly`). The first is why what a worker reads is there, the
second why all of them have ended when the pool is freed, the third why a pool
that is returned is complete. Of the place `"undefined"` the invariant says
only what held when it was reached. The steps of `yatpool_init` and those of
the threads each share one lemma.

### The counters

Whole laps of an `int` are what wrapping around adds or takes (`Laps`).
`Counted`: the two counters and the outstanding tasks agree up to whole laps,
whatever is put, counted or set back. `CountersSuffice` is arithmetic on that:
if they agree, the comparison tells whether anything is outstanding; if they are
a lap or more apart, so is `tasks_submitted` from what it would be without
wrapping around, that is, `OverflowOutstanding`.

### Sums and counting

The lengths of chunks, the offsets and the averages are sums that the models
take with `MapThenSumSet` of the community modules, which is defined by
recursion over the subsets of a set. The induction theorems of the library take
the induction hypothesis as an operator, which the backends cannot instantiate.
`SubsetInduction` takes it as a *set* instead: a set of subsets that contains
every subset whose smaller ones it contains has them all. (The strict subset
ordering of a finite set is well-founded, so if one were missing, a smallest
one would be.) `CountUp` is the same for an interval. With them: a recursive
sum exists, is what `MapThenSumSet` chooses (`TotalIs`), is taken element by
element in any order (`TotalRemove`), and adds up over disjoint parts
(`TotalUnion`, `TotalSplit`, `TotalNext`). The last lemmas say who is in the
backlog of `PoolContract` after an `Append` or a `Tail`.

### The CSV writer

1. *Division.* Chunks lie within the lines, follow each other and cover them,
   with or without a shorter last one (`ChunkBounds`, `ChunksApart`,
   `ChunksCover`).
2. *Batches.* `PoolKept` and `Batches` say which tasks have been put and which
   may still be pending at each label of `main`. A wait that returns has
   nothing outstanding, so all that was put before it has finished. `Barrier`
   follows.
3. *Progress.* A task is somewhere in its chunk, what it has added up is the
   length of what lies behind it, and exactly the lines behind it exist
   (`Progress`, `LinesMade`). So a line is generated only where there was none
   (`LineGenerated`), and the lines are already in the order the sort asks for:
   sorting changes nothing (`SortKeeps`). `LinesStayThere` follows.
4. *Offsets.* Each is first the length of its chunk and then, by `CountUp` over
   the chunks, of everything up to its end (`OffsetsAddUp`). That is where the
   tasks of the second batch begin to write.
5. *The file.* A line is copied to the sum of the lengths before it
   (`LinePlace`). The places of different lines are disjoint, since a line
   begins only where an earlier one has ended (`PosOrder`), so what is written
   stays (`LinesWritten`) in whatever order the tasks run. At the end every
   line is in its place, and every byte of the file is in some line:
   `SerialFile`.

Without a pool no line ever exists (`NoPoolNoLines`), so the length of the file
is 0 and it cannot be mapped (`OpenHasPool`): with more than one line `main`
crashes in the sort, and with one it fails at `mmap`. The theorems cover these
runs too.

### The image blurring

`PartBounds`, `PartsApart` and `PartsCover` say that the parts divide the work,
the last taking the remainder; `Batches` and `Progress` are as for the CSV
writer. A worm has been drawn once or not at all, by whether the task it
belongs to is past it (`DrawnByOwner`), and `WormsDrawn` follows when all have
finished. While the second batch runs nobody draws, so the source does not
change and the rows that are done stay the blurred source (`RowsBlurred`):
`SerialResult`. For the types, an average of colours is a colour (`Average`, by
the lemmas on sums), and a step of a worm wraps around into the image
(`WrapInside`). `ImagesSafe` needs only that nothing is pending after the
second wait.

### The echo server

`NoneForgotten`: what `accept` returned is a task of the pool or in `main`'s
hand, which is the case exactly between the accept and the put. `IdleOutside`:
at the exit the pool has nothing pending, as `main` came there through
`yatpool_destroy` (or before it created the pool). Together they give `Served`.
For `Echoes`, `EchoedSoFar` says what a handler owes its peer: nothing while it
reads, the chunk it has just read while it writes, blocked or not. This holds
only for connections that were not reset and whose handlers no signal met
(`interrupted` is the set of the others). That a failed read continues as a huge
count (`AsSize`) is in the proof: `Refused` never holds of the others.

Every proof is checked by `tlapm` with the backends SMT (Z3), Zenon and LS4.

### Only model-checked, or argued

- *Liveness* (`AcceptedTasksFinish`, `EarlyTasksFinish`, `PutAndWaitReturn`,
  `DestroyReturns`, `DestroyReturnsUnlessHeldUp`): fairness and `ENABLED` are
  outside what TLAPS does. The wake-up theorems are the safety part of it:
  nobody sleeps on what is there. The same goes for `AcceptedIsClosed` and
  `InterruptSeenOutsideAccept`.
- *Programs on the real pool, as one system*: the example programs are proved
  with `PoolContract`, and `YatPool` is proved to implement it. That the two
  fit together is argued, as for any refinement, and not checked as one system.

## 5. Plan

The order in which the project was built, most important first: the queue and
its refinement; the running pool, its contract, its wake-ups and its shutdown;
the creation; the width of the counters; the example programs as clients of the
contract; the proofs of the above. What a next step could add:

1. larger instances of the example programs: more workers than chunks, several
   workers in the server;
2. the numerical integration, whose sum of counts the lemmas of `ExampleLemmas`
   would cover;
3. an example program composed with `YatPool` itself on a small instance.

## 6. Not modelled, and why

- *Control flow of the serial examples, build files*: no concurrency, or
  nothing at run time.
- *Numerical integration*: eight tasks with an array slot each, then
  `yatpool_destroy`. That they have all run when `main` adds up the slots,
  though it never waits, is `DestroyRunsEverything`; the rest is arithmetic on
  one argument. (All tasks seed `rand_r` with 42, so they try the same points,
  and the result is no better than that of one task.)
- *`printf` in the signal handler* (`multithreaded_server.c:38`): what happens
  if it interrupts another `printf` is inside the C library.
- *Text formats and clocks* in the examples: no property is about them.
- *Tests*: single-client sequences of calls, all of them behaviours of the
  arbitrary clients of `YatPool`.
- *`yatpool_pool_size`*: reads a field that never changes.
- *Failure of `malloc` in `yatpool_put`* (`:264`): the write through the null
  pointer ends the program.
- *Calls on a freed pool*: undefined behaviour.
- *Failure of `pthread_join` and of the mutex functions*: they fail only for
  handles that are not valid, which `PoolInit` and `YatPool` show they are not.
