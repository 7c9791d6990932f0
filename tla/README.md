# A TLA+ development of SystemCTest

The repository is a collection of C++ and SystemC programs around the modelling of
a many-core accelerator. This directory states what its core parts do as TLA+
modules, checks them with TLC on small instances, and proves with TLAPS, for instances
of every size, what matters most about the command processor, the ring buffer, the thread
pool with its loops, the block scheduler, the memories behind the router, and the exercises.

1. [The system](#1-the-system)
2. [The modules and the code](#2-the-modules-and-the-code)
3. [What each run checks and shows](#3-what-each-run-checks-and-shows)
4. [Fairness](#4-fairness)
5. [What is proved](#5-what-is-proved)
6. [Where the code differs from what it says](#6-where-the-code-differs-from-what-it-says)
7. [What is not modelled](#7-what-is-not-modelled)
8. [The plan](#8-the-plan)

## 1. The system

### Inventory

| Component | Where | State | Operations |
|---|---|---|---|
| Command processor `AJCpModule` | `cp_model/cp.h`, `cp.cpp` | registers `queue_id`, `queue_status`, `queue_sync`; last message `mes`; bit words `all_queue_status`, `queue_mask`; events `device_sync`, `wptr_update` | `SearchQueue`, `CPQueueStart`, `CPQueueManage`, `thread_process`, `b_transport` |
| Queue `AJQueue` (32 of them) | `cp_model/ajqueue.h`, `ajqueue.cpp` | its own registers and `mes`; `ib_size`, `ib_offset`, `queue_pause`; event `received_from_cp` | `Thread_Queue`, `CpIndirectBuffer` and the header parser, `CpDeviceSync`, `CpQueueRelease`, `QueueReportCp`, `b_transport` |
| Host `Top` | `cp_model/main.cpp` | the address map, the indirect buffer | `NotifyWptr`, every 3 ns |
| `RingBuffer` | `cp_model/ringbuffer.h` | vector, head, tail | `add`, `get_count`, `get_addr` |
| Thread pool `BS::thread_pool` | `TestBS/BS_thread_pool.hpp` | task queue, `tasks_running`, `paused`, `waiting`, `workers_running`, the threads, two condition variables | `detach_*`, `submit_*`, `wait*`, `pause`, `unpause`, `purge`, `reset`, constructor, destructor, `worker` |
| Pool utilities | `TestBS/BS_thread_pool_utils.hpp` | a promise, a mutex around a stream, a clock | `signaller`, `synced_stream`, `timer` |
| Block scheduler | `Blockscheduler/` | the tree SoC, cluster, core, subcore, warp; the running `Block`s; the grid counter | `SchedulerMode1` (placement, then reuse) |
| TLM router and memory | `SystemC/TLM2.0/test2.cpp`, `test.cpp` | four memories, one DMI region | `b_transport`, `get_direct_mem_ptr`, `transport_dbg` |
| SystemC lessons | `SystemC/learnSystemCFiles/` | per program: a few threads or methods, with an event, an event queue, a mutex, a semaphore, signals, a clock or a reset between them | the processes, and the kernel: delta cycles, notifications, time |
| Algorithm exercises | `lc/` | none between calls | five sorts, `binarySearch`, `reveseList`, `deduceTree`, `replaceSpace`, `findDuplicates`, `searchMatrix` |

### How the components interact

*Command processor.* The host notifies `wptr_update`. The thread of the command
processor wakes, takes the lowest free queue, marks its bit and calls the
`b_transport` of that queue, which copies the message and notifies the thread of the
queue. That thread parses the indirect buffer, one command per nanosecond, and
reports by calling the `b_transport` of the command processor **in its own thread**:
the call overwrites the one set of registers, sleeps 1 ns and then notifies
`device_sync`. So up to 33 threads write the same registers, and what
`CPQueueManage` reads when it wakes is whatever the last report left.

*Pool.* Clients and workers share the queue and four flags under one mutex; two
condition variables carry the wake-ups. Notifications are sent after the mutex has
been released, and a worker decides whether to notify the clients by three reads
without the mutex. The block scheduler is written as a client of the pool.

### What is hard here, and what makes a component correct

* Both events of the command processor may be triggered in the same nanosecond, in
  either order, before or after the thread has run. Each update of the write pointer
  must be served once (`ServesTheBell`).
* Messages are sent with fields left over from other messages. No queue may be woken
  with an address the map does not hold or with another queue's number
  (`NothingLeftOver`: `IbAlwaysMapped` and `OwnQueueId`), or while it is at work (`StartsIdleQueue`).
* The loop over the buffer is left in the middle by a sync, by a stale sync flag, and
  entered again later. The offset must stay at a header (`OffsetAtHeader`), the pause
  must belong to a sync of this buffer (`PausedPastSync`), and the place
  behind the sync must be kept through the reports (`PausedKeepsPlace`).
* In the pool a wake-up can be lost between a submission and a worker that blocks,
  between the last worker and a client that begins to wait, and between the destructor
  and a worker (`QueueDrains`, `WaitReturns`, `ThreadsStop`); one counter carries the
  meaning of `wait` across resets (`RunningCount`, `WaitMeansDone`).
* The loops of the pool compute the two ends of a block separately, may meet an
  exception in any task, and wait against a clock that goes on (`EachIndexOnce`,
  `GetIsComplete`, `DoneIsHandled`, `CallReturns`).
* The placement of blocks has breaks and a quota in three nested loops whose variables are
  moved from inside: no overlap, no gap, no block in part (`OneWarpPerSlot`,
  `GridPlacedOnce`, `WholeBlocks`, `FullBeforeReuse`).
* The pool as a whole: its mutex, its late notifications, purges and resets must not
  show in the tasks. They start in the order of submission, each one once, and no more of them
  at a time than there are threads (`ImplementsTaskPool`).
* In the lessons the standard leaves open which of two runnable processes goes first: a
  thread that releases a lock may take it again before the one it has woken (`TurnTaking`),
  a reset is written at the edge that reads it (`SameInEveryOrder`), and inputs, clock and reset while the output is
  computed (`OutputIsProduct`).
* The sorts have their hazards at the ends of the vectors: `size_t` minus one, an index -1, halves of length one, two
  indices that meet (`SortsSort`, `ExercisesEnd`). Among the other exercises are a search that goes on in the
  wrong half, marks in the vector that is still being read, a walk that must not leave a row or column with
  the target, a tree whose left halves overlap, a list whose head moves and a string that is written
  over itself (`AnswersRight`, `ExercisesEnd`).
* A memory offers four times what the router lets through, by two ways that translate
  addresses separately (`OneMemory`, `DmiServesItsAddress`).

The full list, with the line where each bites, is under `hazards` in `PROJECT.json`.

## 2. The modules and the code

| Module | Models |
|---|---|
| `PacketHeader` | the fields of a command header, by mask and shift |
| `CommandProcessor` | the host, the command processor and the queues, composed under the SystemC scheduler |
| `Doorbell` | abstract: what the host may expect of an update of the write pointer |
| `CommandProcessorProofs` | the theorems about `CommandProcessor` |
| `RingBuffer` | `RingBuffer` |
| `RecentWindow` | abstract: a window over the last values added |
| `RingBufferProofs` | the theorems about `RingBuffer`, its refinement included |
| `ThreadPool` | `BS::thread_pool` with pausing enabled, as `test.cpp` builds it |
| `TaskPool` | abstract: what a pool promises about tasks; `ThreadPool` implements it, `ParallelLoop` relies on it |
| `ThreadPoolProofs` | the theorems about `ThreadPool`, its refinement included |
| `ParallelLoop` | the loops of `BS::thread_pool`, the class `blocks`, `submit_task`, `multi_future` |
| `ParallelLoopProofs` | the theorems about `ParallelLoop` |
| `BlockScheduler` | `SchedulerMode1`: where the blocks of a grid are placed |
| `BlockSchedulerProofs` | the theorems about `BlockScheduler` |
| `AddressRouter` | the initiator, the router and the memories of `test2.cpp`, the initiator and the memory of `test.cpp` |
| `AddressRouterProofs` | the theorems about `AddressRouter`, its refinement included |
| `FlatMemory` | abstract: one word for each address of the bus |
| `SystemCKernel` | the SystemC kernel as the lessons use it: processes, events, event queues, signals, delta cycles, time |
| `Lessons` | eight of the programs of `learnSystemCFiles`, over `SystemCKernel` |
| `LessonsProofs` | the theorems about `Lessons` |
| `Exercises` | the programs of `lc/`: five sorts, `binarySearch`, `findDuplicates`, `searchMatrix`, list, tree, string |
| `ExercisesProofs` | the theorems about `Exercises` |
| `MCCommandProcessor`, `MCRingBuffer`, `MCThreadPool`, `MCParallelLoop`, `MCBlockScheduler`, `MCLessons`, `MCExercises` | values of the constants for TLC |

### CommandProcessor

**The scheduler.** SystemC threads are coroutines: one runs at a time, from one
`wait` to the next, and the order among the runnable ones is left open by the
standard. An action is one such segment, whole, with every `b_transport` it calls
into the other module up to the next `wait`. For example `SyncReported(q)` is what the
thread of queue `q` does after the 1 ns inside the report of a sync: notify
`device_sync`, return through `QueueReportCp`, `CpDeviceSync` and `CpCommandHeader`,
move the offset, take the `break`, and possibly start the next report, which writes
the registers of the command processor again. `notify()` is immediate: it wakes a
thread parked on the event and is lost on any other. All timed waits are whole
nanoseconds, so a nanosecond has one evaluation phase, and `Tick` is enabled only
when no thread is runnable. `device_sync` and `wptr_update` hold `triggered()`, which
stays true to the end of the phase.

**State.** `cp` is `AJCpModule` with the place of its thread; `queue[q]` is an
`AJQueue` with the place of its thread; `delay` is what is left of a timed wait, 0 or
1; `host_delay` is the same for the host. `all_queue_status` and `queue_mask` are sets
of queue numbers: `w & (1 << i)` is an intersection, `w | (1 << i)` a union.
`fault` records how the program ended: an uncaught exception of `getIbufPtr`, or the
index -1 into the array of sockets when no queue is free.

**Uninitialised memory.** `Message mes` of the command processor has no initial value
and `CPQueueStart` sends its `queue_sync`: `Init` chooses it. Values other than 0 and
1 behave as 0 does, since the code only compares with 1. The other uninitialised
members are assigned before they are read.

**Left out.** `CpToCu` does nothing; trace output, the payload attributes nobody
reads, and `event_status0`, which nobody uses.

### RingBuffer

`add` and the getters, for any size. A word of 64 bits is the pair of its halves. The
refinement `ShowsRecentValues` maps the ring to the sequence that the *getters* show,
so it covers the reading side as well as head and tail. The getters accept any
index: only those below the number of values held are used in the mapping.

### ThreadPool

An action is one section under `tasks_mutex`, or one step after it: a notification,
or one of the reads at line 917, where `waiting`, `tasks_running`, `paused` and
`tasks` are read without the mutex. The program has a data race there, and the model
takes the reads one at a time in any order (`Check`), which covers what a build can do
with them. `notify_one` wakes any blocked worker; `WakeAlone` is the wake-up without a
notification that the standard allows, and is never forced to happen.
`wait`, `wait_for` and `wait_until`, `reset` and the destructor share `EvaluateWait`;
what follows depends on the goal of the call. `detach_sequence`, `detach_loop`,
`detach_blocks` and the `submit_*` functions are repeated calls of `detach_task` here;
what they divide and wait for is in `ParallelLoop`.
Tasks are numbered in the order of submission; the task's own work is one step.
`done` holds the tasks that have ended or were purged, for the properties only.

`ImplementsTaskPool` maps the pool to `TaskPool`: the queue to itself, the tasks of the
workers at "run" to `running`, `done` to `ended`, `thread_count` to `threads`. The locked part
of `detach_task` is then a `Submit`, `Take` a `Start`, `TaskEnds` an `End`, `purge` a `Drop`,
the creation of new threads a `Resize`, and every other step, the notifications among them, a
stutter.

### ParallelLoop

One call of a loop function: the range is divided as the class `blocks` does it, a task is
submitted at a time while the workers already run the first ones, and the caller waits with
`wait`, `get` or `wait_for` of the `multi_future` (a detached loop with `wait` of the
pool). The pool itself is abstracted to what the loops need of it, and written so in `Take`: tasks
are taken in order, `thread_count` at a time, which is what `ImplementsTaskPool` shows of `ThreadPool`; the loops call nothing
else of it. The two models are not composed. The user's function may throw; a task that was submitted keeps
the exception in its promise, a detached one ends the program. `function` says how the
function was passed: the lambda of each turn captures it with `std::forward`, so a
temporary is moved into the first task, and what is left for the others is a copy or an
empty function, as its type has it (`HasFunction`). The time of `wait_for` is
where the clock stands against its limit: before, at or after it; lines 258 and 279 of the header compare strictly.

### AddressRouter

The initiator is the only thread of the program, so an access is one action: the
direct one through the DMI pointer, or the transaction with everything it calls
(`Router::b_transport`, `Memory::b_transport`, the check of the response and the
request for a new range). The time an access takes is left out. A word of memory is
its own name until the walk overwrites it, so that a word read at a wrong place is seen.
The refinement `OneMemory` compares all that the walk reads and
writes with `FlatMemory`. `INJECT_ERROR` is a build option and chosen by `Init`, and so is `program`: in
`test.cpp` the initiator is bound to the memory without a router; every access is a transaction, and the walk stays
inside the one memory.

### BlockScheduler

An action places one `Block` (`PlaceNarrow`, several of them to a subcore; `PlaceWide`, one
over several subcores), or is one turn of the loops around it (`SubcoreFull`, `MoveOn`). The
loops read nothing that the pool writes, so the placement is sequential, and the
pool enters at one point: the `Block` is a local object, destroyed at the end of the
loop's body while the vector `blocks` and the submitted calls keep its address
(`block_scheduler.h:132`). Whether all its warps have run by then is up to the threads, so
`Place` chooses (`dangling`). From there on the program may touch a destroyed object at any moment
(`UseDeadBlock`), and the model ends: the body of the reuse loop works on destroyed
objects only and is left out, with the flags `warps_work_end_` nobody else reads.
`Start` and `CallAgain` keep the one member of the scheduler across calls:
`is_block_scheduler_init_` is never reset, so a second call, like a first one with wide
blocks only, sleeps for ever in the reuse loop (`ReuseSleeps`).

A `Warp` records both the entry of the subcore its `AJWarp` is stored in (`slot`) and the
number `do_run` is called with (`id`), which `do_run` uses as an entry as well. The source of
this component does not compile as it stands (`warp[i] = AJWarp(...)` for an array of pointers,
`soc` for `soc_`, types of another repository); the model follows its evident reading.

### Lessons and SystemCKernel

`SystemCKernel` has what the standard says of the scheduler and no more: of the runnable
processes any one goes first, although `mutex.cpp:8` comments that the order is that of the declarations;
signals change in the update phase; an event keeps the earliest of its notifications and an event queue all;
and `sc_start(T)` does not evaluate the processes of time `T`. Each action of `Lessons` is
what one process does between two waits. A mutex is a semaphore with one resource: the `sc_mutex`
and `sc_semaphore` of the library loop over `wait(free)` when the resource is taken.
What the lessons print is kept as sequences of times or numbers (`printed`), and
`Expected` holds what their comments say is printed, except for `sc_cthread.cpp`: no comment
states its output, and the sequence is worked out from its code.

The numbers that the programs happen to have are constants: the threads and the resources of a lock, the elements of a
vector, the largest `int`. `LessonsAssumption` asks for at most two threads to a resource, as both programs have
(two and three threads, one and two resources), and for vectors of one length; with a third thread to a resource `TurnTaking` is not true.

`Multiply.cpp` is one of its `vector_mul`, with its four elements. Its sum is an `int` although its output has
64 bits, so `ToInt` cuts it in every turn of the loop (to 4 bits in the instance, and inputs that overflow them); a remainder of the
two's complement is what the compilers make of the conversion. `OutputIsProduct` has a reference of its own, `Total`, which
is cut once.
The recorded trace `wave.vcd` of the repository agrees with the model: the output at time 0 is the dot product cut to
32 bits (1688034064 for 5270354306185124624), and 0 from the reset on.

### Exercises

The initial state chooses an exercise and its input. An action is one turn of a loop or one call of a recursive
function; the variables are the locals of the functions, and those of the exercises that do not run keep their values.

*Sorts.* `BubbleCompare` and `BubbleTurn` are
the inner and the outer loop of `bubbleSort`, `SelectTurn` and `InsertTurn` a turn of the outer loop with the whole
inner one, stated by where that stops; `PartitionTurn` a turn of the `while` of `quickSort`
with the two loops inside, `PlaceKey` what follows it; `MergeTake` a turn of any of the three loops of
`mergeSortCore`, `MergeReturn` the copy back. `calls` stands for the stack: what is left
to do of all calls, from left to right. `quickSort` leaves nothing to do behind its two calls, so they take
the place of their caller; `mergeSortCore` has the merging left, which waits behind them as `Halves`.
`dataTemp` keeps what earlier merges left in it. An index outside the vector would be an
error of the evaluation in TLC. The one index that
the code does let out, the -1 of `insertSort`, is inside `InsertTurn`: whatever `datas[-1]` holds, the loop ends there.

*Searches.* `binarySearch` (`SearchTurn`), `findDuplicates` (`Visit`) and `searchMatrix` (`MatrixCall`, which throws for a
matrix without rows, and `MatrixTurn`). `OnceOrTwice` is what the comment before `findDuplicates` demands of its
input; the others take any vector, and any matrix whose rows have the same length. `binarySearch` and `searchMatrix`
are for ordered inputs, and are checked and proved for both: what they return without an
order as well (never a place or an answer that is not true), and what they find with one.

*List, tree, string.* `next` holds the links of the list of `main`; `ReverseTurn` is a turn of `reveseList`, `Walk` the loops that
print and delete. A node of a tree is its way from the root, and an input of `deduceTree` is a tree with the
two traversals that lines 17 and 18 of `binaryTree.cpp` describe (`IsTree`), so the reference is that tree. `TreeCall` is
one call: `waiting` holds the calls that are left, and `tree` the nodes made so far. `ReplaceTurn` is a turn of the loop that writes the
string from behind, over the characters it still has to read.

## 3. What each run checks and shows

| Run | Instance | Properties | Shows |
|---|---|---|---|
| `cp_buffers` | 6 queues, all 3^5 buffers over header, header with one body word, device sync | `TypeOK`, `NothingLeftOver`, `OffsetAtHeader`, `PausedPastSync`, `PausedKeepsPlace`, `ServesTheBell`, `StartsIdleQueue` | Parsing, pausing and addressing for every buffer, to the moment no queue is left; the refinement of `Doorbell`, liveness included. Without syncs a start only goes to a parked queue. |
| `cp_release` | 3 queues, the buffer of `main.cpp` | `ReleasedBecomesFree` | violated, see section 6 |
| `ring` | size 5 as in `main.cpp`, four values | `TypeOK`, `ShowsRecentValues` | The ring is a window of the last four values through every wrap. |
| `pool_calls` | 2 clients, 1 or 2 workers, 2 tasks, all calls | `TypeOK`, `RunningCount`, `ImplementsTaskPool`, `DestructorRunsTasks`, `WaitMeansDone` | The counters, what `wait` and the destructor mean, and the refinement of `TaskPool`. |
| `pool_wait` | 1 client, 1 or 2 workers, 3 tasks, no reset | `QueueDrains`, `WaitReturns`, `ThreadsStop` | No wake-up is lost. |
| `pool_reset` | 1 client, 2 workers, 1 task, with reset | `QueueDrains` | violated, see section 6 |
| `blocks` | 2 clusters of 2 cores of 4 subcores of 3 warps; 6 grids, blocks of 1 to 6 warps, 11 settings of the backdoor | `TypeOK`, `OneWarpPerSlot`, `GridPlacedOnce`, `WholeBlocks`, `FullBeforeReuse` | Every placement fills the hardware without overlap, covers the grid once, and leaves no block in part. |
| `router` | 4 memories of 32 words behind windows of 32 bytes, a walk over 8 addresses; and the walk of `test.cpp` through one memory | `TypeOK`, `DmiServesItsAddress`, `DumpShowsMemory`, `OneMemory` | Transactions and direct accesses meet in the same words, on both sides of the border. |
| `loops` | 2 threads; ranges of 0 to 5 indices from -1, 0 to 6 blocks, functions that throw or are temporaries | `TypeOK`, `EachIndexOnce`, `BlocksBalanced`, `GetIsComplete`, `DoneIsHandled`, `CallReturns` | The blocks are a balanced partition, exceptions reach the caller, each wait ends, and those without a limit mean what they say. |
| `loops_temporary` | the same | `EveryIndexRuns` | violated, see section 6 |
| `lessons` | the eight programs to the end of their simulation; an `int` of 4 bits, inputs 1 and 6 | `TypeOK`, `TurnTaking`, `SameInEveryOrder`, `OutputIsProduct` | In every order of the runnable processes the locks alternate without starving a thread, what the lessons print is what their comments say (for `sc_cthread.cpp`: one sequence, taken from the code), and the output of the dot product is the cut product, then 0. |
| `exercises` | all vectors of at most five of three numbers, of at most five numbers that appear once or twice, all matrices of at most two rows and three columns, lists and trees of at most five nodes, strings of at most five characters | `SortsSort`, `AnswersRight`, `ExercisesEnd` | Every sort ends with an ascending permutation of its input; the others return, and what they return is true with any input and complete with the one they are for. |

**Bounds.** *Queues.* Each update takes one queue. With the buffer of `main.cpp` none
is ever freed (section 6), so a behaviour with `QNUM` queues is a run of `QNUM` starts and one update more. With some of
the other buffers the command processor runs when a release has just been reported; the `&` of `cp.cpp:90` then frees every queue
but the one that reported, and more starts follow. The states stay finite all the same, and TLC visits all of them. Without
a sync a queue is parked again before the third one after it starts, so three already overlap as much as they
can, and six let the overlapping ones change; the program has 32, and what is proved holds for any
number. *Buffers.* The parser distinguishes a header by its body length
and by being a device sync, so three words are enough to reach every branch; five words
is the size of `main.cpp`, and a body word as the last word makes the offset
overshoot the end. *Ring.* Four values added more than five times wrap both indices.
*Pool.* Two workers and two clients give every pair of threads that can race; two
tasks make an order, three make a worker take a task while another is about to block.
`MaxTasks` bounds submissions, `MaxThreads` the threads. *Loops.* Five indices in three blocks leave a
remainder of two; more blocks than indices, one block, and as many as threads are among the
cases. *Lessons.* They run to their own end, with the threads and vectors they have; the bounds are the width of an `int` and the inputs, and
what is proved holds for any. *Exercises.* Five
elements give `mergeSort` and `quickSort` both parities on two levels, three numbers give equal and
ordered pairs on both sides of a pivot. Five elements have a middle, two halves and their
middles; three numbers are one sought, a smaller and a greater one. Trees of five nodes have every shape on two levels. *Router.* `test2.cpp` has windows of 256 bytes, memories of 256 words and a walk of 32
words; the instance keeps a window to be a quarter of a memory and the walk half a window on each side.
*Blocks.* `header.h` has 16
clusters, 5 cores, 4 subcores, 16 warps, a quota of 32 blocks per cluster and blocks of at most 32
warps, two subcores; the instance keeps the four subcores and the ratio of two, and a quota of 7 that
cuts in inside a subcore (blocks of one warp) and inside a core (two or three warps),
and leaves wider blocks alone. Widths that do and do
not divide a subcore are among 1 to 6, and the largest grids exceed the SoC or `UintSize`. `WholeBlocks` and
`FullBeforeReuse` depend on the ratio (`WidthsAssumption`): with blocks of three subcores the last one of a core
would be left in part. TLC checks deadlock in all
runs: a simulation that has ended and a pool that has been destroyed stutter explicitly
(`Halted`, `Destroyed`).

Every property of a passing run is paired with a mutant of a mapped definition that
violates it; the mutants stand just before the definitions they change and are
listed in `PROJECT.json`.

## 4. Fairness

* `CommandProcessor`: `WF_vars(Next)`. The kernel runs a thread whenever one is
  runnable and advances time otherwise; nothing is assumed about which thread it picks.
  That is enough for the liveness part of `Doorbell`, because the number of segments in a
  nanosecond is finite.
* `BlockScheduler`, `AddressRouter`, `RingBuffer` and `Lessons`: none, their properties
  are safety properties.
* `Exercises`: `WF_vars(Next)`, a sequential program that is not stopped in the middle.
* `ThreadPool`: weak fairness of each worker and of each call that has been made
  (`GoOn`). It stands for an operating system that runs every thread and for tasks that
  return. No client has to make a call, no timeout has to expire, and no thread has to
  wake up without a notification.
* `ParallelLoop`: the same, for the caller and for the workers taken together. The clock
  need not run: a `wait_for` without a limit in sight ends with the last task.

## 5. What is proved

### The command processor

`CommandProcessorProofs` proves, for every `QNUM`, every `IbSize` and every set of
buffers, from the assumptions that these are positive, that the ring address is not 0 (a report sends
address 0, and `main.cpp` uses 0xA) and that a buffer holds `IbSize` words:

| Theorem | States |
|---|---|
| `Invariance` | `Spec => []IInv` |
| `TypeCorrect` | `Spec => []TypeOK` |
| `MessagesMeant` | `Spec => []NothingLeftOver` |
| `HeadersOnly` | `Spec => []OffsetAtHeader` |
| `PauseHasSync` | `Spec => []PausedPastSync` |
| `PausedPlaceKept` | `Spec => PausedKeepsPlace` |
| `NeverResumed` | `queue_mask` stays empty and no queue is ever resumed (section 6) |
| `ServesTheBellSafely` | `Spec => Bell!SafeSpec` |

**The invariant.** None of the properties is inductive. A thread that returns from the
report of a sync reads the header at its offset once more (`ajqueue.cpp:80`); the type
of the result needs to know that this offset lies inside the buffer (`SyncInside`).
A woken queue parses what its message names, so the message must still be the one of
the command processor (`ReadyMapped`): this holds because a report, which clears the
address, is made by the thread itself, and a thread that reports is not parked. A sleeping
or parked thread has a delay that fits its place (`ParkedAwake`). For the doorbell
the invariant ties the command processor to the host (`CpInv`): the 1 ns of
`CPQueueStart` begins in a nanosecond with an update and ends in the next one, which has
none since updates are 3 ns apart, so the thread is parked again before the host
rings and no update is lost. `CpInv` also holds that `queue_mask` is always empty: that is the
bug of `cp.cpp:73`, and the reason why no resume message with a cleared address is ever
sent (with `|` for `&`, the mutant `RecordSyncOr`, `NothingLeftOver` fails).

**The argument.** The lemmas about the parser (`ParseInv` and those it rests on) say that the pure
operators on a queue's state keep its part of the invariant; `HeaderNext` says that the
offset behind a command that starts at a header is a header offset, with the set of header offsets defined as a
least fixed point. Each action has one lemma; the step theorem combines them, and the
temporal theorems follow with PTL. The refinement maps every action to `Ring`, `Serve`,
`Fail`, `TimeAdvances` or a stutter of `Doorbell`.

### The thread pool

`ThreadPoolProofs` proves, for every number of threads, clients and tasks:

| Theorem | States |
|---|---|
| `TypeCorrect` | `Spec => []TypeOK` |
| `RunningCounted` | `Spec => []RunningCount` |
| `DestructorRuns` | `Spec => []DestructorRunsTasks` |
| `WaitIsDone` | `Spec => WaitMeansDone` |
| `PoolImplements` | `Spec => ImplementsTaskPool` |

`RunningCount` says that `tasks_running` is the cardinality of the workers that run a task or have
yet to arrive; each action adds or takes one worker from that set, and the unsigned counter
does not wrap because a thread that counts itself down is a member. Creating threads sets the
counter anew, which is right only if no old thread is left: `ClientInv` has this, and that the
owner alone resets and destroys. `WorkerInv` says that two workers never have the same task, and
`QueueInv` that the queue holds the last tasks submitted, in order, and that all the others run or
have ended; from both follows that a task taken is new, which is what the refinement needs
(the next number of `TaskPool` is computed from the sizes of its three sets). `DestroyInv` follows the
destructor: once its wait is over nothing is submitted any more, so what was done stays done while the
threads stop. The step of the refinement is proved action by action.

### The loops of the pool

`ParallelLoopProofs` proves `TypeCorrect` (`TypeOK`), `IndicesOnce` (`EachIndexOnce`), `Balanced`
(`BlocksBalanced`), `GetKnows` (`GetIsComplete`) and `WaitsSettle` (`DoneIsHandled`) for every range, number of
blocks and number of threads. The
indices are integers without a width, as in the model: a range wider than its type is left out of it.
The core is arithmetic: `Behind(b, s, r)` is the number of indices in front of block `b`
when the first `r` blocks have one index more than `s`; it grows with `b`, is 0 for block 0 and the size of
the range for the last (`Division`), and `BlocksCover` finds the block of any index by
dividing once on each side of the remainder. The inductive invariant then says that the
tasks are the blocks in their order and that an index has been handed over once exactly when the
task of its block has passed it. For the waits, `PastInv` adds that every future `wait` has gone past is ready and every
one `get` has gone past holds a value, which no worker takes from it again (`WorkerKeepsReady`). When `get` returns results all
futures hold one, and `IndicesOnce` says the rest; when any of the three waits without a limit returns, all tasks have ended, and an index
is either behind the place its task has reached or in front of the one where it threw (`ReadySettles`).

### The ring buffer

`RingBufferProofs` proves `TypeCorrect` (`TypeOK`) and `RingShowsRecent` (`ShowsRecentValues`) for every size
from one on. The remainders are replaced by case distinctions (`Wrap`), since all sums stay below
twice the size. An `add` either leaves the head alone, and the sequence that the getters show is
longer by the value, or moves it, and the sequence is the old one without its first value. Type correctness is
the whole invariant. Two words are the same if their halves are (`ValueAssumption`).

### The block scheduler

`BlockSchedulerProofs` proves `TypeCorrect` (`TypeOK`), `EntriesApart` (`OneWarpPerSlot`) and `EachBlockOnce`
(`GridPlacedOnce`) for a SoC of any size, any quota, any grids and block widths, from the assumptions that the constants of `header.h` are
positive and that the fields of a kernel are unsigned (`KernelsAssumption`): what the
instance shows does not depend on ratios of the hardware. In the invariant (`LoopInv`) every
warp stands at a place the three loops have left, or in a slot below
`blockIndex * Width` on the subcore at hand (`Passed`); the loop variables only grow in their order, also
where a wide block moves the subcore (`LastSubcore` computes the maximum that `PlaceWide`
names). Before a wide block the quota has not been used up and no narrow block is on the subcore.
For the grid, every coordinate has a number (`Number`), x first and z last, and the numbers of the grid are
all those below its volume, each taken once (`NumberInside`, `NumberApart`, `NumberAll`: a remainder and a
quotient, twice). `ctaid.x++` and its carries go to the next number (`NextNumber`); so, in `GridInv`, the number of the
next block is the count of those placed, and the blocks placed have all the numbers below it.

`BlocksWhole` (`WholeBlocks`) and `ReuseWhenFull` (`FullBeforeReuse`) need a ratio of the hardware,
`WidthsAssumption`: the subcores that a block takes divide those of a core. The code has it: `block.h:35` gives a `Block` 32
warps, one or two subcores of 16, and a core has four. Then a wide block that begins at a subcore the loop comes to ends inside the
core. `WholeInv` adds that every warp placed is of a block below `placed`, so that a new block never mixes with the warps of another;
within one block the slots of the subcores are numbered through by a quotient and a remainder (`Split`).
`SpreadInv` counts: with the loops at a place, `placed` is exactly what all the places behind them hold, or what
the quota let them take (`Given`, `Share`), and so at the end either nothing or all that the SoC holds.

### The router

`AddressRouterProofs` proves all four properties of the run `router`, for any number of memories, any
windows, memories and walks: `TypeCorrect`, `PointerServes` (`DmiServesItsAddress`), `DumpsTrue` (`DumpShowsMemory`) and
`MemoryIsFlat` (`OneMemory`). The assumptions (`RouterAssumption`) are what the constants of `test2.cpp` have: the
windows fit into the memories, a window divides a memory (the mask 0xFF, 1024 bytes), and all
of them are words. The arithmetic is `Quotient`: a quotient and a remainder below the divisor are
those of the division. From it follow that decoding an address gives the memory and the place in it (`Decoded`,
`PlaceOfWord`), that two words of the bus never share a place (`WordsApart`), and that the range
composed for a pointer is the window (`RangeOfByte`, `InWindow`), so that both ways lead to the same
word (`DmiPlace`). The invariant `WalkInv` adds that a valid pointer is the one asked for at `last_trans`, and
that the words behind the windows are as the constructor left them.

### The exercises

`ExercisesProofs` proves for inputs of any size, numbers and targets of any value:

| Theorem | States |
|---|---|
| `SortsAreRight` | `Spec => []SortsSort` |
| `PlacesInside` | the indices that the sorts keep from turn to turn stay in their part of the vector |
| `BehindSorted` | the last `i` elements of `bubbleSort` are in their places |
| `AnswersAreRight` | `Spec => []AnswersRight`, from the six that follow |
| `BinaryFinds`, `DuplicatesRight`, `MatrixRight` | `SearchFinds`, `DuplicatesFound`, `MatrixFinds` |
| `ListRight`, `TreeRight`, `SpacesRight` | `ListReversed`, `TreeDeduced`, `SpacesReplaced` |

The only assumption is what the inputs are (`ExercisesAssumption`): vectors and matrices of integers, those of
`findDuplicates` as its comment demands, trees with their traversals. The invariant has a part for each sort:

* `BubbleInv`: the last `i` elements are in their places and not below any other, and the one at `j` is not below those in
  front of it. `SelectInv`: the first `i` are in their places. `InsertInv`: the first `i` are in order.
* `QuickInv`: the calls that are left are parts of the vector from left to right (`LeftToRight`), and two elements are in
  order unless one of these calls holds both (`Orders`). Inside a partition the vector is not a permutation of its
  input, since the key has been lifted out and another element is there twice: `Filled`, the vector with the key put back at
  `low`, is one, and what lies left of `low` and right of `high` is on its side of the key.
* `MergeInv`: of the calls that are left, each is on the left of a later one or inside one half of a merging that waits there (`Nested`);
  an element inside a call and one outside it are in order unless a waiting merging has them in its two halves (`Merges`). So a
  merging whose calls have returned finds both halves in order. `MergingInv`: the part of `dataTemp` that is written
  is in order and not above what is left of the halves; put into the vector, with what is left of the first half behind it, it gives
  a permutation of the input (`Merged`).

That the result is a permutation is carried by bijections: a swap, and an element that goes to a place further left while those between
move up (`Rotated`: the shift of `insertSort`, an element taken from the second half). The recursion of the
code needs no induction over data, because the calls are in the state: the invariant is about all of them at once.

There is one for each of the other exercises:

* `BinaryInv`: in a descending vector the
  target is not outside `left .. right`, and the first turn looks at the middle in any vector.
* `DuplicatesInv`: the element at a place is
  negative exactly when the number of this place has been visited, and its absolute value is the input's, so a turn reads the right
  number from a vector that it has marked; `res` has the numbers that came again, in this order, each once because none is there
  three times (`AgainOnce`).
* `MatrixInv`: in a matrix with ascending rows and columns the target is neither in a row above
  `index_m` nor in a column behind `index_n`.
* `ListInv`: `pre` is how far the list is reversed, and the links behind it are as `main` made them (`Reversed`); what is printed is the
  list from its end down to `cur`.
* `TreeInv`: a call that is left has the preorder of its subtree, and an inorder that begins with that of its subtree
  (`CallRight`); every node is in the tree already or in the subtree of such a call. A call hands on that much to its two:
  the root is first in its preorder (`RootFirst`), what stands before it in the inorder is its left side
  (`InorderCut`), and the preorder then has the left side first, in as many places as it has nodes: a bijection between the
  two, and the cardinality of an interval (`PreorderCut`). The node too many at the end of the inorder of a left
  side is not in the subtree, and is never the root of a call.
* `SpacesInv`: `j` is the place to which the character at `i` goes (`Moved`, which counts the spaces in front of it), what lies
  behind is written, and what lies in front of it is still the input. When `i` meets `j` no space is left, and the rest is in its place.

### The lessons

`LessonsProofs` proves for any number of threads with at most two to a resource, vectors of any length, any inputs below `INT_MAX` and any
`INT_MAX` from 5 on (what `signal.cpp` writes):

| Theorem | States |
|---|---|
| `TurnsTaken` | `Spec => []TurnTaking` |
| `ProductIsPut` | `Spec => []OutputIsProduct` |
| `TypeCorrect` | `Spec => []TypeOK` |

*Locks.* A thread is `Behind` if it must get a resource in this very second. `TurnTaking` is not inductive: nothing in it says why a thread that releases
and tries again cannot get ahead of one that is behind. `LockInv` says it: as long as
somebody is behind, as many threads as there are resources release or have released in this second (`Releasing`), and none of them can try again
before the next delta cycle. When the evaluation phase ends (`NoneBehind`), a thread that is still behind would be blocked with no resource
free, so all resources have holders; with those that have released and the thread itself these are one thread more than
two to a resource. That is where the assumption is needed, and why the order in which the threads run does not matter.

*The dot product.* `MultiplyInv` is a walk through the 10 ns: in each of the six phases it says what every process waits for and what
the signals hold. In the first delta cycle all four processes run in any order, but what they write is not read before the next; then the rising clock wakes
`compute_vector_mul` alone, after the inputs and the reset (`Rises`); from the falling reset on the output is 0, and neither
the rising reset nor the falling clock wakes the method again. What remains is arithmetic: an `int` is its number up
to a multiple of what an `int` can hold (`ToIntIs`, `ToIntOf`), so a sum may be cut in every turn or once (`CutTwice`, `SumCutOnce`).

*Induction over data.* `Temp` and `Total` are recursive functions. The library's induction is out of reach of the installed provers, as its theorems have an
operator as a parameter; a least counterexample is not: `Least` finds the least element of a set of
naturals from the well-founded order of the library (`WFMin`), and the set is that of the indices up to which no such sum exists (`SumExists`), or at which the
two sums differ (`SumCutOnce`). Both are shown to be empty.

*Types.* `Types` needs the domains of the signals and that a clock is 0 or 1; that no notification is pending for a time that
has passed (`TimeTyped`) rests on `MinIs`: the time goes on to the least of all that is pending. The upper bound of a semaphore comes from `LockInv`.

### Only model-checked

* Every liveness property: that of `Doorbell`, `QueueDrains`, `WaitReturns`, `ThreadsStop`, `CallReturns`,
  `ExercisesEnd` (fairness and ENABLED are outside the prover).
* `StartsIdleQueue`. It is not true for every `IbSize`, but depends on the time that five
  words take (`main.cpp`, `ib_size` 5) against an update every 3 ns: with six queues TLC finds it to hold for sizes up to 6 and for 8, and
  violated for 7, 9, 10 and 12. For one size a proof would be the enumeration that TLC makes.
* `SameInEveryOrder`: `event.cpp`, `eventqueue.cpp`, `init.cpp`, `signal.cpp` and `sc_cthread.cpp` are finite programs without a
  number that a proof could be about; TLC sees all of their behaviours, and a proof would list them again.

## 6. Where the code differs from what it says

1. `cp.cpp:73` records a sync with `&`: the mask stays 0 (theorem `NeverResumed`). One character
   away, `|`, resumes queues with a message whose address is 0, and a queue that is not paused then
   throws in `getIbufPtr`: fixing the mask alone is not enough. As the code stands no
   queue is ever resumed: the branch of `CpIndirectBuffer` for a paused queue and the
   loop of `CPQueueManage` are modelled and never taken.
2. `cp.cpp:90` frees a queue with `& (1<<queue_id)` instead of its complement, and is not reached in
   the program: the report that follows the release overwrites the registers before
   the command processor runs (`cp_release`). So 33 updates of the write pointer end
   in `socket_cp2queue[-1]`; the 15 ns of `main.cpp` end before.
3. A queue started after any report carries the stale `queue_sync` = 1 and stops after its
   first command, at an offset that is not 0; the model has it, and `logs.txt` shows it from 9 ns on.
   In the same function `mes.queue_status` is assigned twice, the second time
   `queue_sync` (`cp.cpp:40`).
4. `thread_pool::reset` gives `paused` back without a notification; tasks that waited in
   the queue are not executed until something else notifies, and the destructor hangs
   (`pool_reset`).
5. The loops of the pool capture the user's function with `std::forward` in every turn
   (`BS_thread_pool.hpp:487`, `513`, `536`, `664`, `695`, `726`): a temporary is gone after the first
   block (`loops_temporary`). The calls in `test.cpp` pass a named function and are not
   affected.
6. `wait_for` and `wait_until` of a `multi_future` return true "if all futures have been waited for before
   the duration expired" (`BS_thread_pool.hpp:249`, `270`). The code compares the time with the limit after each wait, by `<` (lines 258
   and 279), and not what the wait returned: when the clock reads the limit itself, a future that is not ready is gone past, and the
   call may return true over it. It takes a clock that stands still between the end of the wait and the next reading. `ParallelLoop` has this
   tick (`clock = "at"`): on the instance of `loops` the invariant `result = "done" => \A k \in DOMAIN tasks : Ready(k)` is violated.
   `DoneIsHandled` is about the waits without a limit and claims nothing here.
7. `wait` "only waits for the currently running tasks" in a paused pool, "otherwise it would wait forever"
   (`BS_thread_pool.hpp:757`). `purge` and `pause` make the condition of a blocked `wait` true without a
   notification, and the one flag `waiting` is cleared by any wait that returns or
   times out: with a second client `wait` may wait forever with nothing left to wait for. In `ThreadPool` with two clients, one worker and
   one task TLC refutes `<>[]AllDone => \A c \in Clients : []<>~(In(c, "wait_blocked") /\ client[c].goal = "wait")`: the wait of the second client returns
   and clears the flag, and nobody wakes the first. With one client this cannot happen, and `WaitReturns` holds; it says nothing of more clients.
8. "Release the memory of the nodes of the list", says the comment at `list.cpp:64`. The loop starts from the old head, which is the
   last node of the reversed list, and releases it alone; all the others leak: for two nodes or more the model has `deleted = <<1>>` at the end. `ListReversed` claims only that
   the list is printed from back to front and no node is released twice.

Seen in the models, where no text of the repository says otherwise:

* `block_scheduler.h:170` runs the warps of a block that spans two subcores with numbers
  that start at 0 on each: two warps do the same work and the last ones of the
  block are never run. Line 169, for the flags, has the number it should be. For the second
  block on one subcore the confusion is the other way round: line 130 passes the number in the
  block, which `do_run` also takes for the entry of the subcore, so it runs on the entries
  of the first block.
* The life time of the `Block`s and the flag that is never reset (section 2) make every
  call but the first, and every grid larger than the SoC, end in undefined behaviour
  or in a loop that never ends.
* The first dump of `test2.cpp` (256 bytes from 128) leaves the window of memory 0 but not the
  memory: at the addresses 256 to 383 it prints words of memory 0 that no access reaches,
  and the second dump prints others, those of memory 1, at the same addresses.
* `binarySearch` (`bubbleSort.cpp:124`) goes on in the wrong half for ascending vectors: it finds
  everything in descending ones, and in the others the middle for certain, which is what its `main` looks for.
* `insertSort` reads `datas[-1]` before it tests the index (`bubbleSort.cpp:47`). `mergeSort` is called
  stable (line 85), but of equal elements takes that of the second half (line 95), which cannot be
  seen of integers.
* The `int` of `Multiply.cpp:35` cuts the product of 64 bits.
* `searchMatrix` throws for a matrix without rows (`vectors.cpp:37`).

The comment of `ajqueue.cpp:91` gives bits 14-23 for the body length; the mask takes bits
6-19. The model follows the mask.

## 7. What is not modelled

* `IndirectBuffer` and the pool utilities: an owning array that nothing instantiates, a mutex around a
  stream, a promise, a clock. `TestBS/test.cpp` is one client of the pool that prints what it
  does; the client of `ThreadPool` makes its calls in every order.
* In the pool: priorities, the check for a wait inside a task, `this_thread`, and the
  queries (`get_tasks_*`, `ready_count`, `valid`), which change nothing.
* In the TLM programs: the time of an access, and the callbacks `invalidate_direct_mem_ptr`, which
  `test2.cpp` never calls.
* In the block scheduler: what a warp does, the initialisation of the memories, and the
  body of the reuse loop.
* The lessons `HelloWorld`, `HelloWorld2`, `Test_sc_module`, `bingfa`, `process`, `processMethod`, `sc_method`,
  `sc_spawn`, `sc_thread`, `port_bond`, `InitAndTarget` and `time`: each prints a line once or at fixed times and has no
  state that two processes share.
* `everydaycode.cpp`, a stub that returns 0, and the functions of `lc/` that only print.
* Assembly listings, scripts, traces, editor settings, documents: no logic of the
  program.

## 8. The plan

In order, the behaviour of the system that matters most first:

1. *Done.* `CommandProcessor`, `RingBuffer`, `ThreadPool`, `ParallelLoop`, `BlockScheduler`, `AddressRouter`, `Exercises` and `Lessons`
   with their proofs; the refinements of `Doorbell`, `RecentWindow`, `TaskPool` and `FlatMemory`.
2. `CommandProcessorProofs`: a bound on `IbSize`, in the period of the host, under which `StartsIdleQueue` can be stated for any number of queues.
3. The pool utilities, if a part of the program comes to rest on them.
