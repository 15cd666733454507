# quick-cmake in TLA+

`src/include/skutils` is a header-only C++ utility library: a thread pool,
coroutine tasks with `when_all` and `sync_await`, an event loop, an event bus, a
process executor, io_uring awaiters, containers, an argument parser, formatting
and logging; `src/src` holds four programs that use it. These modules model them.
The core are small classes with two or three threads and one condition variable,
and what can go wrong in them takes a particular interleaving that no unit test
will meet; each has a run of its own. Around it stand containers, utilities,
programs and examples, which are checked one beside the other.

## Contents

1. Inventory of the system
2. Modules and how they correspond to the code
3. Runs, bounds and what they show
4. Fairness
5. Proofs
6. Disagreements between the code and what is said of it
7. Known limits of the code that no property covers
8. Abstractions, and what is not modelled
9. Plan

## 1. Inventory

### Thread pool (`threadpool.h`)

State: `isRunning_` (atomic), `workQueue_` (a deque with a mutex of its own),
`mtx_` and `cv_` for sleeping, the worker threads; for each submitted task the
shared state of its future. Operations: `submit()` pushes and then calls
`notify_one()`, without `mtx_`; `doWork()` tests `isRunning_`, locks `mtx_`, tests
the queue, waits without a predicate, pops, unlocks and runs the task;
`shutdown()` clears `isRunning_`, notifies all, again without `mtx_`, and joins.
Hard: notifications that fall between a test and a wait; tasks left in the
queue at destruction. Correct if: no task is lost or run twice, queued work is
eventually taken, every future is resolved when the pool is gone, and the
destructor returns.

### Coroutines: `Task`, `when_all`, `sync_await` (`coroutine/task.h`, `sync_await.h`)

A `Task` is lazy; whoever awaits it stores itself as its continuation and
transfers control to it; its final suspension transfers back. `when_all` keeps,
on the heap, a count `remaining`, the results, the first exception and an atomic
continuation. It launches a wrapper per task; a wrapper ends by
`fetch_sub`, and the last one loads the continuation and, if it is there, resumes
it from a detached thread. `sync_await` runs a waiter coroutine on the calling
thread and blocks on a `SyncEvent` (mutex, flag, condition variable).
Hard: children that complete on other threads between two statements of the
awaiter; exceptions; frames destroyed while they run. Correct if: the parent is
resumed exactly once, after all children, with all values or an error; one point
of control at a time; the blocked thread is woken.

### Event loop (`coroutine/event_loop.h`)

State: a queue under `mtx_`, `cv_`, a plain `running_`. `post()` pushes and
notifies; `run()` sets `running_`, waits for a task or a stop, swaps the queue
into a batch and executes it; `stop()` clears `running_` under the mutex and
notifies. Tasks call `post()` and `stop()` from inside the loop.
Correct if: tasks run once, in order; no wakeup is lost; `stop()` ends `run()`.

### Event bus (`event_manager.h`)

Four worker threads on a `TaskQueue` (mutex, condition variable with a predicate,
`stopped`), one timer thread on a priority queue of delayed events (`timerMutex_`,
`timerCv_`), `stop_` (atomic), and the handler lists: a map from event type to a
vector of callbacks under `mapMutex_`. `Publish()` looks the list up under the
mutex and iterates over it without; `PublishAsync()` pushes to the task queue;
`PublishDelayed()` pushes to the timers; `Stop()` stops the queue, joins the
workers, notifies the timer thread without its mutex and joins it.
Correct if: an accepted event is published once, a delayed one not before its
time and not never; `Stop()` drains the queue and returns; a publication calls
the handlers there were, in order.

### Process executor (`process_executor.h`)

State: two pipes, what was read of each, the child, the clock.
`ExecuteCommandPosix()` makes two pipes, forks a shell, polls both pipes and reads
from them until both are hung up or the time is over, kills the child in that
case, and otherwise waits for it. `ExecuteCommandWindows()` reads one pipe to its
end, then the other, and only then waits for the child with the timeout. Both face
a child process that does what it likes. Hard: output larger than a pipe, hangups,
calls that fail half-way. Correct if: no output is lost; the child is never blocked
for good; descriptors and the exit code are right on every path; the timeout is
kept.

### io_uring awaiters (`coroutine/io_uring_async.h`)

State: a ring of entries that go round, each with the user data of its last use;
for every suspended operation a callback on the heap; a polling thread; `running`.
An awaiter takes an entry, sets its user data to the callback and submits; if there
is no entry it resumes its coroutine at once, with an error. `start()` runs the
polling thread, which waits for completions and calls back; `stop()` submits a NOP to
wake it and joins; `poll_completions()` does the same from the main thread.
Hard: coroutines go on on the polling thread, where they submit to the same ring.
Correct if: a suspended operation is in one place and is resumed once; a callback is
alive when it is called; `stop()` returns.

### Generator (`coroutine/generator.h`)

A frame with a handle that is moved between owners; `begin()` and `++` resume it,
`end()` compares. Correct if: a frame is destroyed once, and not while it is looped
over by another; each value is seen once, and an exception reaches the loop.

### Containers (`containers/*.h`, `spinlock.h`)

`Heap` (binary heap over a vector), `UnionFindSet<int>` (path compression) and
`UnionFindSet<T>` (a map), built from a `Graph`; `SkipList`; `topk_queue` and
`topbottomk_queue`, bounded priority queues under a spin lock, to which `ducpp`
pushes from a thread pool; linked lists and binary trees (`lc.h`). Sequential but
for the bounded queues. Correct if they agree with the sets, bags, partitions,
graphs, sequences and maps they stand for.

### Utilities

`ArgParser` (a map of declared arguments, filled by one pass over the command
line), `split()` and the path functions, `format()` and `toString()`, the stack
printer, random numbers and the file reader are functions or small loops; what can go
wrong is a boundary, a remainder, or an order of calls. Logging and assertions share
a global spin lock and two counters, and are used from several threads.

### Programs (`src/src`) and examples

`ducpp` sums up or ranks file sizes with a pool and a bounded queue, while the
files may change. `moderntools` looks up and downloads releases, each phase for
all tools at once, with `net_tools.h`. `combine_files` writes the lines of many files to
one. `stdtalker` has more talkers than pool threads and stops at SIGINT. Of the
examples those are modelled that run the library's coroutines or threads: the task
chain and callback-hell demos, the io_uring demo (as the program of `IoUring`), the
asio echo, the image demo in its three versions, and the drawing pad.

### How the parts interact

The programs `ducpp`, `moderntools` and `stdtalker` put their work on a `ThreadPool`
or on `std::async`, and collect it in a `topbottomk_queue`, in futures or not at all:
`Ducpp` has the workers, the pushes and the comparisons inside a push as steps.
`Task` is the common currency of the coroutine headers: `sync_await` and `EventLoop`
drive tasks, `when_all` composes them, the io_uring awaiters complete them from the
polling thread. That thread is why `when_all` and `SyncAwait` let a child go on "on
its own thread". `EventBus` is self-contained: its workers call `Publish()`, whose
iteration is the module `Subscriptions`. `ExecuteCommand()` chooses its program by the
platform, and interacts with the operating system only (`ChildProcess`).

## 2. Modules

| module | code | what it is |
| --- | --- | --- |
| `TaskPool` | `threadpool.h` | what a pool promises: FIFO start, at most `Width` at a time, a future per task, tasks discarded only by the destructor |
| `ThreadPool` | `threadpool.h` | the pool, statement by statement; implements `TaskPool` |
| `ThreadPoolProofs` | | the theorems about it, and that it implements `TaskPool` |
| `Gather` | `task.h` | what `when_all` promises: all children, then one verdict |
| `WhenAll` | `task.h` | the shared state, the wrappers, the awaiter, the resuming thread; implements `Gather` |
| `WhenAllProofs` | | the theorems about it, and that it implements `Gather` |
| `SyncAwait` | `sync_await.h`, `task.h` | a thread that waits for a chain of tasks |
| `EventLoop` | `event_loop.h` | the loop thread, posters, tasks that post and stop |
| `CoroutineProofs` | | the theorems about `SyncAwait`, for a chain of any depth, about `EventLoop`, and about the examples `TaskChain`, `Images`, `AsioEcho` and `DrawingPad` |
| `EventBus` | `event_manager.h` | workers, timer thread, publishers, `Stop()` |
| `EventBusProofs` | | the theorems about it |
| `ChildProcess` | external | a child process and two pipes, as hostile as the executors have to stand |
| `PosixExecutor` | `process_executor.h` | `ExecuteCommandPosix()` over `ChildProcess` |
| `WindowsExecutor` | `process_executor.h` | `ExecuteCommandWindows()` over `ChildProcess` |
| `ProcessExecutor` | `process_executor.h` | `ExecuteCommand()`: one of the two, by the platform |
| `ProcessExecutorProofs` | | the theorems about both |
| `IoUring` | `io_uring_async.h` | the ring, the callbacks, the awaiters, the polling thread, `stop()`, over a kernel |
| `IoUringProofs` | | the theorems about it, for any coroutines and any ring |
| `MCIoUring` | `demo_coro_io_uring.cpp` | two coroutines of the demo as the operations they await |
| `Subscriptions` | `event_manager.h` | `Subscribe()` against the iteration of `Publish()` |
| `Generator` | `generator.h` | frames, owners and one loop |
| `Heap`, `SkipList`, `UnionFind`, `Graph`, `TopKQueue`, `Lists`, `Trees` | `containers/*.h` | the containers |
| `Strings`, `Formatter`, `StackPrinter`, `ArgParser` | `string_utils.h`, `printer.h`, `stack_printer.h`, `argparser.h` | texts that are taken apart and put together |
| `RandomUtil`, `FileReader` | `random.h`, `file.h` | what is drawn, and what is read |
| `Logger` | `logger.h`, `test.h`, `printer.h`, `spinlock.h`, `config.h` | who writes under the global lock, and the counters of the assertions |
| `Ducpp`, `Downloader` | `ducpp.cpp`, `moderntools.cpp`, `net_tools.h`, `topk_queue.h` | the larger programs |
| `Tools` | `stdtalker.cpp`, `combine_files.cpp` | the two small programs, one beside the other |
| `TaskChain`, `Images`, `AsioEcho`, `DrawingPad` | `example/coro`, `example/opencv` | examples |
| `Toolbox` | | the modules from `Subscriptions` on, one at a time, for one run |
| `MCToolbox` | | their inputs |
| `ContainerProofs` | | the theorems about `TopKQueue`, `UnionFind`, `Graph`, `Heap`, `SkipList` and `Lists` |
| `ToolboxProofs` | | the theorems about `Generator`, `Subscriptions`, `Logger`, `Downloader`, `Tools`, `Ducpp` and `ArgParser` |

What is atomic. A critical section that holds one mutex from beginning to end,
and touches nothing that is accessed without it, is one step; this is the case of
`WorkQueue`, of `TaskQueue`, of the timer mutex, of `EventLoop::mtx_`, of
`SyncEvent::mtx` and of the spin locks. `ThreadPool::mtx_` is not of that kind,
since `submit()` and `shutdown()` do not take it: it is a variable, and
`Lock`, `CheckEmpty`, `Wait`, `Relock`, `Pop`, `Unlock` are steps. A notification is
a step of its own wherever the code makes it outside the mutex, which is
everywhere. Condition variables may wake spuriously.

`Toolbox` is no composition in the sense of an interaction. Its components share
no state; `which` chooses one of them at the start of a behaviour, the others keep
their initial state, of which the properties hold as well. They are together only
because what TLC has to do for each is little. Since the others stutter, a behaviour of
`Toolbox` is one of each component's own specification, and these are what the theorems
are about: `HeapSpec`, `SkipSpec`, `ListSpec`, `UnionSpec`, `GraphSpec` and `TopSpec` of the
containers; `GenSpec`, `SubSpec`, `LogSpec`, `ArgSpec`; `DuSpec`, `DownSpec`, `TalkSpec` and
`CombineSpec` of the programs; `ChainSpec`, `ImagesSpec`, `EchoSpec` and `PadSpec` of the
examples. The components without a theorem (texts, trees) have no specification of their
own, and their properties are guarded by `which`.

State, by module. Variables have the names of the members they stand for
(`isRunning`, `workQueue`, `mtx`; `remaining`, `continuation`; `queue`, `stopped`,
`timerQueue`, `stop_`; `closed` for `stdoutClosed` and `stderrClosed`), control
points are in `pc`, `wpc`, `tpc`, `loop`, `main`, `body`, `wrapper` and in variables
named after the component (`graphAt`, `listAt`, `readerAt`), and variables marked "history" exist for the properties only. Every action names in its comment
the statement it is; `PROJECT.json` ("map") has the lines.

Each module also has a few definitions named `Bug_...`: mistakes one could have made
in the definition they resemble (a lost guard, a notification in the wrong
place, an off-by-one). No action uses them. For every property of every run that
passes `PROJECT.json` names at least one that makes TLC refute the property when it
takes the place of the original; for a property of `Toolbox`, one for each component
that it is about.

## 3. Runs

| run | instance | states | what it checks |
| --- | --- | --- | --- |
| `ThreadPool` | 2 workers, 2 clients, 2 tasks | 54 000 | `TypeOK`, `Conservation`, `DestroyedMeansResolved`, `LateTasks`, `SomeoneAwake`; the pool implements `TaskPool`; `QueueDrains`; `ShutdownPastCheck` |
| `ThreadPoolDestructor` | 2 workers | violation | `DestructorReturns`: the destructor may never return |
| `WhenAll` | 3 children, all may suspend | 9 300 | `WhenAllInv`; `when_all` implements `Gather`; `CompletesUnlessBetween` |
| `WhenAllLost` | 2 children, 1 may suspend | violation | `WhenAllCompletes`: a completion between `await_ready()` and `await_suspend()` is lost |
| `WhenAllFrame` | the same | violation | `FrameSafe`: a wrapper's frame may be destroyed before the wrapper is over |
| `SyncAwait` | a chain of 4 tasks | 800 | `AwaitInv`, `ValueReturns` |
| `SyncAwaitThrow` | 1 task | violation | `FinishedReturns`: a task that throws leaves `sync_await` blocked |
| `EventLoop` | 2 posters, 3 tasks, 2 runs | 5 300 | `LoopInv`, `StopEndsRun`, `PostedRuns` |
| `EventBus` | 2 workers, 2 publishers, 2 events | 77 000 | `BusInv`, `AcceptedIsDelivered`, `DelayedFires`, `StopReturnsPastWait` |
| `ProcessExecutor` | both platforms, 2 different bytes a stream, pipes of 2, reads of 1 | 515 000 | `OutputInv`, `ResultInv`, `NeverBlocksChild`, `ReturnsAfterChild`, `TimeoutEndsReading` |
| `IoUring` | 2 coroutines with up to 4 operations, a ring of 2 | 308 000 | `UringInv`, `WaitingIsResumed`, `StopReturns` |
| `Toolbox` | see below | 539 000 | `OrderCorrect`, `UnionCorrect`, `TopCorrect`, `TextCorrect`, `GeneratorCorrect`, `CallsInv`, `ArgParserCorrect`, `LoggerCorrect`, `DucppCorrect`, `DownloaderCorrect`, `ToolsCorrect`, `ExamplesCorrect` |

An invariant whose name ends in `Inv` or `Correct` is the conjunction of the module's
`TypeOK` and of named parts that are read together:

- `WhenAllInv`: `CountExact` (the count is what the wrappers have not yet
  subtracted), `OneLast`, `ValuesComplete`, `ResumedOnce`, `InlineFrameSafe`;
- `AwaitInv`: `OnePoint` (one point of control), `Chained`, `NoLostWakeup`,
  `ReturnsTheResult`;
- `BusInv`: `OnePlace`, `NoLostWakeup`, `DrainedBeforeExit`, `NeverEarly`;
- `LoopInv`: `InOrder`, `BatchCompleted`, `NoPostMissed`, `EndsByStop` (`run()` returns after a
  `stop()` only);
- `OutputInv`: `NothingLost`, `ClosedMeansDrained`; `ResultInv`: `NoDescriptorLeak`,
  `ExitCodeOfChild`, `AtMostASecondEarly`, `AllOutputBeforeWait`;
- `UringInv`: `OnePlace` (a suspended operation is in the queue, in the kernel or
  completed, once), `CallbacksAlive`, `Bounded`, `SerialUseIsSafe`, `OneConsumer` (who takes a
  completion twice), `StaleNeedsWraparound`;
- `OrderCorrect` (defined in `Lists`): heap, skip list and lists; `UnionCorrect`: union-find
  and graph; `TextCorrect`: strings, formatter, stack printer, file reader, random
  numbers and trees; `ToolsCorrect`: `stdtalker` and `combine_files`; `ExamplesCorrect` (defined
  in `DrawingPad`): the four examples; the others are about the component they are named after, and
  `CallsInv` is `CallsAPrefix` and `CallsAll` of `Subscriptions`.

Why the bounds are enough.

- Two workers are the least for which a wakeup can be taken by the wrong one and
  for which one can sleep while the other is between its test and its wait. Two
  clients and two tasks let a second `submit()` overtake the notification of the
  first. The theorems hold for any number.
- Three children of `when_all` let one be counted while another is in the catch
  and a third not yet launched; whether a child suspends is a choice of each.
- Four chained tasks have two in the middle, with a waiter above and an innermost
  one below; a chain differs from a longer one by its length only.
- Three tasks over two runs let a batch be executed, another swapped out behind
  it and a third posted after `stop()`, to be found by the second run.
- In the event bus two delays and a clock up to 2 let a nearer timer arrive while
  the timer thread waits for a farther one, and `Stop()` come before either.
  `MaxTime` bounds the clock: no event is published whose time lies beyond it.
- Three handlers make the vector grow twice (1, 2, 4), so that a publication can
  meet both an insertion with room and one that moves the buffer.
- Output as large as a pipe and larger than a read makes the child block and the
  parent read a stream in several rounds, on both streams at once; `Second` = 2
  ticks lets `time(NULL)` lag; the timeout is none, zero, or one second. `MaxTime`
  lies where `time(NULL)` has reached any end that is waited for. A child writes a beginning of
  `Texts`, whose bytes all differ, so that the run sees their order. Calls of
  `pipe()`, `fork()`, `poll()`, `read()` and their counterparts may fail at any time.
- A ring of two entries is full when both coroutines have an operation in it, and
  has gone round when the third is submitted. The copy of the demo has a path of four
  operations and one of three, the read has one. One submission may be refused by
  the kernel, and the context is started and stopped once. `poll_completions()` may be called
  whenever there is a completion, with the polling thread or without.
- In `Toolbox`, containers go beyond one level of nesting: heaps of five (three
  levels), trees of four nodes, lists of five, paths of length three, three keys on three
  levels, equal values; graphs of up to three nodes. Queues of two meet four pushes
  by two threads.
- Texts of three characters over five have every order of letters, blanks, slashes
  and dots, and delimiters of which one begins another; templates of four hold two
  holes or their fragments; command lines of three items have each option before and
  behind its value. Files of three characters have an empty line, a line without a
  line feed, and nothing.
- The generator of `RandomUtil` draws from 0 to 3 where the code's goes to 10 000;
  the bounds between -2 and 4 are narrower and wider than that, and in either order.
- Two writers and three calls let a verdict fall between the counters and the
  output of an assertion. Three files in two directories, two workers, lists of up to
  one and one change let a file change in the middle of a comparison; `MaxChanges` counts what
  happens to files and the accesses that fail, and one of the files may be a fifo (`Fifos`). Two
  repositories share one name, and one of them, which is in the default set, can be registered
  again, so that two downloads meet in one file, in two blocks; a second name is nobody's.
  `MaxNew` bounds the repositories among the arguments. Three talkers on two threads leave one waiting.
- Three files and a buffer of three lines, with the output among the inputs or not,
  let a buffer be flushed inside, at and behind the end of a file; `MaxFile` ends a file
  that would grow for ever.
- Four images on up to three threads divide evenly and not, with threads left
  over; `MaxLate` bounds by how much a timer of `TaskChain` is late in all. Messages
  of three bytes come in up to three pieces. Two shapes on two points, curves of two
  points: an animation may be one shape behind the canvas.

`CHECK_DEADLOCK FALSE` stands in every configuration because every system here
may come to rest: a pool with nothing to do, a bus that was stopped, a bound
that was reached.

## 4. Fairness

Weak fairness stands on the steps of a thread inside a call or a loop of the
library: the scheduler runs every thread. Nothing is assumed of the callers (nobody
has to submit, publish, post, stop, get or destroy), of spurious wakeups, or of the
child process. Tasks, handlers and callbacks return: otherwise nothing could be said
of what comes after them, and the library offers no way to abandon one.
Beyond that: an event for which a coroutine is suspended arrives
(`SyncAwait!Deliver`, `WhenAll!WrapperStep`), time passes (`Tick`), the kernel
completes what it took from the ring (`IoUring!Complete`; a file operation ends), and
in `PosixExecutor` there is strong fairness on `Poll`, because a signal may interrupt
`poll()` (`EINTR`, the code retries) again and again, but not for ever. In
`ProcessExecutor` the fairness is that of the platform that was chosen. In `IoUring` the
main thread is fair inside its calls, the polling thread always; that the kernel takes
what is submitted is not assumed, and the properties say so. `Toolbox` has safety
properties only, and no fairness. No strong
fairness stands on a mutex; none of the liveness properties needs it. In
`ThreadPool` a blocked `Lock` is disabled, and with two workers that both want the
mutex, one being for ever unlucky would not violate `QueueDrains`, since the other
one pops.

## 5. Proofs

TLC checks an instance; the theorems hold for every value of the constants. For each of
the modules below the proof is that of an inductive invariant, `IInv` (`LoopIInv` for the
event loop; one for each component in `ContainerProofs` and `ToolboxProofs`, and for each
example): it holds initially, every action preserves it, and it implies the
property, which TLC had found to hold on the instance of section 3.

| module | theorem | property | for all |
| --- | --- | --- | --- |
| `ThreadPoolProofs` | `TypeCorrect` | `TypeOK` | workers, clients, tasks |
| | `NoTaskLost` | `Conservation` | |
| | `DestructorResolves` | `DestroyedMeansResolved` | |
| | `AtMostOneLateTask` | `LateTasks` | |
| | `NobodySleepsThroughWork` | `SomeoneAwake` | |
| | `RefinesTaskPool` | `ImplementsTaskPool` | |
| `WhenAllProofs` | `WhenAllCorrect` | `WhenAllInv` | numbers of children, and which suspend |
| | `RefinesGather` | `ImplementsGather` | |
| `CoroutineProofs` | `AwaitCorrect` | `AwaitInv` | depths of the chain |
| | `LoopCorrect` | `LoopInv` | tasks, posters, calls of `run()` |
| | `ChainInOrder`, `ImagesAgree`, `EchoServes`, `PadShowsShapes`, `ExamplesHold` | `ExamplesCorrect` | how late timers are, images, threads, lengths of the message, points, shapes and curves |
| `EventBusProofs` | `BusCorrect` | `BusInv` | workers, publishers, events, delays |
| `ProcessExecutorProofs` | `OutputCaptured` | `OutputInv` | outputs, pipes, buffers, timeouts |
| | `ResultCorrect` | `ResultInv` | |
| `IoUringProofs` | `UringCorrect` | `UringInv` | coroutines, programs, sizes of the ring |
| `ContainerProofs` | `QueuesKeepTheBest` | `TopCorrect` | values, capacities, pushes and pops |
| | `SetsHaveComponents` | `UnionCorrect` | sizes of sets and of graphs, weights |
| | `HeapsKeepOrder`, `SkipListIsAMap`, `ListsAreTurned`, `OrderHolds` | `OrderCorrect` | values and sizes of the heap, keys, values and levels of the skip list, lengths |
| `ToolboxProofs` | `GeneratorSafe` | `GeneratorCorrect` | frames, owners, numbers of values |
| | `SubscriptionsCorrect` | `CallsInv` | threads, handlers, publications |
| | `TerminalCorrect` | `LoggerCorrect` | writers |
| | `DownloadsCorrect` | `DownloaderCorrect` | repositories, links, names, blocks |
| | `TalkersStop`, `CombinesInOrder`, `ToolsHold` | `ToolsCorrect` | talkers, threads, files, lines, buffers |
| | `DucppHolds` | `DucppCorrect` | directories, files, sizes, workers, options, changes |
| | `ArgumentsOnce` | `ArgParserCorrect` | command lines |

The bounds that end a run (`MaxTime`, `MaxMessages`, `MaxFile`, `MaxStarts` and their
like) are constants as well, so that the theorems hold whatever they are.

### What is assumed

The assumptions are on constants, named, stated where the constant is declared, and
evaluated by TLC on every run: that a number is one (`N`, `Depth`, `MaxTime`, sizes that
are not zero), that a placeholder is not a real element (`NoTask`, `Free`, `NoEvent`,
`Nop`), that a set is finite (`Workers`, `Writers`, `DuFiles`, `TopValues`), and beyond that:

- `EventBus`: there is a worker (the code makes four), and delays are not negative.
- `PosixExecutor`: a buffer holds a byte, and the bound on the clock leaves a second
  after every timeout. `OutputCaptured`, and the last part of `ResultInv` in
  `ResultCorrect`, have the hypothesis that the child writes no zero byte, as the
  properties themselves do not hold of one that does (section 7).
- `IoUring`: an operation of a coroutine is followed by a later one or by its end.
- Examples: the message of the echo has a byte, and the window of the drawing pad a point.
- `Downloader`: each repository has a name, the default tools are repositories, and the file of `-o` is none of those that
  links are saved under. `Tools`: each file has a number of lines. `Ducpp`: no entry of the
  directory is the main thread, and no size stands for a file that is gone or has none.
- Containers: elements of the heap and of the bounded queues are integers, so that the order
  of the code is total on them; keys of the skip list are positive, which sets them apart
  from its head; a bounded queue holds at least one element (section 7), and a skip list
  has at least one level and one value to store; 0 is no weight of an edge, as it is the
  matrix's `dummyValue`.

Nothing is assumed of fairness: every theorem is about safety.

### The invariants, and why they are needed

- `ThreadPool`. `MutexInv`: a worker holds `mtx_` exactly between `Lock` and `Unlock`,
  but for the wait; without it nothing says that only one worker is between its test of the
  queue and its wait, which is what `SomeoneAwake` rests on. `TaskPlaceInv`: a worker has
  a task in hand only between `Pop` and the end of `Run`. `LateInv`: it took a late task
  only if it has not been through the test of `isRunning_` since. `OwnerInv`: what is
  true at each point of the destructor. `SomeoneAwake` is inductive for this reason: when
  `notify_one()` finds a queue that is not empty and no one asleep, at most one worker is
  past its test, because it holds the mutex, and another one, of which there is at least
  one, is still before it. The refinement maps every step to one of `TaskPool` or to a
  stutter; the bound on how many tasks run at once is that each has a worker of its own.
- `WhenAll`. `LaunchInv`: wrappers before `next` were resumed, those after it were not.
  `StoredInv`: what a child has left once its wrapper is past the try block. `LastInv`:
  only one wrapper subtracts to zero, and finds all others subtracted; this is what
  makes `ResumedOnce` a consequence of `CountExact`. `ResumeInv`: the continuation is stored
  by a body that suspends, and read by one thread. `VerdictInv`: the verdict is what the
  outcomes call for, which is what `Gather` asks.
- `SyncAwait`. `ShapeInv`: everything outside the point of control awaits, everything inside
  has ended or not begun. `AwaitInv` says as much only where a thread runs the chain, and
  is lost at the first suspension; `RegisteredInv`, `ThreadInv` and `ResumedInv` say who
  resumes whom, `EventInv` follows the value from the first task to the return.
- `EventLoop`. `BatchHeld`: the batch is not empty while a task runs, since it is popped
  after the call. `EndsByStop` is inductive: `running_` is set only where `run()` begins. What an append and a move between two adjacent sequences do to their
  concatenation are the lemmas `AppendLast` and `MoveHead`.
- `EventBus`. `HandsInv`: which thread has an event in its hands. `StopInv`: how far
  `Stop()` has come when the queue is stopped, so that a worker that leaves leaves nothing.
  `DueInv`: what was not delayed has no time to wait for.
- Executors. `HangupInv`: what the last `poll()` said of a stream that was hung up is still
  true, since the child cannot open it again; without it `ClosedMeansDrained` does not
  survive the step between `poll()` and the close. `InTurnInv`: on Windows a stream is left
  at its end. `VerdictInv`: when `endTime` was set, from a clock that is late by less than a
  second. `SetUpInv` and `ProgramInv` say where a call without a child can be. `ChunkWhole`
  says that a chunk, which the code cuts at its first zero byte, is whole without one.
- `IoUring`. `QueueInv`, `PlacesInv` and `HandlersInv` hold until two threads meet in the
  queue (`Sane`), where the model stops: the thread in the queue has the last entry; what
  waits is in one place of three; a callback is there exactly while it waits or is called, and the completion that is being
  handled is the first of its queue (`Called`), which another thread may not have taken (`twice`).
  `ThreadTypes`, `MainInv`, `PollInv` and `TaskInv` say which thread is where with which
  coroutine; `SerialInv` is why `SerialUseIsSafe` is inductive, `RingInv` why
  `StaleNeedsWraparound` is. That two entries of a ring do not share a slot is
  `SlotInjective`.
- `Generator`. `OwnedOnce`: a frame lives exactly while one owner has it. While a loop is in its
  body its iterator is at a frame.
- `Subscriptions`. `CallsUpTo`: what a publication has called is what the list held
  up to its index, which an insertion does not disturb but where it moves.
- `Logger`. `WriterInv`: what a writer has in hand at each point between its lock and its
  counters. `CountInv`: the counters lag by the writers that are reporting.
- `Downloader`. `ToolsInv`: what was registered and answered for each place of the list
  so far. `AnnounceInv`: an announcement is made of what was found, and the program is aborted
  by what threw. `FileInv`: a file
  is whole up to what its one writer has written, unless another has been at it.
  `HandleInv`: whose handles are open.
- `Tools`. `TalkInv`: tasks that are on a thread are no more than there are threads, and only
  those that were in the middle of a message at SIGINT print after it. `CombineInv`:
  what is written is whole copies and the beginning of one (`CopiedInv`); the buffer is never
  empty once something was flushed (`FlushInv`); an output that reads itself stays
  behind itself (`GrowInv`).

- `TopKQueue`. `Best`: what a queue has is as much of what was pushed as its capacity
  allows, and nothing that was left out comes before what was kept. `KeepsTheBest` says so
  of the sequence that comes out; a sorted sequence is determined by its bag
  (`SortedOf`), whatever the order of the pushes was.
- `UnionFind`. `Forest`: every node has a root and a height, and a parent is lower than its
  children. Without the heights it cannot be said that the walk to the root ends, nor what
  `Root()` and `Path()` return. `Joins`: the count is the number of roots, and the
  blocks are the classes of "has the same root". While a graph is read these are not
  yet its components; `Linking` says how far they are: the edges that were passed join
  their ends, and nodes that are joined are told apart by no set of nodes that no edge leaves.
  That path compression changes parents and no root is `Fuses`, with one tree hung under
  another. `GraphInv`: the matrix is square and symmetric, and `drawn` of the same size
  while a random graph is made.
- `Heap`. Each of `adjustDown()` and `adjustUp()` is a loop, and its invariant is a heap in
  order but for one place (`Sinking`, `Rising`), with the grandparent in order with what is
  below that place. A loop is a sequence of states: what holds at first and is kept
  by a turn holds at the end (`LoopKeeps`), and a bound on its length makes it stop.
  `LeastUp` and `GreatestUp` are the two orders of section 7; `sort()` is right because what
  was popped is not greater than what is left.
- `SkipList`. `Behind` says of each level that the successor of a node is the next key that is
  as high as the level; from `Before` the walk of `find()` and `insert()` ends, on each
  level, at the last key before the one that is looked for. `LevelsLinked` by itself does
  not say that a key on a level is found from its head.
- `Lists`. `Stands`: the first k nodes are turned round, `p` is the k-th and `q` the next.
- `Ducpp`. `VisitInv`: who visits which file, and holds which lock. `HadInv`: a task that
  threw met a file that is gone or has no size, or an access that failed. `SumInv`: a function from
  the files to what each has counted, so that no file counts twice; a sum over a finite set
  is the number of its units (`Units`), from which follow the lemmas on what it gains by one
  element. `RankInv`: a queue has the best of what was pushed to it so far (`PushedTo`),
  as long as no file changes.
- Examples. `OneByOneInv`, `ParallelInv` and `SleepInv`: the clock of `TaskChain` is the sum of
  the stages that are over, of a `when_all` that of its longest read, and the timers that are
  set are those of the calls that were launched. `SharesInv`: the shares of the threads are
  disjoint and are all images, whether or not their numbers divide (`Shares`); `LoopsInv`: a
  loop has found the images up to where it is. `PortInv` and `TalkingInv`: which states of the
  server, of the client and of the connection go together. `CurveInv`: a curve that
  was begun in its mode has its first point. What the library's `FlattenSeq`, a fold, makes
  of one more shape is `FlattenAppend`.
- `ArgParser`. `FrontInv` and `BackInv`: the arguments before the first option and behind the
  first unexpected word are pieces of the command line. `MiddleInv`: the values of the
  options are those that the words up to `next` give them. Whether a word is the value
  of a string alternates along a row of such words (`Alternates`), and does not depend on
  what comes behind it.

Two proofs changed what they were about. `Collect` of `Ducpp` chose among overlapping cases,
so that the prover could not say, and TLC would not have told, which of two outcomes
was meant; they are disjoint now. And `EveryTokenOnce` had said of a list
and of a repeated option only that some value is there; it says now which one counts, and that
the words of a list are all there, in their order.

Three arguments recur. Induction over numbers is by the least counterexample: a set of
natural numbers that is not empty has a least element (`SmallestNat`). What a recursive
function computes is not unfolded but compared with the equations that it satisfies:
two sequences, or two ways to the root, that satisfy them have no least place at which they
differ (`CopiesAre`, and along the heights in `UnionFind`). A loop is a sequence
of its states (`Runs`, `LoopKeeps`).

### Only model-checked

- Every liveness property. They need fairness and `ENABLED`, which the prover does
  not handle.
- `TextCorrect`: texts and trees. `split()`, `format()`, the stack printer and the traversals
  of a tree are defined by recursion over data or by folds and filters of sequences, and what
  those compute for every input would need induction over the data.

Every other invariant, and every action property and refinement, of a run that passes is
the property of a theorem, but for `ShutdownPastCheck` and its like, which are about liveness.

## 6. Disagreements

Four runs end in a violation; each is a behaviour of the code that contradicts a
line of the repository.

- `ThreadPoolDestructor`. `shutdown()` stores `isRunning_` and notifies without
  `mtx_`. A worker that has tested `isRunning_` and the queue and has not yet
  entered `cv_.wait()` misses it, and `join()` blocks. A test named
  ConstructionAndDestruction checks just this, and nearly always passes.
  `ShutdownPastCheck` shows that this window is the only cause.
- `WhenAllLost`. "Returns a Task that completes when all input tasks have
  completed": not if the last wrapper counts down to zero and loads a null
  continuation between `await_ready()` and the store in `await_suspend()`.
  `CompletesUnlessBetween` shows that it completes otherwise.
- `WhenAllFrame`. The detached thread is said to keep the cleanup from running
  "while we are still on the stack"; it runs concurrently with the rest of
  the wrapper, which it may destroy.
- `SyncAwaitThrow`. `sync_await` "blocks until the task finishes": if it finishes with
  an exception, the waiter leaves by `unhandled_exception()` without
  `event.set()`, and the caller blocks for ever.

More lines are contradicted by the models without a run of their own; what the code does
instead is part of a property that holds:

- `event_loop.h:45` has `run()` "until the queue is empty AND no more work is expected", and
  lines 26 and 18-21 say the same. The loop knows nothing of work to come: with an empty
  queue it sleeps, and it returns only after `stop()`, then also with tasks in the queue, which
  the next `run()` executes (`EndsByStop`, `StopEndsRun`).
- `io_uring_async.h:24`: "the completion callback posts a resume to the event loop", and so do
  line 58 and `demo_coro_io_uring.cpp:11`. The callback resumes its coroutine on the thread that
  took the completion, the polling thread in `start()`; nothing is ever posted to the loop,
  which is only stopped (`CallBack`, `Join`; `WaitingIsResumed` holds with nobody in the loop's
  `run()`). For this reason coroutines run on two threads, which submit to one ring.
- `io_uring_async.h:59`: "Call this periodically", of `poll_completions()`, without a word of the
  polling thread, beside which it takes a completion for the second time (`OneConsumer`).
- `process_executor.h:44` explains `timeoutMs` as the timeout of the call. On Windows it
  is one of the wait after both streams have ended; on POSIX it ends the reading only, and a
  child that closes its streams and goes on is waited for without a limit, as is one after
  an error of `poll()` or of `read()` (`TimeoutEndsReading`).
- `moderntools.cpp:156` (NOTE) wants to prevent that "the information of all tools" is obtained
  "while only individual tools are downloaded". Tools are selected by the name that follows the
  slash of their repository: a program that is asked for `myfork/fd` looks `sharkdp/fd` of the
  default set up as well, and downloads it (`AsksForWantedOnly` is about names for that reason).
- `demo_coro_task_chain.cpp:195` says of the vector demo "Total time ≈
  max(delay_ms), not sum(delay_ms)"; `fetch_data()` sleeps where it is started, and
  `TimeTaken` of `TaskChain` is the sum.
- `generator.h:78`: "don't start executing until the first iterator dereference"; it is
  `begin()` that runs the body to its first value, and `++` that runs it on.

## 7. Known limits

These follow from the code as well; nothing in the repository says otherwise, and the
properties are stated so as to exclude them.

- With one worker `submit()` may be lost between that worker's test and its wait:
  the task stays until the next `submit()`. `QueueDrains` and `SomeoneAwake` are
  about two workers or more. A pool of size 0 never runs anything.
- `EventLoop::stop()` before `run()` has set `running_` is overwritten.
- `EventBus::Stop()` drops delayed events whose time has not come. Like the pool's
  destructor it may block for ever, if its notification falls between the timer
  thread's test of `stop_` and its plain `wait()`; `StopReturnsPastWait` says that
  this is the only way.
- `Subscribe()` during a publication may move the vector over which it iterates.
- `SyncEvent::set()` notifies after it has released the mutex: the waiting thread may
  have returned, and destroyed the event, by then.
- `ExecuteCommandPosix()`: output after a zero byte in a chunk is lost; the timeout
  may come up to a second early (`AtMostASecondEarly`); an error of `poll()` or of `read()` is
  silent. A stream whose `read()` failed is closed in the loop but not emptied any more
  (`readFailed`): its output lacks the end, and a child that goes on writing may block on it. A
  child that timed out is never waited for.
- `Heap`: `adjustUp()` and `adjustDown()` use `Compare` in opposite directions. A heap
  that is only pushed to has its greatest on top, one that is built and
  popped its least (which is why `sort()` sorts); one that is both pushed to and popped
  has neither.
- `ExecuteCommandWindows()`: a child that fills the pipe of its standard error
  before it has closed its standard output blocks, and the call with it. A write of no bytes, or
  any failing `ReadFile()`, is taken for the end of the stream.
- `IoUring`: two coroutines in flight submit from two threads to one ring without
  a lock, as `stop()` does (`SerialUseIsSafe` says when this does not happen).
  `poll_completions()` beside the polling thread calls and deletes one callback twice, and drops
  the completion behind it. `stop()`'s NOP
  keeps the user data of the entry's last use, if the installed liburing does not clear
  it, and calls a deleted callback (`StaleNeedsWraparound`). An `IoUringContext` that
  is destroyed without `stop()` ends the program by its joinable thread.
- `SkipList` may draw a level one beyond its `update` vector, once in 2^20.
- `topk_queue` of capacity 0 reads the top of an empty queue.
- `UnionFindSet<T>` of a graph in which two nodes are equal counts both.
- `vector2List()` reads the first element of an empty vector, `reverseList()` the
  successor of a null list.
- `strip()` throws for blanks; `basename()` of a path of slashes reads behind an empty
  vector; `split()` and `count()` at an empty delimiter do not end. `expandUser()`
  replaces every tilde, not only the first, and makes a string of a null pointer
  without `HOME`.
- `format()` looks for the next hole in what it has filled in: an argument that is
  printed with braces may take the next argument.
- The stack printer knows neither its own frames nor offsets in an executable whose name
  has a plus or a parenthesis, such as `libstdc++.so`.
- `getRandomInt()` with its bounds in the wrong order, as in `getRandomInt(1000)`
  with its default of 100, gives numbers above both, or divides by zero; a range wider than
  10 000 is not filled.
- `FileReader::ReadAll()` throws once a line was read behind the end of the file.
- `Logger`: `gTotalTest` lags behind what was printed, so that two results may bear
  one number. The message of `TODO`, `LINE_BREAKER` and `ASSERT_MSG` and the values of `DUMP()`
  are evaluated under the lock: one that logs waits for its own lock, as does a
  static destructor that logs under `exit()` (`WaitsForItself`). `DUMP()` locks for each of its
  values and ends its line without the lock, so that its line may be broken into.
- `ducpp` dies if a file vanishes between a test and its use, of a directory that cannot be read
  or is removed, and of a fifo or a device, which has no size (`DiesOnlyOfFaults`); its order is
  whatever the files were when they were compared.
- `Downloader`: two downloads may write to one file; a write that fails is not
  noticed; the handle of a file that cannot be opened is not cleaned up. An exception of
  `create_directories()` ends the program where the result of that download is asked for, and
  what is left is not announced (`EverythingAnnounced`). An argument of `--tool` that ends in
  its slash makes `FromRepoToName()` read behind a vector of one element.
- `combine_files` with its output among its inputs copies what was flushed so far, and
  may grow for ever. A file that was collected twice may have been copied once before it is
  removed: it is places among the inputs that are left out, not files (`CopiesInOrder`). `demo_coro_asio.cpp`'s server accepts for ever if the client could not
  connect. In the drawing pad a curve whose button was pressed in another mode goes on from
  the last one.

## 8. Abstractions

- Tasks, events, handlers and bytes are model values; results are "value" or
  "error".
- `EventLoop::running_` is a plain `bool` that the loop reads without the mutex; the
  model reads and writes it atomically. Between two reads the loop takes the
  mutex, so that no compiler can keep an old value for ever.
- Two children of `when_all` that throw at once assign one `exception_ptr` without a
  lock. Each assignment is a step; the torn value is not modelled.
- `wait_until()` is given a reference to the time in the top timer, which an
  insertion may move; the model copies the time when the wait begins.
- After `FrameSafe` is violated the model lets the wrapper finish: what a destroyed
  frame does is undefined. None of the other properties is affected.
- In `Subscriptions` a publication whose vector was moved under it ends there.
- `IoUring` goes on neither after two threads have raced for the ring, nor after both have
  taken one completion, nor after a stale callback (`Sane`); its properties are about what comes
  before. The kernel completes in any order. The event loop is modelled as far as the context
  uses it: a thread may be in its `run()` when `stop()` comes to the join. Starting a context
  a second time is not checked.
- `PosixExecutor` uses no time for setting up, and a tick may pass between any
  two steps afterwards. On Windows only the timed wait is measured.
- `Heap`'s top is read and popped in one action; `Compare` is the default. Copying and
  moving a bounded queue is left out.
- In the programs, options are as parsed, and what is printed is what the properties
  speak of: numbers, files and their order. `curl` answers as it likes. In `Ducpp` a file may
  change, vanish or be replaced by what has no size, and an access to a directory may throw, up
  to `MaxChanges` times in all; files that appear and symbolic links are left out. A push whose comparison throws leaves its file in the
  queue or not (`AfterThrow`), since the vector has grown by then or the queue was full. A
  repository has one slash, with something behind it.
- `FileReader`'s files fit into the buffer of the stream; a call of `getline()` or
  `read()` is one step.
- `DrawingPad` is followed without the turning and scaling of the animation, and
  without what is shown while the button is held.

Not modelled, because there is neither state nor order in it: the templates of
`printer.h` that choose a `toString()` by type, colours and layout; the variants of
the stack printer over libraries that are not the default; `show_help()` and
declarations of arguments; type names, clocks and other wrappers; real random numbers.
Not modelled, because it is not this repository's: `dbg.h` (vendored), the
single-header build (generated from the headers), examples of the language and of other
libraries (protobuf, boost, gmock, concurrencpp). `PROJECT.json` lists each part with its
status.

## 9. Plan

Done, in this order: `ThreadPool` with `TaskPool` and its proofs, `WhenAll` with
`Gather`, `SyncAwait`, `EventBus`, `EventLoop`, `Subscriptions`, `PosixExecutor`, the
containers; then `IoUring`, `WindowsExecutor` and `ProcessExecutor`, `Generator`, the
programs, the utilities and the examples; then the proofs of section 5, those of the examples
last.

Left, models: `when_all` under `sync_await` as one composition, and `EventBus` with the
iteration of `Subscriptions` inside its workers.

Left, proofs: of the utilities the random numbers, which are arithmetic without recursion.
