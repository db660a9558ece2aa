# Verification of yaal in TLA+

yaal ("Yet Another Abstraction Layer") is a C++ library: threads, containers,
streams, numbers, parsers, database access, a text user interface and the
Huginn language. This directory holds TLA+ models of its parts, TLC
configurations that check small instances of them, and theorems that TLAPS
proves for every value of the constants. Every definition is translated from
the code; `PROJECT.json` gives the lines each one stands for (`map`), the runs,
the mutants, the hazards and the theorems.

Sections: 1 inventory, 2 the modules and how they correspond to the code,
3 runs, 4 bounds, 5 fairness, 6 proofs, 7 disagreements with the
documentation and uses that are left out, 8 what is not modelled, 9 plan,
10 how to run.

## 1. Inventory

### 1.1 Threads and what is built on them

| component | source | state | operations | interacts with |
|---|---|---|---|---|
| HMutex, HLock, HCondition, HSemaphore | `hcore/hthread.*` | pthread mutex and `_owner`, wait set, `_count` | lock, unlock, reown; wait, signal, broadcast; wait, signal, reset | everything below |
| HThread | `hcore/hthread.*` | `_status` (DEAD, SPAWNING, ALIVE, ZOMBIE), `_semaphore`, `_exceptionInfo` | spawn, finish, schedule_finish, is_alive, stack_exception, destructor; `control()` in the new thread | semaphore; owner of the object; pthread |
| HWorkFlow, HThreadPool | `tools/hworkflow.*`, `tools/hthreadpool.cxx` | `_state`, `_workers`, `_tasks`, `_busyWorkers`, `_workerPoolSize`, `_semaphore`; per worker `_task`, `_hasTask`, `_state` | schedule_task (LAZY, EAGER), start, schedule_windup (ABORT, INTERRUPT, SUSPEND, CLOSE), join, windup, cancel_task, destructor; `HWorker::run` | HThread, HSemaphore, callbacks of the tasks (asyncStop, wantRestart), `_isKilled_` |
| HAsyncCaller | `tools/hasynccaller.*` | `_queue` by priority, `_semaphore`, `_stopRequests` | register_call; `run`, `stop`, `want_restart` as a task of the pool | the pool's workers |
| HScheduledAsyncCaller | `tools/hscheduledasynccaller.*` | `_queue` by time, `_condition`, `_loop` | call_at, call_in, flush; `run`, `stop` | the pool, HAsyncCaller |
| HFuture | `tools/hfuture.hxx` | `_return`, `_finished` | constructor, get, is_ready; `execute` | the pool |
| HEvent, HReadWriteLock | `hcore/hthread.*` | a flag; nesting counts by thread | wait, signal; lock_read, lock_write, unlock | mutex, condition, pthread rwlock |
| HSingleton, HLifeTimeTracker, HTLS | `hcore/hsingleton.*`, `hcore/htls.*` | `_instance`, destructors by life time; objects by thread | get_instance, register, destruct at exit; thread exit | everything that is a singleton |
| HSignalService | `tools/signals.*` | `_handlers`, `_catch`, `_loop` | register_handler, reset_signal, flush_handlers; `run`, `stop` | the pool, `sigwait`, HIODispatcher |
| HIODispatcher | `tools/hiodispatcher.*` | `_handlers`, `_newIOHandlers`, `_droppedIOHandlers`, `_refs`, `_event` pipe | register, unregister, run, stop, alerts, idle calls | callbacks, HSignalService, poll |
| HPipedChild, HAlarm | `tools/hpipedchild.*`, `tools/halarm.*` | `_pid`, `_status`, streams; one timer at a time | spawn, get_status, do_continue, finish | the child process, SIGALRM |
| HSynchronizedStream, recursive HMutex, HLock | `hcore/hsynchronizedstream.*`, `hcore/hthread.*` | the stream referred to, `_owner`, the depth of the lock | every call of a stream, acquire, reset_owned | the threads that share the stream |

What is hard here: one semaphore used both for work and for the end of workers;
waits with a mutex held; state read before a lock is taken again; objects that
are used again after they were stopped; stop requests that race the start of
what is to be stopped; callbacks that change what is being iterated; destructors
that meet running threads.

What makes each of them correct, in one line:

* semaphore: every operation takes effect at one instant, no wake-up is lost;
* thread: no thread outlives its object or its incarnation, `finish()` returns,
  a request to finish is never overwritten;
* work flow: no accepted task is lost or run twice, `windup()` leaves no
  thread and returns, what a mode promises about queued tasks is kept;
* asynchronous calls: each call once, in the order of priorities and, among equals, of
  registration; stopping is
  complete, and leaves nothing behind for the next start;
* scheduled calls: not before the second of their moment, in order, none forgotten;
* future: `get()` returns the value, the object may be destroyed after it;
* read/write lock: nesting is exact, and who begins with a write guard is alone;
* singletons: made once, destroyed once, in the order of their life times;
* signals, event loop: a handler that was removed is never called again, a stop
  is always seen, what is registered in a callback takes effect;
* child process: `finish()` reaps the child, in the time it was given, unless it stopped;
* shared stream: calls under one lock stay together, every lock is given back.

### 1.2 Data structures and algorithms

HPool (free lists in the free cells, blocks split into full and free), HCache,
HPointer (holder and observer counts), HRing, HDeque, HList, HSBBSTree with the
ordered containers, HHashContainer and HOrderedHashContainer, the algorithms on ranges.
Their state is a heap of cells behind a simple abstract value (a sequence, a
set, a map), their operations are sequential, and what is hard is a long series
of legal calls at a boundary. Each is correct when it implements that value.

### 1.3 Streams

HStreamInterface (read cache and write buffer in one buffer over virtual
`do_read`, `do_write`), HMemory (circular, two cursors), HLog (lines with levels,
moved to another file in the middle), HRawFile, HFile, HSocket, HOpenSSL. Correct
when no byte is lost, repeated or moved across a mix of reads, writes, resets
and short transfers.

### 1.4 Numbers, grammars and programs

HNumber (decimal numbers of any size in leafs of digits, exact or rounded: the
answer is that of the values), HExecutingParser (rules that leave steps while
they match, and a search for recursion without end), the Huginn runtime (frames,
scopes, exceptions of two kinds, destructors that run in the middle of a jump).

### 1.5 The rest

Formats, regular expressions, XML, JSON and YAML; time and configuration;
the Huginn compiler and library; the database layer and its drivers; hconsole and
hdata; build and packaging. Large sequential code on unbounded data, or thin
layers over the system; section 8 says why each is left out.

`PROJECT.json` lists all components with their status, and the hazards of the
code at their lines.

## 2. Modules

| module | stands for |
|---|---|
| `AbstractSemaphore`, `AbstractReadWriteLock` | what a semaphore and a recursive read/write lock promise |
| `HSemaphore`, `HEvent` | mutex, condition, semaphore and event, statement by statement |
| `HThread`, `HWorkFlow`, `HAsyncCaller` | the hand-shake of spawn and finish, the thread pool, the queue of calls on it |
| `HFuture`, `HReadWriteLock`, `HTLS`, `HSynchronizedStream` | what threads share |
| `HSingleton`, `HScheduledAsyncCaller`, `HSignalService`, `HIODispatcher`, `HPipedChild` | the services of a process; `HAlarm` is a part of `HPipedChild` |
| `Huginn` | the interpreter of programs: frames, scopes, exceptions, destructors |
| `HPool`, `HPointer`, `HRing`, `HDeque`, `HList`, `HSBBSTree`, `HOrderedHashContainer`, `HCache` | memory and containers |
| `HStreamInterface`, `HMemory`, `HLog` | streams |
| `Algorithm`, `HNumber`, `ExecutingParser` | pure computation against reference definitions |
| `Services` | composes threads, what they share, the services and `Huginn` |
| `Foundations` | the semaphore, the pool, the pointers, the cache, the streams and the hash container, about which there are proofs |
| `MCFoundations` | composes `Foundations`, the event, the other containers, the log, numbers and grammars |
| `MC*` with `*.cfg` | instances for TLC |
| `*Proofs` | theorems and their proofs (section 6) |

The layers rest on each other by contract: `HSemaphore` is shown to implement
`AbstractSemaphore`, and `HThread`, `HWorkFlow` and `HAsyncCaller` use a
semaphore as that counter, one step for each wait and signal. `HWorkFlow` uses
spawn and finish of a thread as steps, which is what `HThread` establishes:
spawn() returns when the thread runs, finish() when it is gone. `HAsyncCaller`
carries the part of HWorkFlow that stops, ends and restarts the workers of its
runners, because the two disagree about whom a stop request is for (section 7).

In the code the parts of `Services` and of `MCFoundations` do not share state.
Their compositions are therefore sums: the first state chooses a `subject`, and a
behaviour is one of that part while all others rest. A property of a composition
says something of several parts; what it says of each is in the part's module.

The header of each module says what it covers. Sections 2.1 to 2.4 describe the
core, 2.5 what is common to the rest.

### 2.1 HSemaphore

`count` is `_count`, `mutex` the holder of the pthread mutex, `owner` is
`HMutex::_owner`, which differs from `mutex` for a moment around every lock,
unlock and wait. Each thread is in an operation (`call`) at a program point
(`stage`). `Lock` and `Own` are the two statements of `HMutex::lock()`, `Disown`
and `Unlock` those of `unlock()`; `Sleep` is `pthread_cond_timedwait` going to
sleep; a sleeper is woken by `SignalOne`, by `Broadcast`, or without either
(`WakeUnsignalled`: spurious, a time-out, EINTR) and goes through `Lock` and
`Own`, which stands for `reown()`. `WaitSleep`/`WaitTake`, `SignalCount`/
`SignalNotify` and `ResetCount`/`ResetNotify` are the bodies of the operations.

### 2.2 HThread

`status`, `semaphore`, `stacked` are the members. `owner` is the program point of
the thread that calls spawn, finish and the destructor; `child` that of the
operating-system thread in `control()`. The recursive mutex is held over several
steps at the points in `Locked`; elsewhere a step that needs it takes and returns
it. `Spawn` either starts a child or, when `CreateMayFail`, fails after `_status`
was written (`SpawnFails`), as in the code. The call of the thread may poll
`is_alive()` and may stack an exception. `ScheduleFinish` is any other thread.

### 2.3 HWorkFlow

The members have the names of the code without the underscore (`busy` is
`_busyWorkers`, `workers` the length of `_workers`, which only grows). A worker
is at a point of `HWorker::run()` and of `pop_task()` inside it:

    start - loop - pop - wait - woken - assign - call - after - loop ... - leave - exited

`wait` is the semaphore, between the two critical sections of `pop_task()`;
`assign` is between its return and `_task = t`, when the task is known only to
the local variable `popped`. The controller is one thread in start(),
schedule_windup(), join() and the destructor: `signal` is the loop of
`_semaphore.signal()`, `stop` the loop of `async_stop()`, `join` that of
`finish()`. The canceller is one thread in cancel_task(), which keeps `_mutex`
from `CancelBegin` to `CancelEnd` and waits for the semaphore inside. `Kill` sets
`_isKilled_`.

A step is the longest stretch that no other thread can observe: a critical
section under `_mutex` in which nothing waits, or one under the worker's mutex.
The exception, cancel_task(), is split, and while it is inside `MutexFree` stops
everyone else. What runs without a lock (the loops of schedule_windup() and
join(), the reads of `_isKilled_`, `_task` between lock and lock) is one step per
access of shared state.

Tasks are model values, each scheduled at most once. `Permanent` tasks return
only when asked to stop, as the long-running tasks of the library do;
`Restartable` ones may be kept by `wantRestart`. `submitted`, `done` and
`dropped` are history.

### 2.4 HAsyncCaller

`queue` is `_queue` in the order of iteration; `PlaceOf` is where
`HMultiMap::push_back` puts a pair, after its equals; `arrivals` is history, the calls in
the order of registration. A runner is at `wait` for
the semaphore, `woken` before the mutex, in the `call`, `returned` to
`HWorker::run()`, or has `left` it. `Interrupt`, `StopRunner`, `Join` and `Start`
are windup( INTERRUPT ) and start() of the pool for these workers, `StopPool` is
`HThreadPool::stop()`, which sets `_isKilled_` first.

### 2.5 The other modules

A variable has the name of the member without its underscore; a variable that no
member stands for is history (`intended`, `content`, `sent`, ...) or the program
point of a thread, and is named so where it is declared. A step is the longest
stretch that nobody else can observe, as in 2.3.

Services: `HSingleton` keeps for each thread a stack of the calls of
`get_instance()` it is in, since constructors and destructors call it. The clock of
`HScheduledAsyncCaller` counts ticks, of which `::time()` sees whole seconds. In
`HSignalService` a signal is its number, because `sigwait()` gives the smallest.
`HIODispatcher` has one step for each turn of its two loops, whose callbacks
register and unregister, as do the calls of handle_alerts() and handle_idle(); `Killed` is
`_isKilled_` seen at the top of the loop. In `HPipedChild` the child, and who else sends it signals,
move between the system calls of `finish()`. `HSynchronizedStream` has the
recursive mutex with the HLocks of `acquire()`. `HReadWriteLock` has the map of entries and
the pthread lock; `AbstractReadWriteLock` has only who reads, who writes and who is
`alone`, a thread whose first guard is a write guard.

`HStreamInterface`: a read of several steps is in `request`, what it gave in `got`. A device
gives pieces, is interrupted, or gives nothing: at the end of its input, or at any time
if it is not `blocking`.

`Huginn`: `control` is the stack of C++ calls that execute statements, the innermost
last; each entry of a scope says how many variables there were when it began
and how many were declared in it. `Destroy` begins the destructors that a scope
that leaves has to run: it puts aside the state of the thread in an entry
`"destructor"`, and `DestructorReturns` or `DestructorFails` puts it back (`After`). A
program is any choice of statements.

Containers: each has the representation of the code and, as history, the sequence
or set that its calls amount to; the properties relate the two. The turns of the
loops that rebalance `HSBBSTree` are steps, so that the tree in the middle of them
is seen as well; the other operations are one step. Constants named in section 7
switch on uses that break a container.

`Algorithm`, `HNumber` and `ExecutingParser` are operators. Their variable is only a
range, a number or a grammar that grows, so that TLC meets every one up to its
bounds and compares what the code computes with a definition that does not follow
the code: multisets and orders, values of numbers, derivations of a grammar.

## 3. Runs

Passing runs (each property is commented where it is defined):

| run | question | properties |
|---|---|---|
| `workflow_safety` | is the pool sound for every policy, mode, restart and the destructor? | `TasksAreAccountedFor` (each accepted task has one place; units of the semaphore cover those who need them), `NoWorkerOutlivesWindup`, `WorkersAreStable` |
| `workflow_cancel` | ... and with cancel_task() and `_isKilled_`? | `TasksAreAccountedFor`; the destructor restarts a stopped flow that has work left (`NothingIsAbandoned`) |
| `workflow_drain` | does accepted work get done, without INTERRUPT? | `ClosedIsDrained`, `TasksFinish`, `WindupReturns` |
| `async_calls` | are calls executed once and in order, over interrupts and stops? | `UnitsAreExact` (so `_queue.begin()` is never end()), `EveryCallHasOnePlace`, `NoStaleRequest`, `StartsInOrder`; `CallsAreDone`, `KilledPoolStops` |
| `services` | do threads and services keep what they promise each other? | `ChildIsJoined`, `SignalsAreMatched`, `FinishRequestIsKept` (threads); `DestroyedAfterUse` (future); `ImplementsReadWriteLock`; `UsedOutlivesUser` (singletons, shared streams, thread local objects); `CalledOnTime`; `RegistrationsAreCurrent`, `CallsAreInOrder` (signals, event loop, shared streams); `ChildIsAccountedFor`; `ProgramIsInOrder`, `FailuresAreFinal` (Huginn); `EventsAreHandled`, `StopsAreServed` |
| `foundations` | do synchronisation, containers, streams and computations what their interfaces say? | `ImplementsSemaphore`, `ConditionUsedByOwner`, `NoLostWakeup`, `WaitersGoOn`; `ValuesAreKept` (cache, streams, hash container), `MessagesEnd`, `MemoryIsAccountedFor`, `ContentsAreKept` (containers, log); `AlgorithmsAreRight`, `GrammarsAreObeyed` |

`services` has 151,029 distinct states, `foundations` 156,010, `async_calls` 43,695. The six runs that find a
disagreement between code and documentation are in section 7.

Each property of a passing run has a mutant in `PROJECT.json`: a changed action
or operator that a plausible slip in the code would amount to, under which TLC
finds the property violated. The mutated forms stand before the original in each
module (`WaitTakeUnchecked` before `WaitTake`: `if` for `while`, and so on).

## 4. Bounds

| run or part | bounds | why they are enough |
|---|---|---|
| `workflow_safety` | pool of 1, at most 2 workers, 3 tasks, 2 wind-ups and the destructor | two workers and one queue show every race between workers; the second wind-up meets what the first one left, and the destructor a third |
| `workflow_cancel` | pool of 2, 3 lazy tasks, cancel_task of two of them, 1 wind-up | more than one task of the subject, and one of another, in the queue and with the workers |
| `workflow_drain` | 2 tasks, 2 workers, 2 wind-ups | liveness graphs are larger; a restart after ABORT or SUSPEND is included |
| `async_calls` | 2 runners, 3 calls of 2 priorities, 2 interrupts | two calls of equal and one of smaller priority decide every place; two runners may swap their requests |
| semaphore | 3 threads, 2 calls each, reset to 0 or 2 | the hazards need a sleeper, a thread that overtakes it and a signaller |
| thread | 4 incarnations, pthread_create failing or not | what one incarnation leaves to the next shows after two; a failure may come anywhere among them |
| future, read/write lock | 2 users with 2 calls; 2 threads with 2 guards | one that destroys or writes, and one in the way; a second guard is a nested one |
| shared stream, thread local storage | 2 threads with 2 calls; the main thread and 2 others, 1 walk | a call under the guard of the other thread; a thread that begins or ends during the walk |
| singletons | thread pool, caller and scheduler of the library, 2 threads | each uses the one before; two threads meet in every constructor |
| scheduled calls | 2 calls, seconds of 2 ticks, 5 ticks | a moment in the middle of a second; a call before and behind another |
| signals | 2 and 28, one registered by the constructor and one later, on either side of SIGURG (23) | `sigwait()` gives the smallest number first |
| event loop | 2 streams and `_event`, 2 changes by callbacks | a callback that removes or adds the stream before or behind it |
| child | 2 processes, 2 stops | the second spawn meets what the first left |
| Huginn | 2 frames, 3 nested statements, 1 variable, chains of 2 destructors | a function with a destructor in it or a function it calls. The inductive invariant was also checked with 3 frames over five million states |
| containers | pool: 3 blocks of 3 cells; ring of up to 4; deque of 7 with chunks of 2; two lists of 4 nodes together; tree of keys 1..7; hash store of 4 with three colliding hashes; cache of 2 entries and 4 keys; 2 objects, 2 pointers and an observer | the smallest at which blocks move, buffers wrap, tables grow and all cases of the removal from a tree are reached |
| streams | inputs of 3 characters over a buffer of 2, devices that block and that do not, ring of 4, provided memory of up to 4, 4 bytes written; log of 4 statements of 2 pieces | a message before, across and behind the end of the buffer |
| algorithms | ranges of up to 5 of 4 keys; `SortThreshold` and `MergeThreshold` 3 for 8 and 16; permuted places up to 15 | at 3 the recursive branches are taken |
| numbers | radix 2, leafs of 2 digits, 3 leafs, Karatsuba from 2 leafs for 20 | carries and borrows cross leafs; radix 4 with leafs of one digit gives the same |
| grammars | 4 rules over 9 inputs | every rule inside every other; grammars of 5 rules gave the same |

The bounds that are not in the code (`MaxCalls`, `MaxSpawns`, `MaxWorkers`, `MaxFrames`
and the like) are guards of the action that counts, and constants, so the theorems
hold for any value of them. When `MaxWorkers` is reached a call that needs a new
worker is disabled rather than refused; the runs use as many workers as matter,
and no liveness property depends on such a call.

The constants of a work flow run choose the modes, the policies and the tasks
that are permanent or restartable. `workflow_drain` leaves INTERRUPT out because
its surplus units break `ClosedIsDrained` (section 7); `workflow_safety` and
`workflow_cancel` have it. Symmetry is not used: most of the runs have temporal
properties, and `StartsInOrder` tells calls apart.

## 5. Fairness

Weak fairness of every thread that is inside the library, per thread: a thread
that can take its next step takes it, as any preemptive scheduler sees to.
Nothing is owed from outside: no thread must call schedule_task(), windup() or
start(), a sleeper need not be woken spuriously, `_isKilled_` need not be set, no
child must end by itself. Calls of tasks return, except those of `Permanent` tasks
that were not asked to stop, and a thread's call that polls `is_alive()` while it is
ALIVE. The owner of a read guard or write guard reaches the end of its scope.

The semaphore is fair only as a whole: if units remain, *some* waiter passes
(`WF(\E w: PopWait(w))`), not a given one, since neither pthread mutexes nor
condition variables promise an order. Strong fairness is assumed only where a
mutex is acquired by one thread against others that give it back again and again
(`ExecuteLock` of the future, and of the event and the signal service): a mutex that
passes a thread over for ever is no mutex. In `HScheduledAsyncCaller` time passes
only while `run()` sleeps: its steps take much less than a second.

## 6. Proofs

Everything below is proved from the named assumptions on the constants (types,
`NoTask \notin Tasks` and the like), for any number of threads, tasks, workers,
calls, restarts, singletons, signals, streams, frames and so on. Proof modules that
are instantiated (`HIODispatcherProofs`, `HuginnProofs`, `HPoolProofs`, `HPointerProofs`)
state what they need as a named hypothesis (`Callbacks`, `Legal`, `CellsAreSeveral`,
`PointersAreApart`); it follows from the assumptions of `Services` and of `Foundations`,
which TLC evaluates in the runs `services` and `foundations`.

`FoundationsProofs`, first part: `HSemaphore`. `Inv` adds to the types that who is past `pthread_mutex_lock`
holds the mutex (`HolderInv`), so only one thread writes `_owner`, which makes
`ConditionUsedByOwner` inductive, and that only wait() sleeps (`SleeperInv`).
`Refinement`: under `Inv` the three steps `WaitTake`, `SignalCount` and `ResetCount`
are the instants of the abstract operations, `Begin` is `Enter` and all other steps are
stutters. `NoWakeupIsLost`: `NoLostWakeup` is inductive relative to `Inv` once the
cardinalities of the three sets of threads are related before and after each step.

`HPoolProofs`. A property of the cells that the links lead to is not inductive; the
invariant is that there is a list of the free cells of each block (`IsList`: as long as
`used` says, each cell once, linked from `head` on), beside the order of the blocks
(`PlacesInv`, `OrderInv`, `EmptyInv`). alloc() takes the first of the list (`Popped`),
and needs no other link than its; free() puts a cell before it (`Pushed`). That the walk
of the property is that list is an induction on its length, made of the library's
theorem that a set of numbers has a least one (`LeastNumber`, `SetInduction`).
`PoolCorrect`, for every number of blocks and every number of cells from two on.

`HPointerProofs`. Releases nest: the last holder deletes the object, whose members are
released before the holder itself is counted off. The stack of what is to be done is
counted from its bottom, so that a step at its top leaves the rest as it is. `Counted`:
each counter is the number of pointers that refer to the object, the temporary one
included, at every step. An object is dying exactly while its deletion is on
the stack, and what is on the stack above it concerns objects reached from it, which is
why no object is deleted in the course of its own deletion: objects have
ranks, and each holds only those of lower rank (the hypothesis that there are no
cycles). `PointerCorrect`, for any number of objects and pointers; its hypotheses exclude
cycles and assignment from a member of an object that the assignment may delete
(section 7).

`MemoryCorrect` puts both together. Its `MemorySpec` is the conjunction of the two
specifications; a behaviour of `MCFoundations` is one of it, because each step is one of
the pool, one of the pointers, or leaves both alone. The same holds of `ValuesSpec`, about
the parts that follow.

`CacheInv`: the entries are the beginning of the keys in the order of use, as many as
fit, and `_lookup` finds exactly these. Fetchers nest; that a key is not put twice rests
on `FetchInv`: the keys whose fetchers run are each needed by the one before, and none
has an entry. `CacheAssumption` says that no fetcher needs, in the end, its own key, so
no key is there twice (`NotFetchedTwice`).

`MemoryInv` says where in the ring the bytes not yet read are (`Behind`), and where the
place to write is among them, as long as reading has not passed it (`CursorsInv`).

`StreamInv` divides the buffer that both directions share into what was read `Ahead` and
what is `Held` back of the output: `Held` is empty while a read is made and in a stream
that is not buffered (`HeldInv`), and what was read of a message so far is shorter
than it may be and has no place to stop (`PendingInv`). The second is what `MessagesEnd`
needs, which the actions imply one by one (`MessageEnd`): a piece is searched for
the delimiter alone, not what came before it. Nothing is assumed of a device that does not
block but that it gives its input in order: what ends with the input for others may then
end anywhere, with the stream called bad. `ValuesCorrect` and `MessagesCorrect` hold
for every buffer and every input; the uses of section 7 are excluded by their constants.

`HashInv`: the store has no value twice, and the index has the places of its values and of
no gap. A value is found because its probe `Reaches` its slot without passing one that
was never used; a slot that erase() gives up becomes `ERASED`, not `INVALID`, so this holds
of the others still (`HashErases`), and insert_impl() takes a slot that the probe has
come to (`HashInserts`). A search of what is not there ends because slots are used up
no faster than places of the store, and the index is longer than the store. That
compaction and growth keep all this is shown for each turn of the loops of `copy_store()`
and `rebuild_index()` (`WithValue`, `WithPlace`), and for all turns by induction on the set
of turns up to which it holds (`SetInduction`), which also shows that the loops have a
result at all (`Steps`, `Copying`, `Placing`).
The arithmetic of the probe is an assumption on the constants, `ProbesAssumption`:
within the 13 shifts that clear a hash of 63 bits and as many steps as there are slots
every slot is visited, since `x -> 5 * x + 1` has full period modulo a power of two; TLC
evaluates it for the hashes of the run. `KeysAssumption` keeps the store in 32 bits. Where
the hashes collide is of no account.

`HWorkFlowProofs`. `ThreadInv` says where a thread may exist: nowhere past the end of
`_workers` (`UnusedIsOff`), nowhere in the part join() has gone through
(`JoinedIsOff`), and that `_state` is a winding one exactly while the controller is
inside (`WindingIsControlled`). It gives `AllThreadsAreJoined` and, with the guard
`_state == RUNNING` of the growth of `_workers`, `ListIsStable`, which is why the loops
without `_mutex` are safe. `FlowInv` (who has which task, one place for each, the count
of units) gives `TasksAccounted`. `CalmFlowIsDrained` is `ClosedIsDrained` under `Calm`:
no `_isKilled_` and no INTERRUPT, the hypothesis without which it is false (section 7).
`LazyFlowAbandonsNothing` is `NothingIsAbandoned` under `Lazy`: without EAGER tasks
`_hasTask` is set for every worker that has one.

`HAsyncCallerProofs`. `UnitsAreExact` is inductive with the types: every step that
moves a unit moves a call, a request or a runner with it. `StopInv` says whose request
is still to come and gives `NoStaleRequestIsLeft`; `PlaceInv` gives
`NoCallIsLostOrRepeated`; the queue is sorted by priority and,
among equals, by registration (`InOrder`; an index of the queue against one of `arrivals`),
which gives `CallsStartInOrder`.

`ServicesProofs`, first part: `HThread`. The status and the semaphore do not determine
each other; the invariant says how many units are pending for each pair of program
points (`TokenInv`) and where the child may be for each point of the owner
(`ChildInv`). From it follow `ChildNeverOutlivesObject`, `NoUnitIsLeft` and `RequestIsKept`.
`FinishHasAThread`: unless pthread_create fails, finish() never waits without a thread.

The other parts each have an inductive invariant, and lemmas `...Part` show that a
behaviour of `Services` is one of each part, by which what holds of a part holds
of the composition:

* `SingletonInv`: who holds the mutex of a class and where in `get_instance()`
  (`ConstructorsInv`), destructors are in the order of life times (`DestructorsInv`), what
  a registered singleton uses is there (`UsesInv`). `LifeTimesCorrect`.
* `SharedStreamInv`: the recursive mutex counts the locks of its owner
  (`HolderInv`), calls have found the stream (`FoundInv`); `TLSInv`: who has the mutex
  (`MutexInv`), whose object may end (`EndsInv`), what is left of a walk (`VisitInv`).
* `SchedulerInv`: keys of the queue against the seconds of the moments wanted (`QueueInv`),
  sleep ends less than a second after the first key (`SleepInv`). `MomentsCorrect`, for every
  length of a second.
* `SignalsInv` with facts about the sequence that `flush_handlers()` leaves
  (`WithoutFacts`, `RankIsOnto`), and from `HIODispatcherProofs` that `_refs` has the
  registered streams, each once, by counting. `RegistrationsCorrect`.
* `HIODispatcherProofs`: what the application wants is what `_handlers` will be once
  the changes of the round are made, and each can be made (`ChangesInv`); what
  poll() found readable still is when its turn comes (`ReadableInv`). `CallsCorrect`.
* `LockInv`: the count of an entry is that of the guards, and the kind of
  the pthread lock that of the first (`EntriesMatchLock`, `ReaderInv`,
  `ExclusionInv`); a guard is taken when the pthread lock is got or counted, and given
  back when it is counted off; who is alone has the pthread lock for writing
  (`WritersAreAlone`). `LocksCorrect`.
* `FutureInv`: `_finished` and the value are set while the worker has the mutex,
  and a user sees them after the worker has given it back. `FutureCorrect`.
* `ProcessInv`: a child is there while the object says so, and one that the object does
  not know was stopped when finish() gave it up. `ChildrenCorrect`.
* `TypesCorrect`: all variables of all parts have their types; among others the event
  loop holds no more messages than were sent (`MessagesInv`), and a thread that is
  about to count a guard has less than it may (`GuardsInv`).

`HuginnProofs` is about the interpreter, for every number of frames, of nested
statements, of variables and of destructors of an object. None of its four safety
properties is inductive; `Inv` says which call may be inside which (`KindsInv`), that a
scope begins after the variables of the one around it (`PlacesInv`), that calls inside
a function have later frames (`OrderInv`), which frame is the current one unless
something failed (`CurrentInv`), which variables exist (`VariablesInv`), that a break
that destructors put aside has its loop (`JumpsInv`), that an exception put aside is the
one thrown last on its level unless a level further in is doomed (`ExceptionsInv`),
that frames are functions called (`CallsInv`), and that only the outermost destructor
puts an exit aside (`ExitInv`). There is a lemma for each action; those that end a
call share `PoppedKeeps` and `PoppedIsFinal`, those that begin destructors
`DestroyingKeeps`. `OrderCorrect` and `FailuresCorrect` follow; in `ServicesProofs`
`ProgramsCorrect` and `FailuresCorrect`. The hypothesis `Legal` excludes the three uses of
section 7 in which the code does lose an exception or an exit.

Only model-checked:

* every liveness property (`TasksFinish`, `WindupReturns`, `CallsAreDone`, `KilledPoolStops`,
  `WaitersGoOn`, `EventsAreHandled`, `StopsAreServed`): temporal reasoning
  under fairness and ENABLED are beyond the prover;
* `AlgorithmsAreRight`, `GrammarsAreObeyed`, and `ContentsAreKept` as to lists, trees and the
  log: what recursive definitions and folds compute for every input needs an induction over data that the prover cannot be given, and
  some of the modules have RECURSIVE operators;
* `ContentsAreKept` as to `HRing` and `HDeque`, and the types of the parts of `MCFoundations`
  that are not in `Foundations`, so far (section 9); the capacity of the buffer of
  HStreamInterface, a power of two.

## 7. Disagreements with the documentation, and uses that are left out

Six runs in which TLC finds a counterexample to what the repository says of the code;
`PROJECT.json` quotes the lines.

* `workflow_surplus_unit`: an interrupted worker leaves without taking the unit that
  schedule_windup() gave for it. After start() this unit makes pop_task() return an
  empty task, the worker leaves a RUNNING flow, and a later task is never executed,
  not even by CLOSE.
* `workflow_cancel_blocks`: cancel_task() waits for a unit under `_mutex`; a worker that
  has taken it waits for `_mutex`.
* `workflow_missed_stop`: async_stop() misses a task that is between pop_task() and
  `_task = t`; windup( ABORT ) or windup( INTERRUPT ) then waits for a permanent task.
* `async_interrupt`: stop requests of HAsyncCaller are anonymous while the pool stops one
  worker at a time; a runner whose worker goes on takes the request meant for
  another, and windup( INTERRUPT ) never returns.
* `deque_emptied_by_resize`: resize( 0 ) frees the last chunk and leaves `_start` in the
  middle of it; the next push_back() allocates none.
* `signal_without_handler`: stop() removes the handlers of a signal that run() has
  already got from sigwait().

Other uses in which the code does not do what its interface suggests are excluded by a
constant or a guard of the model, so that the properties hold for all the rest. Each
can be looked at by giving the constant its other value.

* Read/write lock: a thread that reads and takes a write guard is beside other readers. The
  M_ASSERT against it (`hthread.cxx:622`) is not there in a release build, which just counts
  the guard; in a debug build it throws. `ImplementsReadWriteLock` promises
  such a guard nothing (`Upgrade`).
* HScheduledAsyncCaller: call_in() adds the delay to the floored `::time()`
  (`hscheduledasynccaller.cxx:74`), so a call may be made up to a second early, although
  `hscheduledasynccaller.hxx:17-18` says "at precisely specified moment in time".
  `CalledOnTime` says that it is not before the second of its moment.
* HPipedChild: waitpid( WUNTRACED ) returns for a child that stopped (`hpipedchild.cxx:343`);
  finish() then records PAUSED, sets `_pid` to -1 (`:357-358`) and leaves the process, stopped
  and not waited for. `ChildIsAccountedFor` excepts an object whose type is PAUSED.
* HStreamInterface over a device that does not block: it takes a read of 0 as the end
  (`hstreaminterface.cxx:676-679`, `:699`). A message may then end in the middle, and the stream
  is called bad with input left, as with HZipStream when a piece that was read yields
  nothing yet (`hzipstream.cxx:167-213`). `MessagesEnd` and `BadIsAtTheEnd` say so: a message
  that ends with the input, and a bad stream, mean an end only if the device blocks.
* Threads: `_exceptionInfo._stacked` is never cleared, so an object that is spawned again
  throws the exception of an earlier run (`hthread.cxx:120`). start() of a work flow spawns
  workers without counting them busy (`hworkflow.cxx:238`), and `spawn( task )` does not set
  `_hasTask` (`:359-368`). `HScheduledAsyncCaller::_loop` is never set again after stop()
  (`hscheduledasynccaller.cxx:46`).
* `Assigns` (HSynchronizedStream): assignment to an HLock forgets what it had locked
  (`hthread.cxx:370`). `HMutex::unlock()` clears `_owner` at every level (`:319`), and
  HStreamInterface::flush() is not virtual and so not locked. `EndsMeet` (HTLS): a thread
  that ends while ~HTLS runs.
* `Reregister` (HIODispatcher): a callback that registers what another of the round
  unregistered. `AlarmMayBeEarly` (HPipedChild): SIGALRM before waitpid() is entered.
* Containers: `BeyondTheEnd` (HRing), `ResizedToNothing` (HDeque), `FromMembers` and `Cycles`
  (HPointer), and `MovesToOwnEnd` (HList): splice() of the first elements of a list to its
  own end breaks the links (`hlist.hxx:728`, `:762`).
* HStreamInterface (`IllUses`): reset() with unwritten output, unread() after a write,
  read_some() with something in the buffer, stopping at a first character that is a
  terminator, a device that writes less than it was given.
* HMemory (`Overwrites`): do_commit() past unread bytes (`hmemory.cxx:42`). Besides, do_write()
  returns only the last part when it wraps, and the assertion at `:25` is false when the
  ring was filled exactly.
* HLog (`IllLogs`): after a dropped line the level is not put back (`hlog.cxx:290`); at exit
  without rehash() the last line goes first (`:158`); rehash() or a change of level within
  a line; vformat() bypasses the buffer. do_is_valid() is negated (`:316`).
* Algorithms: `Repeated` (permutations with equal keys), `FullAtEnd` (stable_partition returns
  the end, `algorithm.hxx:760`).
* HNumber (`IllNumbers`): negative zeros of `%=` and of rounding; divide_by_leaf() reads
  stale leafs behind the number (`hnumber.cxx:1067`, `hchunk.cxx:65`); a rounded quotient
  with zeros at its end is called exact, and a rounded number divided by one leaf
  without a remainder becomes exact. A number that is its own operand (`n -= n`, `n /= n`)
  is left out: the result is wrong (`:961`, `:1121`).
* ExecutingParser (`IllUses`): steps left under a look-ahead, a rule used twice in a row,
  and an optional recursion, of which the search for endless recursion is wrong
  (`executingparser.cxx:1683-1704`, `:1167`, `:1576`).
* Huginn (`IllUses`): an expression of throw that fails (`throw.cxx:30`), a try entered while an
  exception is on its way (`trycatch.cxx:61`), an exit in a destructor
  (`operatingsystem.cxx:202`). Destructors of base classes run after an uncaught
  exception of the derived one, contrary to `frame.cxx:77-88`.

## 8. What is not modelled

The library has 725 files, most of it outside of what a checker reaches; the models
stand for about one line in twenty of it.

* Files without state to model: `hcall.hxx`, `trait.hxx` and other templates; strings,
  formats, XML, JSON, YAML; the Huginn compiler and library; the drivers; hconsole and
  hdata; build files. `PROJECT.json` gives a reason for each component.
* M_ASSERT is compiled out of release builds; the models follow the code without
  it and state the important ones as invariants. M_ENSURE, which throws, is a
  guard where it can be false in a legal use and is left out where it only
  checks the return code of a system call. The uses that an M_ASSERT rejects and a release
  build goes on with are modelled (the upgrade of a read lock) or named in section 7
  (unread() after a write).
* Failure of memory allocation, and a task whose call throws (which ends the process).
* One controller and one canceller for a work flow: start(), windup() and the
  destructor are called by the owner. Two threads in windup() are stopped by the
  check of `_state` in the code.
* `can_join()`, names and attributes of threads, swap() and copies of containers,
  which change nothing else.
* The race on `_isKilled_`, a plain flag, beyond that it may be set between any
  two steps. Reads and writes of single members are taken as atomic; where the
  code accesses one without a lock the access is a step of its own.
* What a component marked `partly` leaves out is in its note in `PROJECT.json`.

## 9. Plan

1. Proofs about containers, as parts of `Foundations`: `ContentsAreKept` of `HRing` and
   `HDeque`, and their types.
2. `HHashContainer`, `HTree` and `HMatrix`; a task's call that throws.
3. `HRecordSet` over an abstract driver.

## 10. Running

    tlc -config MCServices.cfg MCServices              # one configuration
    tlapm HWorkFlowProofs.tla                          # the proofs of a module

Every configuration ends within minutes on two cores; so do the proofs of each module
except those of `HuginnProofs` and `ServicesProofs`, which take longer.
`CHECK_DEADLOCK FALSE` is set where the system may come to rest for good (all calls
made, a stopped flow, a destroyed object, or the deadlock the run is about); each
configuration says which.
