# A TLA+ verification of the STL

The repository is the Microsoft implementation of the C++ standard library:
headers under `stl/inc`, separately compiled code under `stl/src`, and the
tools of the project under `tools`. This development models the parts in which
something can go wrong that a test hardly reaches: the synchronization library
of C++20 and the older locks, futures and stop tokens; the library's own
bookkeeping (thread exit, tasks, locales, exceptions, streams); the calls of
the file system, made next to other programs; the tools that run commands in
parallel; and the conversions and arithmetic whose rare cases are one input in
billions. TLC checks the models on small instances and TLAPS proves the
foundations for every instance.

Paths are relative to `stl/` unless they begin with `tools/`.

## 1. Parts and how they interact

| Part | Source | Modules |
|---|---|---|
| Wait functions and their table | `src/atomic_wait.cpp`, `inc/atomic` | `AtomicWait`, `AtomicWaitClient`, contract `AddressWait` |
| API level | `src/atomic_wait.cpp` | `WaitFunctions` |
| Semaphores, latch, barrier | `inc/semaphore`, `inc/latch`, `inc/barrier` | `Semaphore`, `BinarySemaphore`, `Latch`, `SyncObjects`, `Barrier` |
| `_Locked_pointer` | `inc/atomic` | `LockedPointer`, contract `PointerLock` |
| Stop tokens | `inc/stop_token` | `StopToken` |
| Mutexes, condition variables | `src/mutex.cpp`, `src/cond.cpp`, `src/primitives.hpp`, `inc/mutex`, `inc/shared_mutex`, `inc/condition_variable` | `Mutex`, `TimedMutex`, `SharedTimedMutex`, `MultiLock`, side by side in `Mutexes`; `ConditionVariableAny` |
| Futures, thread start and exit, tasks | `inc/future`, `src/xnotify.cpp`, `src/cthread.cpp`, `src/taskscheduler.cpp` | `Future`, `ThreadExit`, `TaskScheduler` |
| The library's own locks, standard streams | `src/xlock.cpp`, `src/xmtx.cpp`, `src/iosptrs.cpp`, `src/cout.cpp` and the like | `LibraryLocks`, `StandardStreams` |
| Synchronized streams | `inc/syncstream`, `src/syncstream.cpp` | `SyncStream` |
| Exceptions, locales | `src/excptptr.cpp`, `src/locale*.cpp`, `inc/xlocale` | `ExceptionPtr`, `Locale` |
| Files | `src/filesystem.cpp`, `src/fiopen.cpp` | `FileOperations`, `FileOpen` |
| Tools | `tools/parallelize`, `tools/inc/stljobs.h`, `tools/validate`, `tools/jobify` | `Tools`, `OutputPipe` |
| Reading and printing numbers | `src/xsto*.cpp`, `src/xxstod.hpp`, `inc/xcharconv_ryu.h` | `Parsing`, `Ryu` |
| Arithmetic | `src/xd*.cpp`, `src/xfd*.cpp`, `src/xxxprec.hpp`, `src/multprec.cpp`, `inc/xbit_ops.h` | `Arithmetic` |
| Text in a locale | `src/xstrcoll.cpp`, `src/xmbtowc.cpp` and the like | `LocaleText` |
| Vectorised algorithms | `src/vector_algorithms.cpp` | `VectorAlgorithms` |

`PROJECT.json` lists every component with its files, and those not modelled.

Semaphore, latch, barrier and `_Locked_pointer` block through the wait
functions, and their modules extend `AtomicWait`. `SyncObjects` composes a
latch and a semaphore in one entry of the wait table. `stop_token` takes a
`_Locked_pointer` around its list; `StopToken` uses it as `PointerLock`
promises, and `LockedPointer` is proved to keep that promise. The other
modules are independent of each other, and treat what lies below them
(mutexes in `TimedMutex` and `Future`, the stop state in
`ConditionVariableAny`, the system everywhere) as single steps of what it
guarantees.

## 2. How state and actions correspond to the code

`pc[t]` says where thread `t` is; a label stands for the code between two
accesses to shared state. A critical section that cannot block is one step
that needs its lock free. Atomic accesses are sequentially consistent, except
that `WaitFunctions` keeps apart the stores that publish the pointers and the
level. A deadline is "none", "ahead" or "passed", and passes at any moment.

- `AtomicWait`: `mem` holds the objects waited on. One table entry is modelled
  and every address hashes to it, the case in which objects disturb each
  other; `Lock` and `Wait_list` are its lock and list, where a context is
  named by its thread. `Wait_enter`, `Wait_compare`, `Wait_sleep` and
  `Wait_relock` are the steps of `__std_atomic_wait_direct`. A notify runs
  under the entry lock and is one step. A sleep may end before its deadline:
  the code cuts waits at ten days.
- `StopToken` keeps a stack of frames for each thread, so that a callback may
  call `request_stop`, register or destroy callbacks.
- `Mutex` has both implementations of the critical section (`win7`: SRWLOCK;
  `vista`: a CRITICAL_SECTION, which lets its owner in again) and the mutex
  types the library uses. `held` is what the
  program knows; `thread_id` and `count` are the fields of the code.
- `ConditionVariableAny` has waiters with one kind of wait each, a thread that
  makes the predicate true and notifies, and one that requests a stop, each
  with the outer lock held or without it.
- `Future` has one associated state, a provider of one of four kinds, and
  threads that wait; the provider may be abandoned, or set at thread exit.
- `FileOperations` is a directory of a few names that refer to objects; a call
  is a sequence of system calls, and other programs change the directory
  between any two of them. `seen` records what was true during the call.
- `ExceptionPtr`, `Locale`, `SyncStream` and `LibraryLocks` keep the objects
  with their counts next to the references that exist.
- `Tools` (the parallelizer) and `OutputPipe` are the callbacks of the thread pool and of
  overlapped reads against the thread that starts and stops them.
- The algorithms are operators. A constant of the machine (bits of a word,
  digits of a limb, a limit of a buffer) is scaled down and named at the top
  of its module, so that TLC reaches every case; the multibyte conversions in
  `LocaleText` and the vector lengths in `VectorAlgorithms` have their real
  sizes. `MCLibrary` states for each what it should compute, and steps
  through the inputs. The tables of `Ryu` are the formulas they were generated
  from; computed with the real widths, these give every row of `POW10_SPLIT`
  (1224), `POW10_SPLIT_2` (3133), `DOUBLE_POW5_INV_SPLIT`,
  `DOUBLE_POW5_SPLIT` and the adjustment tables. `MIN_BLOCK_2` differs at the
  indices 22, 37 and 65 only, by one, which changes no digit.

Definitions called "Mutant of X" are X with a plausible mistake; each confirms
that a property fails when the code is wrong in that way.

## 3. Runs

Three of the `MC` modules are unions: `MCLocks`, `MCAsynchrony` and
`MCLibrary` hold the variables of several independent components, and a
variable `part`, chosen in the initial state, says which of them runs. The
others keep their initial values (one fixed choice where a component has
several), so each behaviour is one of the component alone. No component is
weakened or slowed by the others, and a property of such a module is the
conjunction of what its components promise.

| Run | Instance | Distinct states | Shows |
|---|---|---|---|
| `wait_table` | fallback, 3 threads, 2 objects, 2 values, 4 operations, 1 spurious wake | 466618 | `EntryIntegrity`, `NoMissedWake`, `ChangedWaitReturns`; refinement `ContractSpec` |
| `semaphore` | WaitOnAddress, 3 threads, `max()` = 2, 4 calls, 1 spurious wake | 277117 | `TypeOK`, `WaitingCounted`, `EnoughWoken`, `EveryCallReturns` |
| `sync_objects` | fallback, 3 threads, a latch of 2 and a semaphore in one entry, 3 calls | 87948 | `NobodyStranded`, `EveryCallReturns` |
| `barrier` | fallback, 3 threads arriving for themselves, 4 arrivals | 225921 | `OneCompletion`, `ExpectsTheRest`, `NoEarlyReturn`, `WaitReturns` |
| `locks` | 3 threads (2 for `Mutex` and `lock`); 4 calls on the pointer, 5 on the mutex, 4 on the timed, 3 on the shared one, 3 of `lock` on 3 locks in all orders; 2 pointers, at most 2 readers and 2 recursive locks | 278743 | `Exclusive`, `NobodyStranded`, `MutexesExclusive`, `WaitersHandedOn`, `AllOrNothing`, `CallsReturn`; refinement `ContractSpec` |
| `asynchrony` | 2 threads, 3 callbacks, 5 calls on a stop state; 2 waiters with every kind of wait, 1 spurious wake; every kind of provider, 1 call of a getter | 190045 | `ListIntegrity`, `EveryoneCalled`, `CountsOwners`, `OneResult`, `DestroyWaits`, `EveryCallReturns` |
| `library` | 13 parts, below | 1048058 | one property for each kind of promise, below |
| `api_level_forced` | 2 threads | | violates `LevelIsFinal`, finding B |
| `semaphore_table` | fallback, 3 threads, 4 calls | | violates `EnoughWoken`, finding A |
| `barrier_others` | 2 threads arriving also for others, 4 arrivals | | violates `WaitReturns`, finding C |
| `cv_any` | 2 waiters | | violates `TimedWaitsReturn`, finding D |
| `exception_image` | 1 thread, 2 images | | violates `HoldsThrown`, finding E |

The properties of `library`:

| Property | Parts | Says |
|---|---|---|
| `LevelSettled` | API level (3 threads) | racing detections agree, and the pointers of their level are stored |
| `ExitsAnnounced` | thread exit (2 threads, blocks of 2, at most 2) | the table holds what was registered, once; a new thread has copied its start data before the creator goes on |
| `ExitWaits` | tasks (3) | a program that links the library statically does not end while a task that has begun runs |
| `ReferencesCounted` | exceptions, locales, synchronized streams, library locks | what is counted lives exactly as long as it is referred to, but for the mutex of a synchronized stream whose constructor threw, whose count is never given back |
| `FilesTrue` | file operations, opening | a call reports what it did or what was true during it; a stream opens, makes and empties only the files its mode says, whatever other programs do between its calls |
| `CommandsRun` | parallelizer | every command runs once, and what still runs at the end is killed with its job |
| `OutputComplete` | pipe, standard streams, synchronized streams | the child's output is read whole; the standard streams are flushed; a character stays with one synchronized stream around the buffer it was written for, and emissions to a buffer do not mix |
| `EmittedOnce` | synchronized streams | a character is given up only when its buffer has got it, has taken only a part of the emission, or threw, and is handed on again only after an exception |
| `NumbersAgree`, `ArithmeticExact`, `VectorsAgree`, `TextsAgree` | algorithms | each algorithm agrees with its reference definition |

**Bounds.** `MaxOps`, `MaxArrivals`, `MaxBegun` and `MaxCalls` bound the calls
of all threads together,
`MaxSpurious` the spurious wakes; the other constants bound what a behaviour
makes (`MaxThrows`, `MaxImps`, `MaxMade`, `MaxPending`, `MaxWrites`,
`MaxBlocks`, `MaxObjects`), what other programs do (`MaxOthers`), the depth of
nesting (`MaxDepth`), or stand for a limit of the code (`Nitems`, `MaxLocked`,
`Max_readers`, `MaxPath`, `Nats`). Three threads are two waiters and a
notifier, the smallest number in which a wake can reach the wrong waiter or
only one of two. Four calls give two waits and two notifying calls; the three
of `sync_objects` two waiters of either object and a call that must find its
own. Four arrivals of three threads complete one phase and begin the next.
Four locks of `_Locked_pointer` cover a holder, two waiters and the holder
coming back between a notify and a waiter's return. Five calls on a stop state
register callbacks, request a stop, and destroy or re-enter from a callback.
The bounds of the runs are no limit of the proofs (section 4).
In `SyncStream` one thread has two objects, which it moves and swaps
(`Movers`), and the other one; two pending characters are the least that an
emission can split.
Three mutexes are the least for which `lock` has one before and one after the
one it blocks on. Limits of the code are set so low that they are met: tables
and lists fill up, paths are too long, counts reach their maximum. A spurious
wake is allowed where a loop calls the wait function directly; `wait_table`
covers the loop of `atomic::wait` for the others.

**Fairness.** Each thread inside a library call is scheduled: weak fairness of
the disjunction of its steps. Nothing obliges a program to make another call,
or a wake to be spurious. SRWLOCK is not fair, and weak fairness does not make
it so; with a bounded number of calls the lock cannot be taken by others for
ever. Where timed waits occur the clock moves: weak fairness of
`Deadline_passes`. Who holds a timed mutex unlocks it in the end, which the
liveness of `lock` needs (`Unlocks` in `MCLocks`); a timed lock returns
without that. A completion function of a barrier, a stop callback and a
deferred function return. In `ConditionVariableAny` nobody has to make the
predicate true or to request a stop. `EveryCallReturns` of `asynchrony`
excepts the waits that are stuck in the way of finding D, and futures whose
provider is held for ever.

**Deadlock** is checked in the runs of the wait functions and of the objects
over them, where `Terminating` steps name the cases in which everyone may wait
for ever. It is switched off for the unions, and for `cv_any` and
`exception_image`: there a component may stop when its bounded calls are used
up, and liveness is stated by properties.

## 4. Proofs

The theorems hold for every set of threads, addresses, values, pointers or
mutexes, both API levels and all bounds. They rest on the named `ASSUME`s of
the modules (`NoThread` is not a thread, the level is one of the two, the
address set is not empty, the bounds are natural numbers, ...), which TLC
evaluates, and on the hypotheses in the statement of a theorem: a finite set of
threads where threads are counted, the level where a theorem is about one, and
the bounds of a module that runs only instantiate.

- `AtomicWaitProofs!TypeCorrect`, `EntryCorrect`: `TypeOK`, then
  `EntryIntegrity`. `EntryIntegrity` is inductive only as a conjunction: that
  the list holds exactly the waiting threads needs that the lock has the owner
  the labels say, and that WaitOnAddress leaves the table alone. The lemmas
  `LinkList` and `UnlinkList` say what linking and unlinking do to the list.
- `AtomicWaitProofs!NoWakeIsLost`: `NoMissedWake`, inductive relative to the
  two above. The case that matters is a store while a thread is between its
  comparison and its sleep: the notify that follows needs the entry lock, which
  that thread holds until it sleeps, and then finds it in the list.
- `AtomicWaitProofs!ImplementsContract`: every step of the clients is a
  step of `AddressWait` or a stutter, where a call is blocked from the
  comparison that found the value unchanged until its sleep ends.
- `LockedPointerProofs!MutualExclusion`, `ImplementsPointerLock`: the lemma
  `StepKinds` sorts every step into four kinds (leaves word and owner alone,
  takes the lock, asks for a notify, lets go); `Exclusive` and the refinement
  follow from the kinds alone. The refinement justifies the one-step critical
  sections of `StopToken`.
- `LockedPointerProofs!WaitersNotified`: `NobodyStranded`: next to a sleeping
  thread the bits say that a notify is needed, or an unlock has still to
  notify. The invariant `WaitsOnNeeded` adds that whoever is in the wait
  function compares with "notify needed", which is why no holder can clear the
  bits between the comparison and the sleep, and that at the fallback every
  waiter is linked, which is why notify_all leaves nobody behind.
- `SyncProofs!CountInRange`, `WaitersCounted`: the counter stays within
  0 and `max()`, and `_Waiting` is the number of threads that have announced
  their wait, if the set of threads is finite. The invariant is `Typed`,
  `Positive` (who is about to take a unit expects one, who is about to notify
  added some) and `WaitingCounted`; the cardinality moves by one exactly where
  a thread announces or withdraws.
- `SyncProofs!EnoughAreWoken`: `EnoughWoken` over WaitOnAddress; over the
  fallback it is false (finding A). `Promised` says that while somebody sleeps
  and no notify_all is under way, every unit of the count is promised: to a
  thread about to load the counter or take a unit, or to a notify_one that a
  release has still to make. A release may choose single wakes only because
  `_Waiting` is exact.
- `SyncProofs!OneCompletes`, `RestExpected`, `ReturnsAfterPhase`:
  `OneCompletion`, `ExpectsTheRest` and the action property `NoEarlyReturn`,
  from one invariant, `BarrierInv`: the low bit of `_Current` is the parity of
  the phase and of the tokens given out in it; a thread in the middle of
  `arrive_and_drop` keeps its place in this phase and so holds it open; one
  thread completes, with the count at zero and `_Total` unchanged; and without
  arrivals for others the counts are the numbers of the threads that are left.
- `AtomicWaitProofs!LevelsSettle`: `LevelSettled`. The strengthening says that a
  thread about to publish has stored the pointers, and that without a forced
  fallback there is only one level to end with.
- `SharedLockProofs!ReadersOrOneWriter`: `ReadersOrWriter` and
  `NobodyStranded` of `shared_timed_mutex`. The invariant adds that `_Writing`
  is set exactly while one thread holds the lock or drains the readers, that
  `_Readers` is the number of the threads that hold it shared, and which
  notification, decided under the mutex and given after it, is still to come.
- `SharedLockProofs!LocksAllOrNothing`: `AllOrNothing` for any number of
  mutexes and any orders. The invariant `Accounts(t)` gives the set of mutexes
  a thread has at each label: the ones below `next` and the one it blocked on
  while it tries, exactly the ones still to be unlocked while it backs out.
- `MutexesProofs!MutexesExclude`, `WaitersAreHandedOn`, `LocksTaken`:
  `MutexesExclusive`, `WaitersHandedOn` and `AllOrNothing` of `Mutexes`, the
  formulas the run `locks` checks. `MutexInv` says which labels of `Mutex` are
  inside the critical section, and that `cs = t` exactly when `t` holds the
  mutex or is inside: `mtx_do_lock` reads `thread_id` outside the critical
  section, and can read its own id there only as the owner. `TimedInv` says
  who may hold the timed mutex at each label, and that a waiter not yet woken
  is asleep; that somebody is on the way to a free mutex with sleepers is
  inductive next to it: a woken thread takes the lock or finds it taken, one that
  gave up included. The shared mutex and `lock` are the modules of
  `SharedLockProofs`, whose theorems are taken over through an instance of it.
- `StopTokenProofs!ListSound`, `EveryoneIsCalled`, `OwnersCounted`,
  `DestructorsWait`: the three invariants of `StopToken` and the action
  property `DestroyWaits`, for any finite sets of threads and callbacks and
  functions that call back to any depth, from one invariant, `IInv`.
  `Stacked` says how the calls of a thread can be nested and which two calls
  exclude each other (`Apart`): one request runs its loop, a callback is
  constructed or destroyed by one call, and a destructor that has found its
  callback running elsewhere stays until that call has returned. `FrameOK`
  gives what a call in progress relies on, `Linked` the list that the pointers
  spell, `ObjectOK` that a callback not yet called is in the list, taken from
  it to be called, or has nobody left to request a stop, and `Counted` the two
  counts. The three modules follow the code: `StopTokenRequest` has the stack,
  the list and the loop of `_Request_stop`; `StopTokenCallbacks` has
  `_Do_attach` and `_Detach`; `StopTokenProofs` has tokens, sources and the
  theorems. The invariant was checked by TLC on a small instance
  before it was proved.

**Only model-checked:** liveness (fairness is outside the prover); the
invariants of `SyncObjects`, `ConditionVariableAny` and `Future`, and of the
parts of `MCLibrary` other than the level, whose inductive strengthenings have
not been worked out; and what the recursive algorithms
compute, which needs induction over data.

## 5. Findings

- **A** (`semaphore_table`, `src/atomic_wait.cpp:270`). Two
  units released, by two calls as in the trace or by `release(2)`, are two
  calls of `notify_one`. In the fallback a woken thread stays linked until it has
  retaken the entry lock, and `notify_one` stops at the first linked context of
  the address: both calls may hit the same thread, and another sleeps next to a
  positive count. `inc/semaphore:81-83`: "Errors towards waking fewer must be
  avoided, as they are correctness issues." The `AddressWait` contract
  therefore promises of `notify_one` only what both levels give.
- **B** (`api_level_forced`, `src/atomic_wait.cpp:157`). The store that ends a
  detection overwrites a level forced meanwhile. `inc/xatomic_wait.h:35-36`:
  "it can no longer be changed."
- **C** (`barrier_others`, `inc/barrier:125`). If threads arrive for others,
  two phases may pass while a waiter is inside `wait`; its one bit then says
  that nothing happened. `inc/barrier:179-181`: "we can track which phase is
  the current phase using 1 bit". With one arrival per thread and phase (run
  `barrier`) this cannot happen.
- **D** (`cv_any`, `inc/condition_variable:210`). An interruptible `wait_until`
  that expires leaves its loop by `break` with the inner mutex locked, and
  destroys its `_Unlock_guard`, which locks the outer lock, before the guard of
  the inner one. A thread that notifies with the outer lock held waits for the
  inner one: both wait for ever.
- **E** (`exception_image`, `src/excptptr.cpp:407`). The exception thrown by
  copying an exception object is copied with the image base of the first one,
  although its type was found with its own.

Met while modelling, and stated in the models as the code has it:

- `src/taskscheduler.cpp:25-27` speaks of outstanding tasks, but a task counts
  itself when its callback begins (line 119): the exit does not wait for one
  that is scheduled and has not begun. `ExitWaits` is about those that have.
- `tools/inc/stljobs.h`: `stop()` of the pipe against a callback that is
  starting the next read; the outcome depends on which one finds the flag. If
  `stop()` clears it between the test of the callback (line 387) and the
  assertion in `read_some` (line 403), a debug build ends there.
- `src/locale.cpp:161` says "alter selected categories", and line 168 sets
  `LC_ALL` whatever the categories are; `_Getctype`
  (`src/_tolower.cpp:114`) takes the name of `LC_COLLATE`; a locale made from
  two others takes the whole category mask and name of the second
  (`inc/xlocale:271-285`).
- `src/xstrxfrm.cpp:53` announces INT_MAX for an error, line 59 returns
  `size_t(-1)`. `src/xmbtowc.cpp` accepts overlong UTF-8.
- `inc/syncstream:90-100`: if the initialization in the constructor throws, the
  count of the mutex stays taken; 195-198: `overflow` does not free the old
  block; an `emit` that throws leaves its data to be emitted again.
- `src/fiopen.cpp:51-53` says "file must exist" of `_Nocreate` and adds `in` to
  the mode; together with `trunc` or `app` such a mode still makes the file;
  70-80: the test of
  `_Noreplace` and the open are two calls. `OpensAsAsked` excepts both.
- `src/multprec.cpp:102`: of a product that is zero `limit` reads the words
  before the array until one is not zero, and `m > 0`, which line 118 tells
  the analysis to assume, does not hold. The result is 0 whatever they are. The add-back of
  line 172 is never taken for a divisor of two words, the only ones there are.
- `src/xdint.cpp:21` takes the exponent of a denormal for 0 where it is 1: one
  bit more than asked for is dropped.

## 6. Assumptions and what is not modelled

- Windows (SRWLOCK, CONDITION_VARIABLE, CRITICAL_SECTION, WaitOnAddress, the
  thread pool, jobs, files, code pages) is modelled from its use and marked
  external in the map.
- Preconditions of the standard are kept by the modelled programs: counts stay
  within limits, a mutex is unlocked by its owner, a callback is destroyed once
  and after its construction, a `stop_source` outlives its own `request_stop`.
- Null stop states, moves that change no shared state, and the variants of the
  code for `unsigned short` streams and `/clr:pure` are left out.
- `atomic_wait.cpp`: the tick arithmetic of deadlines (line 317: the sum may
  wrap), `__std_atomic_get_mutex` and 16-byte objects. `inc/atomic`: padding
  bits and the lock-based storage.
- `src/filesystem.cpp`: the directory iterator (185-225), code page functions
  (227-304), full and current paths, and the buffers of reparse data (438-470).
- `src/xxxprec.hpp`: infinities and NaNs (120-129, 140-142, 230-241),
  `_Xp_invx` and `_Xp_sqrtx`, which divide. `src/xxxdtent.hpp`: exponents have
  no bounds, so the range error (82-87) does not occur, and the factor 1/10 has
  four words of three bits.
- `Ryu`: one of the two variants of each wide multiplication, special values
  and the layout of exponents.
- `src/mutex.cpp`: the kind of critical section is fixed in a behaviour; it can
  be changed by a test hook between making a mutex and a condition variable.

Not modelled at all, with the reason in `PROJECT.json`: containers, strings,
algorithms, ranges, vocabulary types and type traits (sequential templates over
arbitrary types, with no state that several actors share); `regex`, formatting
and stream buffers (sequential, and their subject is text); `chrono`, special
functions and random distributions (error bounds over the reals, out of reach
of both tools); thin wrappers of one system call (`shared_mutex`, `call_once`,
`thread`, the old filesystem); start-up, error and PPL glue. Three parts have
interleavings of their own and would come next: the counts of
`atomic<shared_ptr>` over `PointerLock`, the work-stealing deque of
`inc/execution`, and the pools of `inc/memory_resource`.
