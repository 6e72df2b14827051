# TLA+ models of the course solutions

The repository holds the solutions of a C++ course, one small component per
directory of `src/tasks`. This directory holds TLA+ models of those of them that
keep state, share it between threads or processes, or follow a protocol, or
compute something that is easy to get wrong, with TLC configurations that
model-check them and TLAPS proofs about most of them. Paths below are relative
to `src/tasks`.

To check a module: `tlc -config <cfg> <module>.tla`; to check its proofs:
`tlapm <module>Proofs.tla`. `PROJECT.json` lists the runs, which definition
models which lines, the hazards and the properties that cover them, the
mutations that show that a property can fail, the findings and the theorems.

## 1. Inventory

The components do not know of each other; within a directory they interact as
the third column says.

| component | state it keeps | operations and interaction | what is hard | what makes it correct |
|---|---|---|---|---|
| `buffered-channel` | a deque, a closed flag, two condition variables under one mutex | `Send`, `Recv`, `Close` from any thread; `test.cpp` runs senders, receivers and a closing thread on it | lost wakeups, Close racing the waits, FIFO across threads | no sleeper is forgotten; a FIFO channel that drains after Close; calls that can be answered are |
| `rw-spinlock` | one atomic int | `LockRead`, `UnlockRead`, `LockWrite`, `UnlockWrite`; `run.cpp` loops over them | a stale compare-exchange, overflow, livelock | the int encodes the holders; a writer is alone; loops end |
| `shm-matrix`: thread pool | a queue, `done`, one mutex, one condition variable | `submit`, the workers' loop, the destructor | notifications after the mutex is released, tasks left at shutdown | no task beside sleeping workers; nothing dropped; the destructor returns |
| `shm-matrix`: matrix power | four matrices, an atomic counter | `mat_pow` calls `mat_multiply`, which submits tasks to the pool and spins | tasks with references into the caller's stack, rounded partitions | `A^n`, whatever the workers do when |
| `shm-matrix`: protocol | a flag and data in shared memory | `main.cpp` polls, `tester.py` writes requests and polls | two processes on one region without a lock | each side reads what the other has finished writing; every request is answered |
| `reduce` | a partition of a range, one partial result per thread | `Reduce` spawns and joins threads | block boundaries, the number of threads | the left fold of the whole range |
| `deque` | a vector of blocks, the place of the first element, the place behind the last, the size | the calls of a deque | indices kept twice, blocks freed in use | a sequence |
| `intrusive-list` | hooks inside the elements | linking, unlinking, moves, a stepwise `Clear` | dangling neighbours, moved dummies | a sequence; rings |
| `cow-vector` | shared strings with a counter | the calls of a vector | writes seen through another vector, counters | a sequence of one's own |
| `small-vector` | three pointers, room inside the object | the calls of a vector | object lifetimes, storage that changes hands | a sequence; every object destroyed once |
| `static_allocator` | a stack of free slots, flags | `New`, `Delete`, the destructor | slots lost or given twice | three accounts that agree |
| `set_allocator` | an offset into a pool | `allocate`; copied and rebound by `std::set` | every copy has an offset of its own | disjoint memory |
| `tic-tac-toe` | the strategy's board, the runner's board | `MakeMove`, `OpponentMove`, the runner's loop | minimax; two boards that must agree | never loses; the exit code says who won |
| `bgrep` | a descriptor, a mapping, the iterators of a traversal | `main` parses, `Grep` walks, `GrepImpl` maps and searches | every system call may fail, in the middle of a traversal; three search algorithms | the reports a reader of the readme expects; nothing left open |
| `trades` | an index of running sums | `ReadAll` from a stream, `TradeIndex` from trades | streams that fail, sums that overflow | whole records, in order; the linear sum |
| `itertools` | iterators | `Range`, `Group`, `Zip` in a for loop | ends that are stepped over, runs, the shorter of two | the body sees what it should |
| `fuzzy-search`, `static-map` | tables built once | a lookup | boundaries of buckets and halves, equal keys | equal to a naive definition |
| `sse-search`, `avx-vector`, `avx-matmul` | none | loops of vector instructions | what crosses a chunk, tails, order of sums | equal to a naive definition |
| `short_view`, `byte_order`, `reverse_vector` | packed or patched pointers | arithmetic on them | sign extension, even and odd lengths | the view, the bytes, the vector |
| `fixstr-utils`, `tuple-utils` | none | programs that the compiler runs | places counted by hand | equal to a naive definition |
| `clever-set`, `concepts`, `fold`, `multiplication`, `util`, `abort`, benchmarks, `orderbook` | none | types, one-liners, printing, measuring, a task of which only tests are here | - | - |

`contrib`, `cmake` and `tutorials` are third-party code (test and benchmark
libraries, by far most of the lines of the repository), build scripts and
lecture notes.

## 2. The modules

Conventions. Names are the code's where TLA+ allows it. An operator named
`X_Y` is a slip `Y` that a programmer could have made in `X`; no specification
uses it, it is there to show that a property notices it. An `ASSUME` says what
the constants must satisfy. Words like `SizeBound` and `QueueBound` name the
bounds that make a state space finite.

### Channel

* `Channel`: what a channel promises. A FIFO `queue`, `closed`, and one
  pending call per thread that takes effect in one step. `Progress` says which
  calls must be answered.
* `BufferedChannel`: `buffered_channel.h`. `channel`, `is_closed` and the sets
  of sleepers of both condition variables; `pc[t]` is where a thread is. What
  a thread does between two releases of the mutex is one step, since everybody
  else touches the same variables under the mutex only. The two broadcasts of
  `Close` come after the mutex and are steps of their own. A notification
  moves one sleeper, any one, out of the set; the woken thread looks at its
  predicate when it next gets the mutex, and others may come first. Spurious
  wakeups are steps. `size() < capacity` compares `size_t` with `int`, and
  `HasRoom` does what the conversion does.
* `ImplementsChannel`, `ChannelProgress`: `BufferedChannel` implements
  `Channel` with `queue <- channel`, `closed <- is_closed` and the pending call
  read off `pc`. A call takes effect in the critical section that completes it.
* `ChannelTest`: `RunTest` of `test.cpp`, with its lambdas, atomics, vectors
  and assertions, on top of `BufferedChannel`.

### Readers-writer lock

* `RWSpinLock`: `rw_spinlock.h`; every atomic operation is a step, so that the
  value `LockRead` loaded may be stale at its compare-exchange.
* `RWSpinLockRun`: `run.cpp`'s loops, with the writers' check that throws
  "invalid counter". The increment and the decrement of that program's
  `counter` are steps of their own, so a second writer inside would be seen.

### shm-matrix

* `ThreadPool`: `threadpool.cpp`. The owner submits in two steps and destroys
  in three, because the notifications come after the mutex. `Next` has an
  owner that submits anything at any time.
* `MatPow`: `matutil.cpp`, extending `ThreadPool` with the real owner and the
  real tasks. All matrices are powers of the input `A`, computed row by row:
  a matrix is a function from rows to exponents, and a row computed from a
  mixture is `Mixed`. `mats[left]` is `mat1`.
* `ShmMatrix`: `main.cpp` and `tester.py`, two processes on one region; `header`
  is the `n` and the `m` in it. The power itself is one step here.
* `MatUtil`: the number of threads of a `mat_pow`, which `MatPow` and
  `ShmMatrix` share: the one divides its rows by it, the other dies if it is 0.
* `MCShm`: one of three programs, chosen at the start: the pool in the hands of
  any program, in those of `mat_pow`, or the two processes. The parts that a
  program does not have stand still, so that the state spaces add up; the
  specification has the fairness of all three.

### Reduce

* `Reduce`: `reduce.h`, caller and workers. `func` is concatenation of
  sequences: it is associative and forgets nothing, so a result that is right
  for it is right for every associative `func`. It runs in `Algorithms`.

### Tic-tac-toe

* `TicTacToe`: the loop of `runner.cpp`, one action per call that it makes to a
  library, and `PlayerStrategy`. `ours` says which players are
  `PlayerStrategy`; the others answer with any cell, filled ones included, with
  one outside, or throw. A board is a function on nine cells. The recursion of
  `Minimax` is a function on all boards, made by a fold from the full boards to
  the empty one: the value of a board needs those of the boards with one cell
  less free. The depth that the code subtracts at a win is taken off one step
  at a time (`Deeper`), which gives the same numbers.

### Algorithms

Two kinds. Where the order of steps or a failure between them matters, a module
has variables and actions; where a function is called and returns, a module is
operators, and a property compares them with a definition that knows nothing of
the algorithm.

* `Grep`: `bgrep`. A step is one system call or one turn of a loop. `entry` says
  where the traversal is, `open_files` and `mappings` are what the process
  holds, `pos` is where the search stands in the file. An entry of the file
  system says which call fails for it (`open`, `fstat`, `mmap`, `munmap`), or
  that the iterator throws on it. A token of the pattern has a size, a `value`,
  which is what `std::stoi` makes of it, and `means`, the bytes that the readme
  takes it for. The program acts on the first two (`Valid`, `Parsed`); the
  properties are about the third (`Incorrect`, `Meant`), so that what
  `parse_pattern` takes for a pattern is not the measure of itself. The two
  hand-written loops advance by one byte a turn; the third asks
  `std::boyer_moore_searcher` for the next find, which is the standard's: the
  first match from here on, or the end.
* `Itertools`: `Range`, `Group`, `Zip` through `begin`, `end`, `!=`, `*`, `++`,
  with the wrapping `size_t` of `Range`.
* `Trades`: `ReadAll` over `istream::read` with its state bits; `TradeIndex`
  with running sums of `int64_t`. An overflow is undefined behaviour, and not a
  wrap-around: a product or a sum that does not fit is `Undefined`, and so is
  every sum after it and the answer of an index that was built with one. The
  sanitizer build of the repository (`cmake/BuildFlags.cmake:15`) ends there.
* `FuzzySearch`, `StaticMap`, `Simd`, `Views`, `CompileTime`: the functions.
  In `Views` a word is the set of its bits, so `&` and `|` are set operations;
  a `ReverseVector` moves the pointers of the vector, and its destructor moves
  them back (`Destroyed`).
  `Simd` models an instruction by what Intel's manual says of its lanes, on
  narrower vectors; a product there is symbolic, so that a sum tells which
  terms were added in which order. `StaticMap` allows every order that
  `std::sort` may leave equal keys in.
* `Algorithms`: one of these programs, `Reduce` included, chosen with its
  input at the start and run to its end. A program that is a function takes no
  step; `Inputs` says which functions there are, and their inputs.
* `MCAlgorithms`: the inputs of all of them, and the functions.

### Containers

* `Container`: every object stands for a sequence of its own; each call is an
  operator on these sequences.
* `Deque`, `IntrusiveList`, `COWVector`, `SmallVector`: the four containers
  with their pointers, blocks, hooks, counters and buffers. Each defines
  `Contents`, the sequences that its public calls let a caller see, and
  `XStep`: every call of the code is the call of the same name of `Container`
  on these sequences, with its result, and leaves every other object alone.
  That is the refinement `C!Init /\ [][XStep]_vars`. It is finer than
  refinement of a next-state relation, which would accept a `Clear` that acts
  like a legal `PopBack`.
* Heaps are functions from addresses to what lives there, so that leaks, double
  deletes and shared blocks are visible. `Deque` ends in `undefined` on an
  access that C++ leaves undefined; `SmallVector` records it in `misused`; in
  `IntrusiveList` a step through `nullptr` does not exist and a broken list
  shows in `Contents`, or in a `Clear` that goes on for ever.
* `StaticAllocator`: `New`, `Delete`, the destructor and a constructor that
  throws out of `New`; its slot is in `lost` from then on. The destructor calls
  `~T` on every active slot, and `phantoms` are the slots on which it did so
  though no object lived there, which C++ leaves undefined.
* `StaticStlAllocator`: `allocate` through one of several copies, each with an
  `offset_` of its own; `owner` is the one in use, and `regions` is what was
  handed out.
* `MCContainers`: one program that uses one of the six, chosen at the start.
  The state spaces add up; they do not multiply.

These components are single-threaded, and a call is one step, except `Clear`
of the intrusive list, whose loop can be caught running for ever.

## 3. The runs

| run | module, configuration | question |
|---|---|---|
| `channel_safety` | `MCBufferedChannel`, `BufferedChannel.cfg` | Can any use by four threads lose a wakeup, sleep through Close, overfill the buffer or differ from a FIFO channel? No. |
| `channel_test` | `ChannelTest`, `ChannelTest.cfg` | Do the test's assertions hold, are calls answered and does the test end, whenever it is closed? Yes. |
| `rw_run` | `RWSpinLockRun`, `RWSpinLockRun.cfg` | Does the int always encode the holders, is a writer alone, do the loops end? Yes. |
| `shm_matrix` | `MCShm`, `MCShm.cfg` | Is a task ever left beside sleeping workers or dropped, does the destructor return? No, no, yes. Is `A^n` right under all interleavings, does a task outlive the frame it refers to? Yes, no. Are the answers right and does the tester finish? Yes, on eight hardware threads. |
| `shm_three_threads` | `MCShmMatrix`, `ShmMatrix_hw3.cfg` | And on three? No: finding 1. |
| `tic_tac_toe` | `TicTacToe`, `TicTacToe.cfg` | Do both boards agree, does `PlayerStrategy` never lose and win when it can, does the exit code tell the truth? Yes, against any library. |
| `containers` | `MCContainers`, `Containers.cfg` | Are the four containers and the two allocators exact, and is every call the call on a sequence? Yes, under the contract named below. |
| `deque_initializer` | `MCContainers`, `Deque_initializer.cfg` | Also for the initializer lists that fill their last block and the empty one? No: findings 2 and 3. |
| `dead_objects` | `MCContainers`, `Containers_objects.cfg` | Are values assigned to and destroyed by `StaticAllocator` and `SmallVector` only where an object lives? No: findings 4 and 5. |
| `algorithms` | `MCAlgorithms`, `Algorithms.cfg` | Do the algorithms give what plain definitions give, for every small input and whatever system call fails; are files given back; do they return? Yes, under the contract named below. |
| `grep_throws` | `MCAlgorithms`, `Algorithms_grep.cfg` | Does `bin-grep` throw for wrong patterns only, as its readme says? No: findings 6 and 7. |
| `readme_answers` | `MCAlgorithms`, `Algorithms_readme.cfg` | Do `TotalVolume` and `Format` give what the readmes say, for sums that fit an `int64_t` and for every text? No: findings 8 and 9. |

Where a run has two findings TLC stops at the first that it meets. Each of them
alone makes the run fail too: with `InitLists` without the empty list or without
the others, with `Trivial = TRUE` (finding 4) or `using` kept to `SmallVector`
(finding 5), with `Spaced` (finding 6) or `WithoutSpaces` (finding 7) for
`Commands`, and with one of the two functions in `DocumentedInputs`.

### What the properties say

* `NoLostWakeup` (channel): while a receiver sleeps on an open channel, every
  element has an *awake* receiver of its own; the same for free places and
  senders. This is stronger than "no element beside sleepers only": it counts,
  and counting is what makes `notify_one` per element enough.
* `CloseWakesAll`: whoever sleeps on a closed channel has a `Close` before the
  broadcast that wakes him.
* `TestAssertions`: lines 42, 45, 58 and 18-25 of
  `buffered-channel/test.cpp`. `free_slots` is the test's own estimate, changed
  outside the channel; that it never misleads the assertion is a fact about
  the interleavings of the two.
* `CounterExact`, `Exclusion`, `NeverInvalid`: no lock or unlock is lost to a
  stale value; a writer is alone; the benchmark's check never throws.
* `NoLostWakeup` (pool): as for the channel, but with one task of slack while
  the owner stands before its late `notify_one`.
* `PowerInvariant`: `A^result * (A^base)^n = A^power` between two products, and
  neither matrix is a mixture.
* `RegionOwned`: from the poll to the end of the computation the tester only
  waits, and what it wrote is still there.
* `DequeLayout`: blocks are neither leaked nor shared, and the end kept as
  `tail_block_`, `tail_index_` is the one that `size_` gives.
* `Rings`, `RefCountsExact`, `Lifetimes`: what the pointers, counters and
  objects of the other containers must agree on.
* `MemoryAccounted`: every slot of `StaticAllocator` is free, once, or has one
  object in it, or is lost to a constructor that threw; the destructor leaves no
  object, and the slots on which it calls `~T` without one are the lost ones.
  That it does so there is against C++ and the readme, which is what
  `OnlyObjectsUsed` says: it fails (finding 4), `MemoryAccounted` shows that it
  fails for no other slot. The regions that `StaticStlAllocator` hands out lie
  in its pool and share no byte, while a program has one user of the pool at a
  time.
* `DequeImplements`, `ListImplements`, `COWImplements`, `SmallImplements`:
  section 2.
* `FoldsAll`: the result of `Reduce` is the initial value and then every
  element of the range once, in order, whatever the workers do when.
* `GrepReports`: `bin-grep` reports the first `max_matches` places of every file
  and an error for every entry that cannot be read, in order and each once; if
  a traversal throws, the beginning of these; for a wrong pattern nothing. A
  place is defined by comparing the bytes that the readme takes the pattern for,
  for all three searches. A wrong pattern is one that the readme calls
  incorrect. The commands of the run contain patterns without spaces: for these
  the beginning that is reported is nothing, and that the program throws is the
  business of `ThrowsForPatternsOnly`.
* `FilesReleased`: whichever call fails, `GrepImpl` holds one file at a time,
  closes it and unmaps what `munmap` would have taken.
* `LoopsExact`: the body of a for loop over a `Range`, `Group` or `Zip` has seen
  what it should, and what `ReadAll` returns are the whole records of the file
  and not the part of one at the end.
* `AnswersExact`: the functions give what their definitions ask. For
  `TradeIndex`: the linear sum, if every running sum fits an `int64_t`. For
  `Format`: the length, and every character up to the end of the last argument.
  `AnswersAsDocumented` is what the readmes ask of these two: the linear sum
  whenever it fits, and the whole text. For `ReverseVector`: the elements from
  behind while it lives, and the vector as it was when it is destroyed.
* `OnlyObjectsUsed`: `Lifetimes` of the small vectors, and no call of `~T` by
  `StaticAllocator` on a slot in which no object lives.
* `Returns`: every program returns, `ReadAll` if its stream does not fail
  before its end.
* `BoardsAgree`: the runner and each `PlayerStrategy` keep a board, changed by
  different calls; between two calls they are equal.
* `NeverLoses`, `ForcedWinIsTaken`: what minimax promises. The second compares
  it with the set of boards from which a player can force a win, which is
  defined by the rules of the game and knows nothing of scores and depths.
* `ResultIsRight`: no line passes unnoticed and the exit code is the winner,
  a draw, or -1 with a player who broke the rules.

### Bounds and why they suffice

* `channel_safety`: four threads is the least number with two sleepers on one
  side and two threads that move on the other, where one notification can be
  taken by a thread that did not need it. Capacity 2 has the states empty, part
  full and full. Thread and value symmetry is used; the run has safety
  properties only. `channel_test` has liveness and no symmetry: capacity 1,
  two senders and two receivers, `SendBound` values before the close and one
  per sender after it.
* `rw_run`: two readers and two writers give each kind a competitor of either
  kind. `MaxInt = 8` is the least that `MaxIntAssumption` allows.
* `shm_matrix`. The pool: three workers, so that two may sleep while one runs;
  `QueueBound` leaves more tasks in the queue than there are workers. `mat_pow`:
  four rows on three threads leave a partition of 2, 2 and 0 rows (the last task
  has nothing to do); the exponents cover the empty loop, one bit, both bits,
  and a squaring without a product. The processes: the four requests of
  `tester.py`, each small or big, so that every sequence of them occurs.
* `algorithms`. `Reduce`: up to seven elements on one to four threads, with and
  without remainder, fewer elements than threads included; `UnsignedRange = 8`
  stands for 2^32 and is above every length. `Grep`: every file of up to three
  bytes with every pattern of one or two tokens, offset and limit (`OneFile`:
  overlapping matches, a match at the last place, an offset behind the end);
  tokens that are no byte, and tokens of two bytes without a space; every
  directory of up to two entries, each readable or failing in one of the system
  calls, with another argument behind it (`Trees`: a failure before, between and
  after what works). `Itertools`: steps that hit the end of a range and that
  jump over it, all runs in five items, zips of unequal lengths. `Trades`: three
  records and a part of a fourth, a stream that fails at any byte; `ReadBound`
  ends a `ReadAll` that would not end; three trades in any order with an
  `int64_t` of `IntRange = 16` values, which some products and some running sums
  fit and others do not. `Simd`: words of four bytes, texts of up to ten, so
  that a word crosses a chunk, ends the text or lies in the padding; vectors of
  four and two lanes, with a tail of every length. `Views`: all pointers of six
  bits. Numbers: all of eight bits. The other functions: all inputs up to three
  or four items.
* `tic_tac_toe`: no bound; all games are there, with every pair of players.
* `containers`: two deques with blocks of two cells, so that heads and tails
  cross blocks in both directions and a Clear or a copy meets every layout;
  `SizeBound` cuts off longer deques, and `BlockBound` the deque that grows by a
  block with every PushFront after a Clear (a hazard in `PROJECT.json`). Two
  lists and three elements: a middle element and a second list. Three COW
  vectors: a write by one of three sharers. Two small vectors with room for one
  element, `SmallBound = 3`: inside the object, on the heap grown twice, and
  none. Four slots; a pool of five bytes, pieces of one and two and three copies
  of its allocator, so that the pool is exhausted with a byte left and without.
* The view of `containers` leaves out the addresses of a deque's blocks and of
  a small vector's buffers, and cells outside their ranges. Addresses are only
  compared and followed, never ordered; two states that differ in them alone
  have the same calls, results and properties, as long as no two owners share
  one and no object lives outside its range, which `DequeLayout` and
  `Lifetimes` check in every state. How many blocks and buffers there are is in
  the view, so that a call that does nothing but lose one leads to a new state.

### Contract of the programs in `containers` and `algorithms`

The program in `containers` does what the repository's tests do and `std`
allows: it does not index out of range, pop the front of an empty intrusive
list (`PopFront` has not the test of `PopBack`), or link an element that is in a
list. A `StaticStlAllocator` has one user at a time: a copy is used instead of
the one copied, as a container does that rebinds what it is given; with two
users the model would say nothing new, they get the same memory (a hazard in
`PROJECT.json`). Four constants switch off what is known to break, so that the
run shows that nothing else does: `InitLists` (no list that fills its last block
and not the empty one, findings 2 and 3), `MayMoveEmpty` (assignment from an
empty intrusive list, section 4), `MayPushOwn` (an element of a full small
vector pushed to itself), and `Trivial` or else `MayRelocate`: a `reset_small`
that has elements to bring back needs trivial ones, like the `int`s of the test
(finding 5).

In `algorithms`: no step of a `Range` wraps beyond the greatest `size_t`; a
pattern of `bin-grep` has a token, and none that is half a byte; a machine has
two hardware threads at least (for these see the end of section 4); a
`TradeIndex` is asked for times in order. Of a `Format` the text behind the last
placeholder is not asked for (finding 9), of a `TradeIndex` no answer if its
running sums overflow (finding 8), of `ReadAll` nothing once the stream has
failed (section 4). `bin-grep` reports one match at least, as `main`
asks. The channel's capacity is not negative: `size_t` is compared with `int`
there, and a negative one is no bound at all.

### Fairness

* Channel, pool, matrix power: weak fairness of each thread's steps. A thread
  that can run is scheduled, and one that wants the mutex gets it. No step of
  these can be disabled and enabled for ever by others without the property
  being met, so nothing stronger is assumed; in particular nothing about which
  sleeper a notification picks, and no spurious wakeup is relied on.
* `ChannelTest`: main is *not* obliged to close, so that `ChannelProgress` is
  not the work of `Close`. It joins when it can.
* `ThreadPool`: the owner is not obliged to submit or to destroy; it goes on
  with a call it has begun. Tasks return.
* `RWSpinLockRun`: only that *some* thread moves as long as one can
  (`WF(RunNext)`). A spin that changes nothing is a stuttering step, and a
  scheduler may neglect any thread, so this is the weakest there is.
* `ShmMatrix`: each process runs.
* `Algorithms`: the program moves as long as it can (`WF(Next)`). In `Reduce`
  that is some thread; the others are sequential. Files are finite, and no
  system call blocks for ever.
* `TicTacToe`: the runner, one thread, goes on; a call of another library
  returns or throws. Without that no game need end.

## 4. Findings

1. `shm-matrix/src/matutil.cpp:49`: three hardware threads give
   `3 / 2 - 1 = 0` threads for a matrix of 300 rows or more, and line 50
   divides by it. The tester then waits for ever for `CALC_FINISHED`.
2. `deque/deque.h:25`: an initializer list of `n * 128` values leaves
   `tail_index_ = 128`; `PushBack` writes behind the block and `PopBack` reads
   a block that does not exist.
3. `deque/deque.h:23`: the empty initializer list leaves `tail_block_ = 0 - 1`,
   and the next `PushBack` or `PopBack` uses a block that is not there.
4. `static_allocator/static_allocator.h:41`: a constructor that throws out of
   `New` leaves its slot marked active, and the destructor calls `~T` on it,
   although no object was ever built there. The readme (line 35) wants the
   objects destroyed that are alive.
5. `small-vector/small_vector.h:233`: `reset_small` assigns to storage in which
   no object lives. That is defined for trivial elements only; `test.cpp:42` has
   a vector of strings.
6. `bgrep/bgrep.h:60`: a directory that may not be read makes the iterator
   throw `filesystem_error`; nothing in `Grep` catches it, and `main` prints
   "Pattern error", returns 2 and leaves out the rest of the tree and of the
   arguments. The readme (line 36) wants exceptions for wrong patterns only and
   everything else reported to `OnError`.
7. `bgrep/bgrep.h:44`: `parse_pattern` throws for bytes without a space between
   them, which the readme (line 23) allows.
8. `trades/index.cpp:10`: the running sum of all trades overflows an `int64_t`,
   although the sums that are asked for fit. That is undefined.
9. `fixstr-utils/fixstr.h:85`: the text behind the last placeholder of a format
   is not copied, and its characters stay unwritten.

Each has a run that expects the violation. The code has more that the contract
above keeps out of the runs; these are notes of the hazards in `PROJECT.json`.
With other constants or inputs TLC shows the first six:

* assignment from an empty intrusive list ties this list to the other's dummy,
  and `Clear` spins (`intrusive_list.h:110`, `MayMoveEmpty = TRUE`);
* a full small vector that is given one of its own elements copies it after
  destroying it (`small_vector.h:141`, `MayPushOwn = TRUE`);
* `std::stoi` is content with a token that begins with a hex digit, so that `7?`
  is searched as the byte 07, where the readme wants hex digits for bytes
  (`bgrep.h:47`, a token of size 2 that has a `value` and means no bytes);
* a stream that failed before its end, one that was never opened among them,
  gives trades that are not there for ever (`reader.cpp:7`, `Returns` without
  its exception);
* a `Range` that ends less than a step from the greatest `size_t` wraps and goes
  on (`itertools.h:39`, `Numbers(0, 7, 3)` among the loops);
* a division by zero threads on one hardware thread, or when
  `hardware_concurrency()` returns the 0 of "not computable"
  (`reduce.h:14`, `HwThreads = {1}`);
* two containers with copies of one `StaticStlAllocator` get the same memory
  (`static_stl_allocator.h:23`, not in the model).

## 5. Proofs

All proofs are for every value of the constants that satisfies the modules'
assumptions: finite sets of threads, workers or vectors, an integer capacity,
distinct call results, an int that can count the threads, a number of threads
per machine, for the deques a `size_t` that can count the blocks, for the small
vectors addresses of buffers that are no vectors, and for the algorithms inputs
of their shape: patterns with a token (`GrepAssumption`), ranges of numbers that
a `size_t` holds (`ItertoolsAssumption`), files of whole records and a part of
one (`TradesAssumption`). Where a theorem needs a condition on the program, that
no call ever leaves the contract of section 3, it is an `ASSUME` of the theorem
itself and named: `ListsInexact`, `NeverFromEmpty`, `NoStaleElements`,
`NoneWraps`, `WholeTokens`, and for the index `SumsFit` in the property. Without
it the theorem is false, which a finding or section 4 says. The theorems on the
channel and the pool alone cite no assumption about their clients
(`TestAssumption`, `PoolAssumption`), though the modules that hold them declare
these.

* `BufferedChannelProofs`: `TypeCorrect`, `NoLostWakeups`,
  `CloseForgetsNobody`, `MutualSleep`, `ChannelImplemented`. `TypeOK` is
  inductive: it says where each sleeper is (`c_not_empty` holds threads inside
  `Recv`). `NoLostNotEmpty`, `NoLostNotFull` and `CloseWakesAll` are inductive
  relative to it. The core of the argument is a count: a push adds one element
  and, if anyone sleeps, one awake receiver; a pop takes one of each; a wait
  only happens with nothing to take; a wakeup only helps. `Sizes` gives the
  arithmetic of `Cardinality`. `MutualSleep` follows without another induction:
  with room for at least one element, the channel cannot be empty and full. The
  refinement maps every step to the step of `Channel` of the same name, or to a
  stutter for waits, wakeups and the broadcasts.

  `TestPasses`: the assertions of `RunTest` hold at its end, for any numbers of
  senders and receivers, any capacity from 0 and any moment of the close.
  `TestAssertions` speaks of the end only; `TestInv` says all along where every
  fetched value is. On the senders' side it is at one place at most, in the
  argument of a call or in `send_values` (`SendOnce`); behind the push it is at
  one place at most, in the queue, in an answer or in `recv_values`
  (`RecvOnce`), and it is there exactly if it was pushed (`NothingLost`).
  `EndsAreRight` ties exceptions and empty answers to a closed and an empty
  channel, and `SlotsCover` says that the test's own count of free places is
  never too small. `TestAssumption` asks for at least one
  receiver and a capacity of 0 or more: `test.cpp` has no other test, and
  without a receiver what is accepted would stay in the channel.
* `RWSpinLockProofs`: `CounterEncodesHolders`, `LockSafe`, `NoOverflow`.
  `Exclusion` alone is not inductive: a compare-exchange with a stale value must
  be harmless, which it is because the value it compares is the present one and
  encodes the holders. `IInv` therefore joins the types, `CounterExact`,
  `Exclusion` and `StaleRoom`: the value a reader is about to add 2 to is at
  most twice the number of the *other* threads, which is what keeps the sum
  within an int however old the value is. Lemma `Decode` reads the holders off
  the int. `CheckNeverThrows` is about `run.cpp`: it takes steps of the lock or
  none, so the lock's invariant holds in it; `CheckInv` adds that the program's
  counter is 1 exactly while a writer stands between its increment and its
  decrement, which `Exclusion` makes an invariant.
* `ThreadPoolProofs`: `TypeCorrect`, `NoLostWakeups`, `NothingDropped`.
  `TypeOK` ties `done` to the owner's place, and `NoLostTask` carries the slack
  of the late notification, without which it is not inductive.

  `PowerRight`, `ResultRight`, `TasksEnd`: `mat_pow` on the pool, for any
  exponent, any number of rows and of workers. `MatricesOK` is the invariant
  of the loop, result + base * n = power, with the half of a round that is under
  way counted in. `TasksOK` is what the workers do to one product: the tasks
  leave the queue in order, those that were taken and run no more have done
  their rows, and `tasks_left` counts the others, so that at 0 every row is the
  sum of the exponents of two whole matrices; neither factor changes before.
* `ShmMatrixProofs`: `RegionNeverShared`, `AnswersRight`. `Turn` says for every
  place of `tester.py` where the flag and `shm-matrix` can be and what lies in
  the region; while the tester waits, `Working` follows the server from the poll
  to the result. The process that died of finding 1 is one of its cases: no
  wrong answer is taken even then.
* `AlgorithmsProofs`: the four programs of `Algorithms` that have steps, for
  every input, schedule and failure, and four of the functions of
  `AnswersExact`, for every input. The latter need no state and are facts about
  the operators.

  `WholeRangeFolded`, `BlocksDisjoint`, for every length, number of hardware
  threads and schedule. The start of block `k` of `Reduce`, a running sum in the
  code, is `k` short blocks and one more element for each long block before
  (`StartOf`); that gives the partition. A worker's `accumulated` is the part of
  its block up to its iterator; the caller's `res` is the range up to the block
  it has come to.

  `NothingHeld`: what `bin-grep` holds follows from where it is (`HeldInv`).

  `MatchesReported`: what has been reported is what is due for the arguments
  (`Ahead`) and entries (`Before`) behind, then, within a file, for its first
  `matches` places. The loop that a search runs is tied to the definition of a
  match by a count: `matches` is the number of places below `offset + pos`
  (`ScanOK`), so the next find is the place with just so many before it (`Nth`,
  `NthIs`), for a loop that tries every byte as for a search that jumps.
  `FlattenSeq`, by which a listing's reports are strung together, is a
  recursion; `FlattenNext` unfolds it at the end of a sequence, by
  `NatSetInduction`, induction for a set of numbers. A traversal that throws
  ends between two entries, where what was reported is a beginning of what was
  due (`PlaceReports`). What is due is what the readme takes the pattern for,
  and what the loops compare is what was parsed; that the two are one
  (`MeantIsParsed`) needs `WholeTokens`, no token that is half a byte, beyond
  which the theorem is false (section 4). Where the readme has bytes and the
  program throws, nothing was reported.

  `LoopsSeeAll`: a loop over a vector, a `Range` or a `Zip` has seen the first
  `k` of what there is (`AllOf`), and its iterator is at `Place(k)`; with the
  step of a `Range` that is a fact about rounding up a division (`CeilingIs`). A
  loop over a `Group` stands before an item that begins a run, and the runs it
  has seen flatten to the items before (`GroupsSeen`). No step of a `Range`
  passes the greatest `size_t` (`NoneWraps`): beyond it the theorem is false
  (section 4). `ReadAll` has read `k` records and is `k * RecordSize` bytes
  into the stream, or the device has failed and it never returns (`RecordsInv`).

  `SumsRight`: `TotalVolume` is the linear sum, if that fits and no running sum
  overflows (`SumsFit`). Then none is `Undefined`, and each is the true sum of
  the trades up to it (`SumsKept`), so that a difference is the sum of what lies
  between (`PartBetween`). The sort is a permutation by places (`Place`), and
  the trades before a time are a beginning of it; a sum over a part of the
  trades is independent of their order (`SumOfPart`). The induction over the
  trades is `NatSetInduction`.

  `KeysFound`: the search by halving ends at the first item not below the key
  (`SearchEnds`, `Boundary`), for every order in which the sort may leave equal
  keys; the recursion is over the pairs `Ranges`, by the length of the range.

  `LanesMoved`: `insert`, `set` and `erase` of `AvxVector` are `InsertAt`,
  `ReplaceAt` and `RemoveAt` of the library for sequences, lane by lane.

  `ProductsRight`: the quotient and the remainders by which the transposed
  matrix is filled find back the block, the row and the lane (`Quotient`,
  `InTable`), and the blocks, the last one cut, hold every column
  (`BlocksCover`).
* `TicTacToeProofs`: `BoardsStayEqual`, `ResultRight`, `NeverBeaten`.
  `BoardsAgree` is silent within a turn; `Agreement` adds that there the player
  who moves is ahead of the runner by its own move (`Ahead`) and the other one
  behind by it until it is told (`Behind`). The other library may answer
  anything or throw. `Judged`: before the result is judged nobody but the last
  mover has a line, so the order in which `check_win` looks at the players does
  not matter.

  `NeverBeaten`: the values of `Minimax` come from a fold over all boards. By
  induction over the empty fields of a board (`NatSetInduction`) every value is
  the one that the recursion of the code gives to the values of the boards one
  move on (`MinimaxIs`). A board is `Safe` for a player if its value for that
  player is not negative. A lost board is not safe; from a safe one every move
  of the opponent leads to a safe one, and `BestMove` takes a move that does:
  hence `Unbeaten`. That the empty board is safe for both is a value of the fold
  and no consequence of its shape: it is the assumption `EmptyIsNotLost`, a
  formula without constants or variables, which TLC evaluates whenever it runs
  the module.
* `DequeProofs`: `DequeLaidOut`, `DequesImplemented`. `Layout` counts places and
  blocks, and counting is not inductive: `Owned` names the one deque and the one
  place of every block, and `EndRight` is the arithmetic of the end. Every call
  either replaces the blocks of one deque by blocks that no other deque has
  (`OwnedReplaced`) or exchanges those of two (`OwnedSwapped`); `DequeBecomes`
  and `NewDeque` reduce the calls to the first. That `undefined` never becomes
  true is part of it: no access leaves the arrays. The theorems assume that no
  initializer list has a length that is a multiple of the block size
  (`ListsInexact`), 0 included: for those they are false, which are findings 2
  and 3. The bound of the model on the blocks, below `SizeRange`, is what keeps
  `tail_block_` from wrapping.

  The refinement of `Container` follows call by call from the invariant before
  and after. `SeqOf` is the sequence that members and heap stand for; `Shifted`
  compares the sequences of one deque before and after a push, a pop or a copy,
  whose blocks hold the same, at the same or at the next place; `WrittenSeq` is
  about the one cell that a push or `operator[]` writes; `OneBecomes` about the
  other deques, whose blocks are theirs alone.
* `ContainersProofs`: the other parts of the program of `MCContainers` that are
  proved. `MemoryNeverShared`: what keeps the regions of `StaticStlAllocator`
  apart is that the offset of the allocator in use lies behind all of them
  (`OwnerBehind`), so the theorem is about programs with one user of the pool at
  a time; the accounts of `StaticAllocator`, the lost slots and the destructor's
  calls on them among them, are inductive once the types are. `CountersExact`,
  `VectorsImplemented`: between two operations on the heap a COW vector may have
  no storage, so the invariant is about a set of vectors that have theirs:
  `CountedFor(f, h, S)` says that the heap `h` is exact for the vectors `S`.
  There is one lemma for giving storage back, for sharing, for taking over and
  for making anew, and every call is a composition of these. From the counters
  it follows that a write in place has one reader, hence the refinement of
  `Container`.

  `RingsIntact`, `ListsImplemented`: `Walk`, which says what iteration visits,
  is a recursion. `Rings` speaks of the hooks alone, and what a call does to a
  walk is nothing that follows from them, so the invariant says that the hooks
  are laid out along the contents (`Linked`): the dummy, the elements in their
  order, the dummy again, and nothing else linked. `NatSetInduction` shows once
  that a walk along such hooks gives the sequence back. Then there are three
  lemmas, one for an insertion at any place, one for a removal, and one for a
  list that takes over the ring of another, and every call is one of them, or an
  `unlink` before an insertion; `Clear` is a removal per step, during which the
  source of a move assignment waits (`clearing`). The theorems assume
  `NeverFromEmpty`, no move from an empty list: with it they are false, as
  section 4 says.

  `ObjectsLive`, `SmallVectorsImplemented`: `Lifetimes` counts living objects,
  and does not say which they are. In the invariant (`Housed`) every room,
  inline or a buffer, holds exactly the contents of its one vector and is raw
  behind them. A destroyed vector is treated as one without a room, since what
  is left in its pointers is overwritten before it is read. There is one lemma
  for each helper of the code (construct, destroy, allocate, delete, grow, take
  over), and the calls are compositions of these as in the code. `PushedAll`,
  the loop of the copies, is a fold over a finite set of places;
  `PushedOneByOne` unfolds it to one push after the other, again by
  `NatSetInduction`. The theorems assume `NoStaleElements`: `reset_small` has no
  elements to bring back unless they are trivial, and a full vector is never
  given one of its own. Without it `reset_small` and a growing `push_back` break
  `Lifetimes` (finding 5 and section 4).

Only model-checked:

* everything under fairness (`ChannelProgress`, `TestEnds`, `RunEnds`,
  `DestroyReturns`, `PowReturns`, `TesterPasses`, `Returns`,
  `ForcedWinIsTaken`), which TLAPS cannot prove;
* `AnswersExact` as a whole. Its formulas for `TradeIndex`, `StaticMap`,
  `AvxVector` and `AvxMatmul` are proved for every input (`SumsRight`,
  `KeysFound`, `LanesMoved`, `ProductsRight`). Of the others, `FuzzySearch` and
  `ShortView` rest on powers of two, which the provers cannot calculate with;
  the rest are folds and recursions over an input, of which each would need an
  induction of its own. TLC evaluates all of them for every small input.

## 6. What is not modelled

* Data: what is sent, the `uint32` arithmetic of matrices, the strings of COW
  vectors are model values or small numbers.
* Exceptions out of `operator new`, and out of the elements' constructors
  other than in `StaticAllocator::New`.
* System calls and argument errors of `shm-matrix` before its loop, and the
  loading of libraries by the runner of tic-tac-toe; they end the process.
* Memory orders: the code uses mutexes and sequentially consistent atomics
  throughout. Where two processes share plain memory (header, matrix and result
  of the shared region), `RegionOwned` shows that accesses never overlap.
* How `bin-grep` prints; alignment in `StaticStlAllocator`; what of `tuple.h` is
  one substitution that the compiler does (`Head`, `Tail`, `Transform`).
* The components with status `not_modelled` in `PROJECT.json`: `clever-set` and
  `concepts` compute types and nothing of them runs; `fold` and
  `multiplication` are their own definitions; `abort` is output over the
  platform's unwinder; the benchmarks measure; of `orderbook` only tests are
  here; `contrib` is third-party code.

## 7. Plan

Done, in this order: channel and test client with proofs; lock and benchmark
with proofs; pool with proofs, matrix power, shared-memory protocol; reduce; the
containers and the static allocator; tic-tac-toe; the algorithms with and
without state; the pool allocator; proofs about the benchmark of the lock, the
shared-memory protocol, `Reduce`, the allocators and `COWVector`; proofs about
the channel's test, the matrix power, tic-tac-toe, the layout of `Deque`, the
rings of `IntrusiveList`, the lifetimes of `SmallVector`, and the refinement of
`Container` by each of the four. Then the proofs about the lists and the small
vectors, `NeverLoses`, and the proofs about `bin-grep`, the loops and `ReadAll`;
the index over trades, the static map, the vector of lanes and the product as
functions; last what the documents promise and the code does not do (findings 3
to 5 and 7 to 9), with the overflow of the index and the destructor's calls on
lost slots taken into the models and the theorems.

Next: the other functions of `AnswersExact`, as lemmas about their own modules:
`Interleave`, whose recursion is over two lengths, and `SseSearch`, whose calls
of `cb` come in the order of the places because the chunks do.
