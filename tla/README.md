# A TLA+ verification of cust-lib

cust-lib is two C crates: `std` (allocator convention, vec, string, hash map,
reference counts, intrusive list, small arithmetic helpers) and
`cust_execution`, a port of Rust's poll/waker/future model (futures and
combinators, a single-threaded executor, a timer reactor, an epoll driver, and
non-blocking sockets on top of it). This directory holds TLA+ models of that
code, TLC configurations that check them on small instances, and TLAPS proofs
of what matters most for every instance.

File names without a directory are in `src/cust_execution/src` or
`src/std/src`.

## 1. The system

| component | state | operations | interacts with | what makes it correct |
|---|---|---|---|---|
| executor (`executor.c`) | task boxes, ready queue, `queued` flags, `live`, park hook | spawn, run, block_on, task wake | polls futures; the park hook and wake sources call task wakers | every woken task is polled, none starves, nothing freed is polled or woken, `block_on` tells the truth |
| future (`future.c`) | the box of a leaf future | poll, drop, waker wake/clone/drop | everything below is a future | READY once; PENDING only with a wake arranged |
| combinators (`combinators.c`) | children and per-child `done` flags; the state machine's node and current leaf | map, then, join2, select2, sm | poll and drop children with the parent's waker | each child is dropped exactly once, never polled after READY |
| reactor (`reactor.c`) | sorted pending list, clock, sleep boxes | sleep poll and drop, fire_due, park | executor's park hook; task wakers | list sorted and complete; sleeps neither early nor forgotten |
| runtime (`runtime.c`) | an executor wired to a reactor | init, block_on, spawn, run | both | timers overlap; losers of a race leave no timer behind |
| io driver (`io.c`) | registered fds with a read and a write slot, `armed` counter, epoll set, the reactor's timers | add, remove, interest poll and drop, park | executor's park hook, kernel | epoll set matches the armed slots; park makes progress while anything is outstanding |
| fd, stream, tcp (`fd.c`, `stream.c`, `tcp.c`) | an fd, the future of one transfer, connect or accept | adopt, close; read, write, write_all, accept, connect | io driver, kernel | no byte lost or sent twice; no fd leaked |
| hash map (`hashmap.c`) | slots EMPTY, FULL or TOMBSTONE; `len`, `tombstones` | insert, get, remove, clear, iterate, rehash | allocator | it is a map; every probe ends |
| vec, string (`vec.c`, `string.c`) | data, len, cap | reserve, push, pop, clear, free | allocator | contents survive growth and failed growth; sizes do not overflow |
| alloc (`alloc.c`) | blocks | allocate, reallocate, deallocate | every container | sizes handed back match |
| rc, arc (`rc.c`, `arc.c`) | a reference count | get, put | threads (arc) | the destructor runs once, after the last use |
| list (`list.c`) | next and prev pointers | add, add_tail, del, del_init | executor, reactor, io | next and prev agree; members are exactly those linked |
| math, geom, mem, types | none | pure functions | | edge cases of 32-bit arithmetic |

Nothing but `arc` is used by several threads. What is hard is interleaving of
another kind: callbacks. A poll may wake its own task, arm and cancel timers
and fd interest, and spawn; a park hook may wake many tasks, several times,
between two polls; a future may be dropped at any point of its life. Failure is
allocation failure and kernel errors. Nothing is persisted.

## 2. Plan

The modules, in the order in which they were written. All exist, each with its
run and, liveness aside, its proofs.

| module | models | builds on |
|---|---|---|
| `IntrusiveList` | lists as sequences: what the clients of `list.c` see | |
| `TaskScheduler` | abstract: what the executor promises | |
| `Executor` | `executor.c`, with any futures and park hook | `IntrusiveList`; implements `TaskScheduler` |
| `Reactor` | `reactor.c`, both clocks | `IntrusiveList` |
| `FutureContract` | abstract: the poll contract of `future.c` | |
| `Children` | the variables of a future and the futures it owns | |
| `Combinators` | map, then, join2, select2 over any children | `Children`; implements `FutureContract` |
| `StateMachine` | the state machine future | `Children` |
| `IoDriver` | `io.c` and the part of epoll it relies on | |
| `MapContract` | abstract: a finite map | |
| `HashMap` | `hashmap.c` | implements `MapContract` |
| `Stream` | `fd.c`, `stream.c` and the part of `io.c` and of sockets under it | the slot rules of `IoDriver` |
| `Runtime` | executor, reactor and future trees composed | instances of `Executor` and `Reactor` |
| `SequenceContract` | abstract: a sequence that may fail to grow | |
| `Vec` | `vec.c`, `string.c` and `alloc.c`, with a narrow `usize` | implements `SequenceContract` |
| `ListHead` | `list.c` with its pointers | compared with `IntrusiveList` |
| `Rc`, `Arc` | `rc.c`; `arc.c` with threads and memory order | |

The executor comes first because everything else runs under it, and because its
contract (who may call a waker, when a task box is freed) is what the other
modules assume. `Stream` follows the driver: the null future that is polled
when memory runs out and the connect paths are the code's least tested corners.

What could be added: a runtime with more kinds of trees (`map`, nesting), the
I/O driver in the composition, and the other direction of a stream.

## 3. The modules and the code

Every definition that stands for code is listed with its lines in
`PROJECT.json` under `map`. A definition `X_Bug` (or `X_Yield`) is `X` with a
plausible mistake; it is used nowhere in the specifications, and `PROJECT.json`
lists under `mutants` the property that fails when it takes the place of `X`.

### IntrusiveList, Executor, TaskScheduler

`Executor` has one variable per field: `status` and `queued` are the task boxes,
`ready` the queue, `live` the counter, `doneRef` the tasks with a `done`
pointer, `slot` the places where a wake source keeps a waker. `phase` says where
control is: in the caller, in `executor_drive`, inside a poll, or inside the
park hook. One iteration of `executor_drive` is `PollNext` (pop, clear the
flag), then what the future does while it is polled (`WakeSelf`, `Arm`,
`Disarm`, and `FireSlot` or `Spawn` from inside), then `PollPending` or
`PollReady`. The park hook is `Park`, any number of `FireSlot`, `ParkReturn`.
A poll is one action per call the future makes, so that wakes reach the queue
between the moment the flag is cleared and the moment the poll returns.

`TaskScheduler` forgets queue, flags and slots. A task is unborn, woken,
running, running and woken again ("rerun"), waiting or done. `Executor` shows
the mapping in `TaskStateOf`.

`done` and `out` of `block_on` point into its stack frame. When a task survives
its `block_on` and completes during a later one, the pointer may or may not
alias the new frame; `WriteDone` allows both.

### Reactor

`pending` is the sorted list; the timers' fields are functions from sleeps.
`sleep_poll` is `PollFirst` or `PollAgain`, by `armed`; `reactor_park` is one
action with the wait inside. `WaitUntil` lets the clock overshoot by up to
`Late`: 0 is the fake clock. `AddU64` wraps. `ExternalFireDue` is `fire_due`
called by `io_driver_park` with a clock reading of its own, and `Advance` is
the running system clock or `cexec_fake_clock_advance`. `woken` stands for the
executor: the sleep's task has been queued since its last poll.

### Children, Combinators, FutureContract, StateMachine

`FutureContract` is the contract of `future.c:17-28`, seen from outside one
future. `Combinators` is one node of any of the four kinds, with children that
keep the contract: each poll returns PENDING or READY, and a PENDING one leaves
a waker with a wake source or has called it already. A call the contract
forbids turns the child "broken". `Children` holds the variables that
`Combinators` and `StateMachine` share. `self`, `held` and `woken` of the node are
shown to keep `FutureContract`, so that what is shown of a node holds for
trees. The node has one action per constructor, per poll function and per drop
function. `StateMachine` adds the loop of `sm_poll`, one action per step of it,
with state functions that return any child, the null future and any successor.
A child that was dropped may come back as a new one, so that a machine may loop
over its awaits for ever.

### Runtime

The composition of `runtime.c`: `X` is `Executor` and `R` is `Reactor`, over
shared variables, and each action of `Runtime` is a step of one of them, or of
both, with the code between them. A task is a tree: a sleep, `yield_now` or
ready future, or a then, join2 or select2 over two of them. `pc` walks through
the tree inside a poll, one poll or drop of a leaf per step; `AfterChild` is
what each kind of node does with the result. What `Executor` assumes of futures
and park hook, and `Reactor` of the executor, is here done by the code itself:
a sleep's first PENDING takes `X!Arm`, a yield `X!WakeSelf`, and `reactor_park`
queues the tasks of the timers it fires in their order (`WakeOwners`). The
clock is the fake one. `begun` and `ended` record it.

### IoDriver

`registered`, `slot` and `armed` are the driver's; `mask` and `ready` are the
kernel's. Readiness is level-triggered and comes and goes by itself
(`KernelReady`, `KernelClear`), except for a hang-up, which is reported whether
or not it was asked for. `io_driver_park` is `ParkIdle`, or `ParkWait` followed
by `ParkEvents` or `ParkTimeout`. The list of events takes `MaxEvents` fds. The
reactor inside is reduced to the distance of its earliest timer, in
`epoll_wait`s: 1 is a deadline one wait reaches. `fut` is what the owner of a
future knows of it, `boxArmed` the flag in its box, which stays set when the
future gets READY: `InterestDrop` follows it, and cancels whatever is in the
slot (`Cancels`). Two history variables remember the futures that were left
behind: `orphaned` those whose fd was removed under them, which `io.c:45-47`
asks clients not to do, and `robbed` those whose slot was cancelled by the drop
of a future that was READY already (finding 2).

### Stream

A listener, a client and a server in one process, as in `tests/tcp_echo.c`, and
four futures: accept, connect, write or write_all, read. `handle` is the `fd`
field of each `cexec_fd`, `box` the stream inside a connect future. A poll is
`PollBegin` and then one action per turn of its loop: `AwaitPending` or
`AwaitReady` at the top, then the socket call with each of its outcomes
(`ReadSome`, `ReadEnds`, `WriteSome`, `WriteFails`, `AcceptOk`, `ConnectDone`
and so on) or `WouldBlock`, which builds the readiness future and goes round
again. The kernel may move between two turns. `Fire` is the park. Any call may
take any part of the data, `accept` and `socket` may run out of descriptors,
registration may fail (`Adopt`). The first poll of a connect makes a socket and
adopts it into the box (`ConnectNoSocket`, `ConnectSocket`), and then connect
may succeed at once, later, or not (`ConnectAtOnce`, `ConnectInProgress`,
`ConnectRefused`); either end, the listener and each future may go at any time.

### HashMap, MapContract

The three arrays are one function `slots` from positions to Empty, Tombstone or
a pair. Each call is one action, except that `rehash` is `RehashStart`, one
`RehashAlloc` per array, one `RehashMove` per old slot, and `RehashDone`, which
gives the old arrays back and stores the key whose insertion started it.
`RehashFails` is the way out of the first, second or third allocation, and
`arrays` counts what the allocator has handed out. A probe is the set of offsets from the home slot at which
it may stop, and the least of them; `%` is the code's `& (cap - 1)`, as
capacities are powers of two. `oldSlot` is the counter `i` of `rehash`'s loop.
`InsertFails` is a size that overflows before anything is allocated. An
iterator may run while entries are removed or their values replaced, and ends
with the insertion of a new key, which may resize (`hashmap.c:404-405`). Keys and values have a size; whether they are copied or moved
is the caller's affair.

### Vec, SequenceContract

One container of either kind: a string is a vec of bytes with other calls.
`block` is what the allocator knows of the storage: the size and alignment it
was asked for and the bytes it has. `Reserve` is the set of results a growth
may have; `NextCap` and `CheckedMul` are the functions of those names, `RoundUp`
the over-aligned branch of `sys_allocate`, which wraps, and `Moved` what a
reallocation keeps of the elements. An element is a value; those beyond what
the allocator copied are lost. `touched` is the highest element a call wrote.
Zero-sized elements are not stored.

### ListHead, Rc, Arc

`ListHead` has `next` and `prev` of anchors and nodes; `Link` and `Splice` are
the assignments of `list_link` and of the two deletions. Beside them `members`
takes the step `IntrusiveList` has for the call, and `PointersMatch` compares
the two. `Rc` counts for one thread. `Arc` has one action per atomic operation.
What the threads see of each other's writes is a set per thread: a release
decrement publishes it on the counter, and the acquire fence takes over what
was published when its thread's decrement read the counter. Relaxed increments
are part of the release sequence and change nothing in it.

## 4. The runs and what they show

| run | bounds | distinct states | question |
|---|---|---|---|
| `executor` | 3 tasks, 2 wake sources | 9,191 | does any order of spawns, polls and wakes lose a wake, poll a dead task or misreport `block_on`? |
| `executor_stall` | 3 tasks, 1 wake source, no park hook | stops at the violation | the same for a caller that drives a stalled executor again |
| `reactor` | 3 sleeps, 3 durations, a clock of 16 values | 214,636 | is every sleep on time, with both clocks? |
| `runtime` | 2 tasks with trees of 2 leaves, durations 1 and 2 | 597,962 | do executor, reactor and trees together stop, stop clean, and on time? |
| `combinators` | 2 children, each Pending at most twice | 408 | do all four kinds keep their books and the poll contract? |
| `state_machine` | 3 states, 3 children | 1,828 | the same for the state machine, loops included |
| `io` | 2 fds, 2 futures, 1 event per wait, timers up to 2 waits away | 200,160 | do epoll set, slots and counter agree, does the park make progress, does every ready future complete? |
| `io_spent` | the same, timers one wait away | stops at the violation | does the drop of a future touch no slot but its own? |
| `io_hangup` | the same as `io_spent` | stops at the violation | does the park return false only when nothing is outstanding? |
| `stream` | 3 descriptors, 3 bytes, a buffer of 2 | 124,922 | does a descriptor leak, a byte go missing, a future sleep on? |
| `stream_oom` | 3 descriptors, 1 byte, no memory | stops at the violation | is the null future ever polled? |
| `containers` | 5-bit `usize`, 4 layouts; 4 keys, 2 values, capacities 2, 4, 8; 2 anchors, 4 nodes; 3 threads, 3 references | 380,284 | are sizes, pointers and counts right; is the hash map a map, does every probe end? |

**executor.** Three tasks are the fewest with a task running, one queued
behind it and one waiting; two wake sources let a task be held twice and woken
twice. Every task box is used once, so the space is finite without a bound.
`QueueSound`: no task is queued twice, reached after it is freed or left out of
the count; `NoLostWakeup` and `BlockOnReport` are wakes and results.
`ImplementsScheduler` says the same from outside: what is woken is polled
again, however it was woken.

**reactor.** `MaxU64` is 15 in place of 2^64 - 1. The durations 0, 2 and 14
give deadlines that are due at once, equal, overlapping, and beyond the end of
the clock, so that the sum wraps. `Horizon` bounds the clock and `Late` the
overshoot of a real sleep; a longer clock only adds states in which nothing is
armed. `NotEarly` speaks of deadlines the clock can represent; see section 8.

**runtime.** Two tasks are enough for each to be woken by the other's park, to
share deadlines and to have them in either order; two durations make an arm of
a join or a select shorter, longer or equal, and every leaf may also be a yield
or ready. `StopsClean` is what the tests of `runtime.c` look at for three
trees, here for all of them and in pairs: block_on and run return with nothing
alive and an idle reactor. `OnTime` is their other assertion: elapsed time is
the sum of a chain, the longer arm of a join, the shorter one of a select.

**combinators, state_machine.** A node has at most two children at a time, and
Pending twice is enough for a child to be woken before, during and after its
sibling's poll. Nesting needs no larger instance: a node is shown to keep the
contract that its children are assumed to keep. Three states of the machine
and three children give a state that is entered twice, a null future, and a
child that is dropped while it waits.

**io.** Two fds and one event per wait make the event list overflow, so that a
ready fd is reported late. Two futures can wait for one fd in both directions,
for two fds, or one after the other in the same slot; then the first may be
dropped before it fires, after it fired, or only after the second one has armed
the slot. `KernelReady` leaves out a direction that no future is for, which
epoll is never asked about. Hang-ups and removals under a waiting future happen.
`ParkMakesProgress` names the reasons for which a park may give up: nothing is
outstanding, a hang-up nobody asked for, or a timer beyond the longest wait,
which a timer two waits away is. `PendingIsArranged` and `ReadyCompletes` name
what may leave a waiting future behind: its fd was removed, or the drop of a
READY future took its slot. `io_spent` and `io_hangup` show the two faults
themselves (findings 2 and 3).

**stream.** Three descriptors are the listener and the two ends, so that a
second accept or connect finds none left and a closed number is used again.
Three bytes through a buffer of two make a write short, split a write_all and
make it wait, with another write behind it.

**containers.** The parts share one run and no state: a behaviour is a vec or
string, a hash map, lists, an `Rc` or an `Arc`. With `usize` at 31 and reservations of any
size, lengths and products pass the end of the type; elements of no size, one
byte, three bytes and an over-aligned word take every branch of the allocator.
The first capacity is 2, and blocks of more than 8 bytes do not exist, so that
large requests fail rather than being stored. The first capacity of the hash map
is 2 instead of 8, with the same load factor: it grows twice, is rehashed at the
same size to drop tombstones, and runs out of memory at 16 slots or at any
array before. Two keys share the last slot as their home in every capacity, a
third one comes just after the wrap-around, the fourth just before it, so that
chains merge. The result of a map's last call is left out of the state (`VIEW
NoResult`), as no action and no invariant reads it; the steps are compared with
`MapContract` with their results all the same. Four nodes are a list with a
first, a last and two inner elements. Three threads with three references are
the fewest with two puts at once beside an owner that went before.

## 5. Fairness

Safety properties are checked without fairness, or do not depend on it. The
liveness properties assume only what the code's own loops give:

- `Executor`: `executor_drive` goes on while the queue is not empty, a poll
  returns, the park hook returns. Nothing is assumed of the callers, of the
  wake sources or of how long a future stays Pending. Under this the abstract
  scheduler's strong fairness of `Poll` follows.
- `Reactor`: a woken sleep is polled: that is what `Executor` shows of tasks.
  That the executor parks is not assumed. It does so only when no task is queued
  (`executor.c:176`, `213`), and one that wakes itself in every poll, as
  `yield_now` in an endless loop, keeps it from that and every sleep from ending.
  `SleepsEnd` therefore says what happens if the park recurs while timers are
  pending (`ParksRecur`). Clock advances from outside are never relied on.
- `Runtime`: one thread runs the executor and nothing it calls blocks for ever
  on the fake clock: weak fairness of the next step, whichever it is. What the
  two modules above assume of each other is not assumed again: the yields of a
  tree are finite in number, so that the executor does park.
- `Combinators`, `StateMachine`: a node that is new or was woken is polled (the
  same property of `Executor`), and a wake source that holds the waker of a
  Pending child fires. `sm_poll`'s loop runs on, and does not meet children
  that are Pending for ever (strong fairness of `ChildReady`). A state machine
  that loops never completes; `SmMovesOn` says that it then enters states again
  and again, and is never stuck in one.
- `IoDriver`: `epoll_wait` returns, and a woken task is polled. That the park
  recurs is again a condition of `ReadyCompletes` (`ParksRecur`), not an
  assumption. `ReadyCompletes` speaks of fds that stay ready.
- `Stream`: a poll that has begun runs on, the kernel answers a connect, a woken
  future is polled in the end (strong fairness, as other tasks come between:
  `Executor` shows it), and the driver reports an fd that is ready again and
  again (`ReadyCompletes` of `IoDriver`, with its conditions: the tasks let the
  executor park, and no unasked hang-up stops it). The caller may do anything else, and
  is not assumed to create, drop or close anything.

## 6. What is proved

All theorems hold for every value of the constants that satisfies the named
assumption of the module (`ExecutorAssumption`, `ReactorAssumption`,
`RuntimeAssumption`, `CombinatorAssumption`, `MachineAssumption`, `IoAssumption`,
`StreamAssumption`, `HashMapAssumption`, `VecAssumption`, `ListAssumption`,
`RcAssumption`, `ArcAssumption`): finite sets of tasks, fds and threads, natural
numbers where numbers are meant, markers that are not members of the sets they
mark, element types whose size is a multiple of their alignment, no more
references than a counter can count. Every property of every passing
run is proved, except liveness; `OnTime` under the condition named below.

- **`ExecutorProofs`.** The inductive invariant is `QueueInv`: types, the queue
  against the flags (`ReadyOK`), who may be reached (`ReachOK`) and what each
  phase allows (`PhaseOK`). The phases are needed because the flag is cleared
  before the poll: only inside it may a live task be in no queue and no slot.
  `QueueSound`, `NoLostWakeup` and the safety part of `TaskScheduler` follow.
  `BlockOnReportTheorem` adds `FrameInv`, which says which frame a done pointer
  means, and assumes `~DriveAfterStall`: without it the property is false.
- **`IntrusiveListProofs`.** Inserting into and deleting from a sequence
  without duplicates: what `Executor` and `Reactor` need of `list_add_tail`,
  `list_del` and the sorted insertion; and a few facts about numbers the other
  modules share, division with remainder among them.
- **`ReactorProofs`.** `ReactorInv` is sortedness, membership and `TimerInv`,
  which ties a timer's deadline to the clock at its arming. `TimersSound`, that
  no sleep is early, that none is forgotten, and that a park wakes somebody
  follow.
- **`RuntimeProofs`.** The composition, for any tasks and durations. The queue
  lemmas of `ExecutorProofs` and the invariant of `ReactorProofs` are used
  through instances, as `Runtime` takes the steps of those modules.
  `RuntimeInv` adds what neither of them knows: which leaves of a tree are
  fresh, wait, or were dropped (`TreeOK`), and that each leaf a resting task
  waits for has its task queued or a linked timer with its waker. `InPoll` is
  the same in the middle of a poll: the leaves this poll has passed already
  wait, those ahead of it may still be fresh. When the executor parks, some
  live task rests, so a timer is pending: it never stalls, and it only stops
  with nothing alive and no timer linked, which is `StopsClean`.
  `ImplementsReactor` shows each step to be one of `Reactor`'s, and
  `ExecutorSound` that what `Executor` assumes of futures and wake sources is
  what the library's own do: a timer holds the waker of live tasks only.
  `OnTimeTheorem` adds `TimeOK`: a linked deadline is the end of its leaf
  (`EndOf`), the clock never passes the end of a leaf a live task waits for,
  because a park stops at the earliest deadline, and a leaf is first polled at
  its start and dropped or READY exactly at its end. It holds as long as no
  deadline passes the end of the clock's type (`ClockInRange`); beyond that a
  deadline wraps (section 8) and the sum means nothing.
- **`CombinatorsProofs`.** `NodeInv` lists, for each kind and stage, which
  children are live, finished and dropped, and what is in `out`. Ownership, the
  outputs, that a node keeps `FutureContract`, so that trees do, and that a wake
  reaches the child it was meant for, follow. `MachineInv` says of the state
  machine when it has a current child and that this child may be polled; that
  a PENDING machine has a wake coming needs no more.
- **`IoDriverProofs`.** `IoInv` is the agreement of masks, slots, counter and
  futures, with `OneWaiter`: no two futures wait for the same direction of an
  fd at a time (`io.c:47-48`); and `BoxInv`, which ties the flag in a future's
  box to its polls: it tells a future that has had a slot from one that has
  not, but not one that still waits from one that is READY, which is finding 2.
  The four safety properties follow for any number of fds and futures and any
  distance of the timer, hang-ups, removals and drops after READY included.
- **`StreamProofs`.** `StreamInv` has one part for each thing that could drift
  apart: descriptors and handles (`Handles`), registrations and armed wakers,
  the futures' flags against their phase, the stage of a connection against the
  sockets that make it, and the bytes sent, on their way and received. A future
  that is closed over, dropped or resumed touches several parts at once, so
  that none is inductive alone. `FdsAccounted`, `PendingIsArranged` and
  `BytesExact` follow for any number of descriptors, any amount of data and any
  buffer; the model has one client and one server.
- **`StdProofs`.** For `Rc`, the count is the number of references. For
  `Arc`, `ArcInv` adds `LastOne` (while a reference is held nobody is leaving
  `std_arc_put`; after that exactly one thread is on its way to release, or has
  been) and `WritesReach` (each write is published on the count or seen by some
  owner; the thread that is last has it, or gets it with the fence). One
  release and a destructor that sees everything follow for any number of
  threads and references.
  For `list.c`, `ListInv` says that each anchor with its members is a ring in
  both directions (`Rings`), that no node is in two rings or twice in one
  (`Members`), and that an unlinked node points nowhere or to itself (`Loose`).
  Adding between two neighbours and unlinking are shown to change one ring and
  leave the others alone, for any number of lists and nodes.
  For `vec.c` and `string.c`, `VecInv` ties the block to the capacity and the
  element type (`Fits`). `RoundUpExact` is where the arithmetic is: a product
  that does not wrap, of a size that is a multiple of an alignment dividing
  2^`Bits`, is its own round-up, so that `sys_allocate` cannot wrap on behalf of
  a container. Growth then moves every element, and every call is a step of
  `SequenceContract`.
  For the hash map, `Inv` is types, exact counters (`CountsOK`), the load
  factor (`LoadOK`), the table's order (`TableOK`: no key twice, no EMPTY slot
  between a key's home and its slot) and how far a rehash has come
  (`RehashOK`). Counting slots gives the EMPTY slot that ends every probe;
  `TableOK` then makes the probe find what is stored, and `ImplementsMapTheorem`
  shows that the table behaves as a map call by call, a failed growth included.
  `IterInv` ties what an iterator has returned to the slots behind it, and both
  iterator properties follow, whatever is removed or overwritten meanwhile.
  That no array is leaked or given back twice is shown step by step
  (`ArraysStep`), the three allocations of a rehash and their failures included.

## 7. What is only model-checked

Liveness (`SleepsEnd`, `ReadyCompletes`, `ReadyMoves`, `RunEnds`, `Completes`,
`SmMovesOn`, and the fairness of `TaskScheduler` in `ImplementsScheduler`):
liveness under fairness, and the `ENABLED` it rests on, are out of the prover's reach. So is
what a recursive definition computes for every input, by induction over data;
no module here needs that. `OnTime` beyond the clock's range is not claimed
at all; in the run no deadline gets there.

## 8. Findings

1. `executor_stall`. `block_on` leaves a task alive when it returns false, with
   a pointer to a `bool` of the returned frame (`executor.c:234-235`). When the
   executor is driven again and that task completes, it writes through the
   stale pointer; if the new frame has the same place, the second `block_on`
   returns true for a future that is Pending.
2. `io_spent`. `interest_drop` cancels the slot if the future's `armed` flag and
   the slot's are set (`io.c:291-303`), as "our slot" of a future "dropped before
   firing". The flag is set at `io.c:282` and not cleared by READY (`io.c:286`).
   When a future has fired, another one for the same fd and direction is polled,
   and then the first is dropped, it takes the second one's slot: that one's
   waker is gone, and it stays Pending on a ready fd. The two never wait at the
   same time, so that the rule of `io.c:47-48` is kept. The stream futures drop
   a readiness future as soon as it is READY and are not affected.
3. `io_hangup`. `EPOLLHUP` and `EPOLLERR` are reported for registered fds with
   no interest. The park then wakes nobody and returns false (`io.c:219-244`),
   and the executor stops although other futures are outstanding. The capped
   wait of `io.c:208-209` has the same effect with a timer further away than
   2147483647 ms: `ParkMakesProgress` names both, and the proof shows that
   there is no third.
4. `stream_oom`. On EAGAIN or EINPROGRESS the stream futures build a readiness
   future and set `awaiting` without looking at it (`stream.c:120-124`). When
   its allocation failed it is the null future, which is polled at once;
   `future.c:119-122` says never to.

Seen while modelling, and not contradicted by any run, as no documentation
promises otherwise or the model keeps to a rule that excludes it:

- a deadline is a sum of two 64-bit numbers that may wrap (`reactor.c:254`), and
  a sleep of nearly 2^64 ns is then Ready at once;
- `write_all` that fails in the middle reports only the error, so that the
  caller cannot know how much was written (`BytesExact` has `known` for it);
- a connect polled without an out pointer loses the connected descriptor
  (`stream.c:365-371`) and a failed one writes through NULL (`stream.c:380`);
- freeing a vec of zero-sized elements leaves `len` and `cap` (`vec.c:132`);
- the comment of `cstd_abs_i32` (`math.c:23`) promises no overflow, and `x + mask`
  overflows for the most negative `x`.

## 9. What is not modelled, and why

- `tcp.c` beyond what it forwards: it formats addresses and reads a port back.
  `math.c` and `geom.c` are stateless one-line functions, `mem`, `types`, the
  crate roots and the demo have no behaviour worth a model.
- `block_on` called from inside a poll: `Executor` has one drive loop at a time.
- Combinators over the null future: their constructors take any future, and
  the contract they are checked under excludes it. `StateMachine` has it.
- `epoll_wait` interrupted by a signal: it returns as if nothing had happened
  and is repeated; the time lost is not modelled. A socket call interrupted by
  one is repeated at once and leaves no trace.
- Streams: data in the direction from server to client, which runs through the
  same code; more than one connection at a time; a readiness future that
  outlives its handle's registration (`fd.c:20-21` forbids it) or two futures
  on one direction of an fd (`io.c:47-48`); polls without an out pointer.
- Runtime: `map`, deeper trees and the system clock, which `Combinators` and
  `Reactor` have.
- Containers: a view into a string's own buffer passed to push_str, and a
  pointer from get kept over a growth, are dangling by the rules of C; the
  models have values, not addresses. More references than the count's type can
  count: nothing in `rc.c` and `arc.c` prevents it, and the assumptions of the
  modules exclude it.
- The size of keys and values of the hash map, and who frees them: a map of
  addresses behaves alike whatever they hold.
