# Verification of the OpenCentauri DSP firmware

TLA+ models, TLC runs and TLAPS proofs about the firmware that runs on the HiFi4 DSP of an Allwinner R528 next to a Linux ARM, and
about the U-Boot driver that starts it. All paths below are relative to the repository root. `PROJECT.json` holds the machine-readable
side: which lines each definition translates, which run checks what, which mistake each property notices, the findings and the hazards.

## 1. Inventory

| Component | Source | State it keeps | Operations | Talks to |
|---|---|---|---|---|
| Shared space, data path | `src/sharespace.c`, `src/sharespace.h` | two 4 KiB regions in uncached memory, one MsgHead per side (read and write position) | `sharespace_write`, `sharespace_read` | the ARM's kbuf driver, through memory only |
| Shared space, handshake | `src/sharespace.c` | the pointers to the regions and heads, the DTS-configured addresses | `sharespace_get_config`, `sharespace_fake_init`, `sharespace_clear`, `sharespace_reinit`, `sharespace_init` | the ARM, the image header the bootloader patched |
| Application | `src/main.c` | one 4096-byte buffer | `main`: init, five greetings, then an endless echo | shared space, log |
| Log | `src/log.c` | a write position and a text area in shared memory | `log_init`, `log_clear`, `lprintf` | the ARM reads it |
| RPMsg over the message box | `src/rpmsg.c`, `include/platform.h` | reassembly buffer and counters, an endpoint table, the hardware FIFOs | `rpmsg_init`, `rpmsg_create_endpoint`, `rpmsg_send`, `rpmsg_rx_data`, the mailbox interrupt | the ARM, through two 8-word FIFOs and an interrupt |
| Boot | `host/uboot-driver/dsp/` | clock gate, reset, run-stall, SRAM remap, reset vector, the loaded image | `sunxi_dsp_init`, `load_image`, the `dts_*_msg` patching | U-Boot, the DSP hardware |
| Kernel: queues, mutexes, sets | `kernel/FreeRTOS/queue.c` | a ring of items, two event lists, two lock counters | send, receive, peek, reset, the ISR calls, lock and unlock; semaphores and mutexes; queue sets | tasks, interrupts, the scheduler |
| Kernel: scheduler | `kernel/FreeRTOS/tasks.c`, `list.c` | ready, delayed, pending and event lists, the tick count | create, delete, suspend, delay, block, wake, tick, notify | everything |
| Kernel: event groups, stream buffers, timers | `kernel/FreeRTOS/` | bits and waiters; a byte ring; two timer lists and a command queue | set, wait, sync; send, receive; start, stop, expire | tasks, interrupts, the scheduler |
| Heap | `kernel/MemMang/heap_4.c` | an address-ordered list of free blocks and a free-byte counter | `pvPortMalloc`, `vPortFree` | kernel, application |
| Port, startup | `kernel/portable/`, `arch/`, `oemhead/` | interrupt and exception tables, the tick, the cache attributes | context switch, tick, vectors | hardware |

The firmware that is built (`Makefile`) runs `main` on the only thread and never starts the scheduler; the kernel and its heap are linked
beside it. `src/rpmsg.c` is in the repository and commented out of the build; `host/` is built with U-Boot.

How they interact: U-Boot patches the device tree's addresses into the image's header, loads the image and releases the DSP (*Boot*).
`main` opens the log and the shared space at the addresses it finds there (*Log*, *Handshake*), greets the ARM, and echoes
(*Application* over *Data path*). RPMsg is the other way to reach the ARM. The kernel's parts call each other: a queue blocks and
wakes tasks through the scheduler's lists, everything dynamic comes from the heap.

### What makes each part correct, and what is hard about it

* **Data path.** Two processors share a ring with no lock: each writes its own head and copies with one or two `memcpy`s between
  reading the other's head and publishing its own. What must hold: a stale head is stale on the safe side, no two copies meet, an
  exact fit is refused (full and empty would look alike), the copy that ends at or crosses the end wraps before it reaches the head.
* **Handshake.** Two processors boot in any order and exchange addresses through a head that both of them write, in memory that
  survives a reboot. The DSP must end at the regions the ARM of *this* run offered.
* **Application.** A chunk that was read is either echoed whole or dropped whole; the result of `sharespace_write` is ignored.
* **Log.** Text wraps to the start when it does not fit; the terminator and the position must stay inside the area, and the position
  must move last, because the ARM reads without a lock.
* **RPMsg.** A message is cut into words, the words go through a FIFO of eight, the interrupt drains the FIFO into one reassembly
  buffer; a word that arrives while the handler is about to return must not be left behind.
* **Boot.** The order of clock, reset, run-stall, remap and load, and what an early return leaves behind for the next attempt.
* **Queues.** Interrupts and tasks on the same lists, the queue lock, the window in which a blocking call has decided to block but
  has not yet, time-outs that race with the item they waited for, priorities.
* **Scheduler.** A task is in at most one list of states and one of events, and an object that blocks it, a time-out, a tick that was only
  counted and a change of its priority all move it. The switch that becomes due while it cannot be made must not get lost; the
  tick count wraps.
* **Mutexes.** The holder runs at the priority of whoever waits, through nested mutexes, time-outs, and while it is itself blocked.
* **Event groups.** Bits are tested, cleared and handed out in one pass over the waiters; one whose time is over looks once more.
* **Stream buffers.** No lock at all: two positions, one handle of a waiting task on either side, and notifications others may send too.
* **Timers.** A daemon that may come late for its commands and its timers, across a wrap of the tick count.
* **Heap.** Any order of frees must leave no two free neighbours unmerged; accounting; sizes near the top of `size_t`.

## 2. Plan

In order of importance to the firmware. Done:

1. `SharespaceRing`, `ByteFifo`, `Sharespace`, `SharespaceProofs`: the data path, the stream it implements, its proofs.
2. `EchoMain` composes `Sharespace` with `main`; `LossyEcho` is what the firmware as a whole promises.
3. `SharespaceInit`: the handshake.
4. `DspLog`, `Rpmsg`, `DspBoot`.
5. `FirstFit` and `Heap4`; `BoundedQueue` and `Queue`.
6. `Tasks`, which implements `Alarm`: the scheduler. On it `Semaphores` (mutexes with priority inheritance), `QueueSet`, `EventGroup`, `StreamBuffer`
   and `Timers`, and `Kernel`, their composition.
7. Proofs: `SharespaceProofs` (the data path and the application), `SharespaceInitProofs`, `DspLogProofs`, `RpmsgProofs`, `DspBootProofs`,
   `QueueProofs`, and of the kernel `SchedulerProofs` (what each operation does to the lists) and `KernelProofs`. Section 4 says what they prove.

To come:

8. Theorems about the kernel beyond its lists: `WaitEndsOnTime`, `PriorityInherited`, `StreamInOrder`.
9. Queues with items as members of a set, and `Queue` on top of `Tasks` in the place of its own small scheduler.

## 3. The modules

Each component has a module that is its state machine, some have a second, abstract one that they are shown to implement, and an `MC`
module that gives the constants values for TLC. Definitions that are named after another with a suffix (`FreeSizeInclusive`,
`UnlockTxOnce`) are plausible mistakes in it; they are used by nothing and are there to show which property would notice.

### Shared space, data path: `SharespaceRing`, `Sharespace`, `ByteFifo`

`SharespaceRing` holds the pure address arithmetic: free_size, msg_size, the length of the first `memcpy` and the position stored
afterwards. `Sharespace` holds the state machine: `toArm` and `toDsp` are the two regions, cell by cell; `dspHead` and `armHead` the
two MsgHeads; `dsp` the call in progress (its `pc` says which `memcpy` comes next). `WriteBegin`/`WriteRefuse` are the snapshot of
the heads and the decision at `src/sharespace.c` 191-212, `WriteCopy1`/`WriteCopy2` the two `memcpy`s, `WritePublish` the store of the
head; reading is alike. The ARM's code is not in the repository: it is modelled as the peer the code assumes, the same discipline
mirrored, with an independent reader and writer. The cells' initial value `Junk` is not a byte, so reading a cell that nobody wrote,
or writing one outside the ring, is visible.

The regions are mapped uncached by the attributes `arch/board-init.c` sets, so the cache operations of the code have no effect and
are not modelled. A `memcpy` is one step: `NoCopyRace` shows that nobody looks at its cells meanwhile.

`ByteFifo` is the promise: a bounded stream, messages appended whole. Each direction is mapped to it (`ToArmIsFifo`, `ToDspIsFifo`):
the stream is what lies between the two positions.

### The application: `EchoMain`, `LossyEcho`

`EchoMain` extends `Sharespace` with the program counter of `main` and with an ARM that writes a script of numbered bytes in pieces of its
choice. Every call of `main` is the sequence of steps of `Sharespace`, so the ARM still moves between any two of them. `LossyEcho` states
the promise without rings or positions: three streams (in, in hand, out), a piece is taken, put out whole, or lost whole for want of room.

### Shared space, handshake: `SharespaceInit`

Locations of heads are names: the one in the device tree, those in the two regions, those an earlier run used, and the one a null
pointer would name. A head is copied word by word (`memcpy`, ascending), because the other processor may store in it between two words.
The device tree's head starts as any of `LeftOver`, what an earlier run can have left. The ARM is external: it prepares its regions, offers their
addresses when it sees `init_state` 2, offers again what was overwritten, and acknowledges when it sees the DSP's `init_state` 1.

### The log: `DspLog`

A message is a name and a length, a cell holds a byte of a message, a NUL or a byte of the position. The copy, the terminator and the position are separate steps
because the ARM may look between them. `lap` remembers the messages since the last wrap and where each
begins, for the property only. `LogAssumption`: every message fits into the area with its terminator, as the callers' lines do into 4 KiB.

### RPMsg: `Rpmsg`

The thread (`dsp_msgbox_init` with `rpmsg_init` and the announcement it sends, one word at a time), the interrupt handler (one step per access
to the message box), and the external message box and ARM. A full FIFO drops what is written to it. `boot` says how far the thread is,
`re` is the reassembly state of `rpmsg_rx_data`. The clock and reset writes of the message box and the unused address translation are left out.
`ArmStream` is what the ARM sends, word by word, and `Starts` says where in it each message begins. They are constants only so that nothing has to
be concatenated by recursion; `StreamAssumption` ties them to the messages, and TLC evaluates it.

No code compares the length in a header with the 512 bytes of `rpmsg_rx_buffer` (`RPMSG_MAX_MSG_SIZE`, `src/rpmsg.c:88-89`): the `memcpy` at 119 stores a
longer payload past the buffer's end. What lies there is the linker's choice, so from the first word that does not fit (`RxPayload`) the model says either that it
was not in use, and goes on, or that it was: `damaged` is set, and then each word may bring the callback anything or nothing, or stop the DSP (`Undefined`). The properties say what
holds until then, and that nothing else brings it about: `ReceivesIntact` that `damaged` takes a message longer than the buffer, of which more words have been taken than fit,
and `AlwaysDrained` and `InitReturns` promise nothing after it.

### Boot: `DspBoot`

`reg` holds the clocks, reset, run-stall and vector registers, `remap` the local RAM's owner, `call` the progress of `sunxi_dsp_init`; an
early return leaves everything as it is and U-Boot may call again with another image. The registers take a write only while
their bus clock is on and they are out of reset. Device tree nodes are absent, disabled, okay, or okay without the property that is read.
A shared space's "reg" has any number of cells as far as the eight `dts_sharespace_msg` has room for (`RegCells`; it does not check, a longer one would be
stored past its array). Only a "reg" that cannot be read closes the shared space (`host/uboot-driver/dsp/common/dsp_fdt.c:279`): one of fewer than six cells leaves it open, with zeros for
what is missing, and `TellsTheTree` says just that.
`ImageAssumption` says what the linker makes sure of: segments lie side by side in memory the DSP has, none holds more bytes in the file than in memory, and
the one that begins with the header is long enough for the message. Files that the code refuses (no header section, no string table) are among the images.

### The heap: `Heap4`, `FirstFit`

Headers lie in `mem` at their addresses, as in the code, and a block's header and list link are where the application could reach them; its
writes over all of what it asked for are part of `Malloc`. `vPortFree` is two steps, because the mark is cleared before the scheduler
is suspended. A `size_t` has `W` bits. `FirstFit` knows no list: gaps between blocks in use, the lowest that is long enough. A request that fails is a step of it that
shows (`refused`), and only one for which no gap is long enough may: so `IsFirstFit` forbids a failure without need as well as a block in the wrong place.

### Queues: `Queue`, `BoundedQueue`

A task's call is a sequence of steps, each a critical section or a stretch with the scheduler suspended: `Send`/`Receive`/`Peek` (the look
at the queue), `LockQueue`, `Test`, `Place` (on the event list), `UnlockTx`, `UnlockRx`, `ResumeAll`, and for receivers `FailIfEmpty`.
`SendFromISR` and `ReceiveFromISR` come between any two; while the queue is locked they only count. `blocked`, `xPendingReadyList` and `suspended` are
the scheduler's side. A tick can end any limited wait; ticks during a suspension are made up for on resume. Any ready task may take the next
step: the real scheduler would choose the one of highest priority, so the model allows more, and safety carries over.
`PutInOrder` and `Off` are `vListInsert` and `uxListRemove`. `CallAssumption` is what `queue.c` asserts of its callers (754, 755, 964, 965): a send has an item,
and only a queue of one place is overwritten. `BoundedQueue` is the promise: each operation happens at one instant.

### The kernel: `Tasks`, `Semaphores`, `QueueSet`, `EventGroup`, `StreamBuffer`, `Timers`, `Kernel`, `Alarm`

`Tasks` is `tasks.c`. `sched` is one record with a field for each of its variables and lists; what the kernel does to them are operators on that
record (`MakeReady`, `PlaceOnEventList`, `RemoveFromEventList`, `Advance`, `SuspendAll`, `ResumeAll`, ...), so that a critical section that
calls several of them is their composition. `call` says where each task is in the call it makes; only the current task takes steps. The tick
(`IncrementTick`) and the other interrupts (`Interrupt`) come between any two of them. A ready list is a set and the next task any one of the
highest list, which covers the round robin. A section in which the scheduler is suspended is one step as far as `xTaskResumeAll` wherever no
interrupt can tell; where one can (a take of a semaphore, the stream buffer, the timer daemon, the calls a task makes while it has the
scheduler suspended) every part is a step; so is the switch after the critical section of a creation (`CreateEnds`), at which the task that created a higher one
still runs. `Alarm` is the promise to those who wait for a time; `Tasks` implements it (`IsAlarm`), through
the wrap and through ticks that are made up for.

`Semaphores`, `EventGroup` and `StreamBuffer` extend it, each with the state of its objects and a step for every critical section of its calls.
`Semaphores` follows `xQueueSemaphoreTake` as far as its last look after a time-out; `Inherit`, `Disinherit`, `DisinheritAfterTimeout` are the
three functions of `tasks.c`. `QueueSet` adds a set of semaphores: the set's queue is one more semaphore whose takes, steps and all, are those of
`Semaphores`, with the handles in it beside; `selected` is what a task has been handed and not used yet. In `EventGroup` the value of a waiter's event item is a set of bits and control bits, as it is a word of them in the
code. `StreamBuffer` keeps the ring cell by cell and the two positions, with a step for each access that the other side, an interrupt perhaps,
can come between; bytes are numbered as they are sent, for the property only. `Timers` has the commands, the queue they wait in, and the daemon
from `DaemonLooks` (what it knows when it decides to sleep or to expire a timer) to `DaemonObeys`; `due` and `early` are for the property only.
It uses the event group for what interrupts pend. `Kernel` composes them all.

What tasks and interrupts do is data: `MCKernel`'s programs say which calls each may make, any number of times and in any order. What the code
asserts or leaves to its caller is a guard of the call: a semaphore is not waited for with the scheduler suspended, a mutex is given by its
holder, a member of a set is taken only after it was selected, nobody deletes a task that holds a mutex, a buffer has one reader and one writer.

| Run | Bounds | Shows |
|---|---|---|
| `Sharespace` | rings of 4 bytes (3 usable), messages of 1 and 3 bytes over two byte values both ways, a `max_len` of 2 | positions stay in the ring, what a call saw stays reserved, copies never conflict, the heads are never overwritten, each direction is a FIFO: nothing lost, repeated, reordered or torn |
| `Echo` | two greetings, a script of 4 bytes in pieces of 1 to 3, rings that hold 3 | the echo is in order and lossy only by whole chunks for want of room; nothing lingers; an ARM that waits for the greeting and leaves room gets all of it back |
| `SharespaceInit` | every boot order, three kinds of leftover memory | the DSP adopts this run's regions, writes nowhere else, is ready only when acknowledged, and both get ready |
| `DspLog` | an area of 16 bytes, messages of 1, 2 and 4 in every order | nothing outside the area or on the position is written; a reader finds whole messages |
| `Rpmsg` | FIFOs of 2 words, an announcement of 4 words, a reassembly buffer of 8 bytes, five messages: of none, 3, 8, 9 and none | messages arrive whole and in step until one that is longer than the buffer overwrites what is behind it, the announcement is sent whole, the FIFO is drained, `rpmsg_init` returns; channel 0's interrupt is taken to be enabled by other means |
| `Rpmsg_irq` | the same, with only what `src/rpmsg.c` enables | **violated**: channel 0 is never served |
| `DspBoot` | five images, every device tree of 448 (a "reg" of 0, 5, 6 or 8 cells among them), both values of run_ddr, calls repeated until one starts the DSP | the DSP executes only the whole image with its RAM its own; the message it reads says what the tree says; a good image boots |
| `Heap4` | 10 units, 6-bit `size_t`, 8 request sizes, two tasks | first fit with complete merging and no failure without need, accounting, the assertions of `vPortFree` |
| `Queue` | a queue of 2, three tasks of two priorities, interrupts that send and receive, at most 2 counted while locked | no task forgotten, no lost wakeup, a bounded queue, first come first served |
| `Queue_mailbox` | a queue of 1, two tasks, overwrite, reset, peek | a bounded queue with the operations a single place allows; a send with a limit ends |
| `Kernel` | twenty-four programs of up to three tasks, the idle task and the daemon; below | the lists agree, the highest runs (but for `FallsBack`, below), waits end on time, the holder of a mutex has the priority it must, a stream arrives in order, nobody waits for what is there, all or none meet, timers are called on time |
| `Kernel_latestop` | one task that stops a timer the daemon is late for | **violated**: the timer goes on |

Why these bounds are enough to be interesting. A ring of four makes every case of the arithmetic happen: messages that end before the end,
exactly at it, or cross it with each split, find the ring full, and find it one byte short; reads find less than, as much as and
more than `max_len`. The log's area is filled to the last byte, to the last but one, and missed by one. A FIFO of two is no longer than
any message with its header, and so is full, empty or both in the middle of each. The heap has room for five blocks without payload, so a freed
block can have a used or a free neighbour on either side, and the requests include 0, one with the top bit set and one that wraps when the header is
added. Three tasks on a queue let a wakeup go to a task that finds its item taken by the third while an interrupt sends; `LockMax` 2 makes the
unlock loop run twice and is the bound on that counter (the code's is a signed char without a check). All other variables of these runs are bounded by the
constants; nothing else is capped.

`Kernel`'s tick count has four bits and starts at 13, so that it wraps at the third tick and a wait can begin before the wrap and end after
it, or at it. A program comes with the number of ticks in it, up to 7, enough for each wait in it to end and for another
to begin; four priorities leave one for inheriting between any two. A notification value counts to 2 and stays there (`MaxValue`), a locked semaphore
is given and a recursive mutex taken twice at most (`MaxTimes`). The stream's ring of 5 is filled to the last place but one, wraps
inside a message and inside its length, and numbers its bytes modulo 6, so that a byte from the last time round is told from a new one.
The command queue holds two, and can be full. The programs, by what happens in them:

| Programs | What happens |
|---|---|
| `Delays`, `Lives`, `Notifications` | delays from now and from the last time, across stretches without switches; tasks that are created, deleted, suspended, resumed and given other priorities, by others and by themselves; every kind of notification |
| `Inheritance`, `GivenUp`, `TwoMutexes`, `Signals`, `HolderWaits`, `Sets` | a mutex that the lowest task holds while two wait, one with a limit, beside a recursive one; one task that holds two, each with a waiter, of which one gives up, or that gives them in any order while its own priority is set higher and lower; a semaphore that interrupts give and take while it is locked; a holder that waits for bits when it inherits; a task that selects from a set of two, and takes one of them out and puts it back |
| `Meeting`, `Missing`, `Flags` | three meet for ever; two meet or give up, while a third clears; waits for any and for all with limits, and the group's end |
| `Stream`, `NotifiedReader`, `LimitedStream`, `Messages`, `FromInterrupts`, `ToInterrupts`, `TooLong` | a reader above, below and beside its writer; notified by others as well; limits, trigger level, reset; messages; one side an interrupt; a message longer than its reader has room for |
| `OneShots`, `StoppedByInterrupts`, `AutoReload`, `Renewed`, `PendedBits` | a daemon that comes late; commands from interrupts; timers that go on through two wraps; one that is deleted and made anew; functions that are pended |

Deadlock is checked except where the system may stop: `Rpmsg` (all is sent), `DspBoot` (the DSP runs), `Queue` (every task may wait for ever). In `Kernel` it is: the idle task always runs on.

### Fairness

* `Echo`: `main` is the DSP's only thread and never blocks; the ARM keeps reading and finishes what it has begun to write. It need not write.
* `SharespaceInit`: the DSP runs nothing else; the ARM boots at last and keeps looking.
* `Rpmsg`: thread and handler run until they stop by themselves, a raised interrupt is taken, the ARM keeps sending and receiving.
* `DspBoot`: the call in progress goes on. `Boots` is about a call that passed its checks.
* `Kernel` claims no liveness: what a task waits for is stated as safety (`NobodyLeftWaiting`, `WaitEndsOnTime`), because with unequal
  priorities the low one may starve.
* `Queue_mailbox`: strong fairness of each task's next step and of its tick. It stands for time slicing among tasks of *equal* priority
  (`configUSE_PREEMPTION` 1), which is why the tasks of that run have one; with unequal priorities the low one may starve, and no
  liveness is claimed. It is strong because another task's suspension of the scheduler disables a task again and again, and the tick
  that ends a wait comes although others run.

### Findings

* `src/rpmsg.c:198` enables the interrupt of channel 2, the *number* of channels, which no handler serves (`Rpmsg_irq`).
* `kernel/FreeRTOS/timers.c:503` restarts an auto-reload timer that it is a period late for with a command at the back of its own queue; a stop
  that is in the queue already is obeyed first and undone (`Kernel_latestop`).

What reading the code for the models also showed, which no run is about; where a property would see them it names the case, or the programs of the passing runs leave it out:

* `src/sharespace.c:158` copies the positions before the flag that vouches for them, so that `sharespace_arm_addr` may be older than the
  acknowledgement it is logged with. Only the log uses it.
* `kernel/FreeRTOS/queue.c:824`: giving a mutex that wakes a waiter switches only if that waiter has the higher priority; when the giver falls back to its
  own priority and a third task is above it, that one waits for the next switch, which need not be the next tick (`tasks.c:2756` compares only tasks of the current
  priority). The comment at `tasks.c:4085-4092` says that returning the last mutex is a context switch "whether a task is waiting on the mutex or not". `TwoMutexes`
  does it: a giver of two mutexes, for the last one a waiter that is not above the giver's own priority, and the third task ready. `HighestRuns` names this step
  (`FallsBack`) as the one exception, and without it TLC finds the property violated.
* `tasks.c:1618`: setting the priority of a task that holds a mutex and has not inherited sets the one it runs at as well, even below that of a task that waits for the
  mutex. Then the holder runs below its waiter until another one waits. `PriorityInherited` is about programs that do not do this.
* `stream_buffer.c:568`: what is left of a sender's time is computed before it waits again (565), so ticks in between prolong the wait. `WaitEndsOnTime` is about the
  other calls, which compute it with the scheduler suspended.
* `src/rpmsg.c:119` stores a payload longer than `rpmsg_rx_buffer` past its end, and `dsp_fdt.c:279` leaves a shared space open whose "reg" is too short: see the models above.
* `queue.c:793` and 1011 hand `queueOVERWRITE` on to the set: overwriting an *empty* mailbox that is a member of a set with other handles in it
  overwrites one of those, and the set has an event too few. From an interrupt (1011) overwriting a full one notifies the set once more,
  which the call from a task avoids (786).
* `queue.c:2826` looks whether the member it is to remove is empty before it enters the critical section; an interrupt that gives it in
  between leaves its handle in the set. In `Sets` no interrupt gives the member that is removed.
* `tasks.c:1797` takes a task that waits for a notification for ever for a suspended one, so `vTaskResume` ends its wait. From an interrupt
  (`tasks.c:1897`) while the scheduler is suspended it goes to the pending ready list, still marked as waiting; a notification in the same stretch
  appends it there a second time (`tasks.c:4924`), through the same list item.
* `tasks.c:3951`: a task that inherits while it waits on an event list gets the new value but keeps its place in that list.
* `queue.c:1505` asserts that no priority was inherited when a take finds its time over; another task may take the mutex between the last look
  (1594) and that one, and then it was.
* `stream_buffer.c:927-948`: a reader whose room is too small for the next message reads its length and puts the tail back; for that moment the
  writer sees the room, and may use it.
* `timers.c:503` and 899: the result of that restart is only asserted on; with a full queue (and assertions off) an auto-reload timer is lost.
* A one-shot timer that expires in `prvSwitchTimerLists`, or by a start that comes late, stays marked active, although
  `include/freertos/timers.h:412` calls an expired one-shot timer dormant.

### Hazards without a property

`PROJECT.json` lists the hazards with the line where they bite. No property covers text longer than `lprintf`'s buffer (`src/log.c:64`; no caller logs
any). Not listed there, because the model rules them out: both message box channels at once (the ARM uses one), a second start of a
running DSP, the overflow of the queue's lock counters, which are signed chars without a check.
The single wakeup of a reset of a queue of more than one place is the hypothesis of `WakeupsAreKept`.

## 4. The proofs

What TLC checks on a small instance, TLAPS proves for every value of the constants. Each proof module extends the module it is about.
An invariant that needed strengthening was first checked by TLC on the run's instance, then proved inductive, action by action.

| Theorem | Module | States |
|---|---|---|
| `PositionsStayInRing` | `SharespaceProofs` | `Spec => []TypeOK` |
| `TypesAndReservations` | | `Spec => [](TypeOK /\ Reserved)` |
| `CopiesNeverRace` | | `Spec => []NoCopyRace` |
| `CopiesStayInRing` | | `Spec => []HeadsNotOverwritten` |
| `WritesAreAFifo` | | `Spec => ToArmIsFifo` (refinement of `ByteFifo`) |
| `ReadsAreAFifo` | | `Spec => ToDspIsFifo` (refinement of `ByteFifo`) |
| `MainIsALossyEcho` | | `EchoSpec => IsLossyEcho` (refinement of `LossyEcho`) |
| `OfferAdopted` | `SharespaceInitProofs` | `Spec => []AdoptsTheOffer` |
| `WholeHeadSeen` | | `Spec => []ArmSeesWholeHead` |
| `BothReady` | | `Spec => []ReadyIsMutual` |
| `LogStaysInside` | `DspLogProofs` | `Spec => []StaysInside` |
| `LogIsReadable` | | `Spec => []LapIsReadable` |
| `AnnouncementIsWhole` | `RpmsgProofs` | `Spec => []SendsIntact` |
| `MessagesAreWhole` | | `Spec => []ReceivesIntact` |
| `FittingMessagesAreWhole` | | `Spec => [](~damaged /\ InOrder)`, if every message fits in the buffer |
| `ImageIsInPlace` | `DspBootProofs` | `Spec => []RunsTheImage` |
| `MessageTellsTheTree` | | `Spec => []TellsTheTree` |
| `WaitersAreFound` | `QueueProofs` | `Spec => []NobodyForgotten` |
| `WakeupsAreKept` | | `Spec => []NoLostWakeup`, of a queue of one place or one that is not reset |
| `WaitersKeepTheirPlaces` | | `Spec => FirstComeFirstServed` (an action property) |
| `QueueIsBounded` | | `Spec => IsBoundedQueue` (refinement of `BoundedQueue`) |
| `KernelListsAgree` | `KernelProofs` | `Spec => []ListsAgree`, of `Kernel`, for all programs |

They rest on the assumptions that the modules name, and on no others: `AddrAssumption` and `MsgAssumption` (the ring is not empty, messages are nonempty
sequences of bytes, `Junk` is not a byte), `LogAssumption`, `RpmsgAssumption` and `StreamAssumption`, `ImageAssumption` and `BoardAssumption`,
`QueueAssumption` and `CallAssumption`, `EchoAssumption`, and of the kernel `TasksAssumption`, `SemaphoresAssumption`, `EventGroupAssumption`,
`TimersAssumption` and `KernelAssumption`. TLC evaluates each of them in a passing run. Queues have one bound more, `LockMax`, which is at most 127 but otherwise free.

### The data path

`TypeOK` says that positions are in the ring, which is not enough to know where a copy goes. `Reserved` strengthens it: the room
(or the bytes) that a call saw in its snapshot is still there, as seen from the *current* heads, until the call publishes. It is
inductive together with `TypeOK`: the other side's publishing only enlarges the room (`FreeGrows`, `WriterAdvances`), and the call's own publishing uses it
up. That two copies of a direction never meet is then the arithmetic lemma `ReadAndWriteDisjoint`: what lies between the
positions and what lies beyond them are disjoint arcs. That no copy leaves the ring follows from the bounds of the first part's length
(`FirstLenBounds`): a first `memcpy` ends at `MAX_ADDR` at the latest and a second one starts at `MIN_ADDR` with less than a ring.

For the refinement, `FInv` adds `InFlight`: how far each copy has come, byte by byte. Then the contents between the positions change only when
a position is published, by exactly the message or the bytes that were read; every other step is a step of the stream that stutters.

### The application

`EchoInv` adds to `FInv` where `main` is (`MainFollows`: which call it is in or has come back from, and that what it is about to echo is a nonempty piece of what the
ARM wrote). Each step of the shared space is then a step of `LossyEcho` or a stutter: what a published read took is a piece taken, a published write
puts out what is in hand, whole, and a write that is refused loses it, whole.

### The handshake

`HandshakeInv` follows the two processors through the copies, word by word. `FilledOrOffered` says that the words of the device tree's head that the DSP has
filled hold the filler or the answer of this run's ARM, nothing older; `ReadBackOrOffered` the same of the DSP's own copy; `Pointers` which head the DSP works on;
`NoAnswerBeforeBoot` that no answer is found before this run's ARM has booted; `DspHeadGrows` that the DSP's head is written in the order of its words, the
flag last; `ArmFollows` that the ARM acknowledges what it has seen whole, and is up when the DSP is told so. All of it is needed at once: what the DSP adopts
depends on what the ARM may have overwritten, and that on what the ARM has seen.

### The log

`LInv` keeps, of each message of the lap, that its bytes are in their cells (`Written`), that each begins behind the terminator of the one before (`Chained`), and,
of the call in progress, what it has written so far. The step that could destroy it is a copy to the start of the area while the old lap is there, and that is the
case in which `LapIsReadable` promises nothing until the position moves and a new lap begins.

### RPMsg

`SInv`: from the endpoint's creation on, what the ARM took, what is in the FIFO and what is unsent make up the announcement, and the thread that has seen room
still has it when it writes. `RInv`: the words taken so far end inside exactly one of the messages, at the place that the
reassembly record says (`InMessage`, with the cases of a header, of a payload and of none), what is in the FIFO is the next stretch of `ArmStream`, and
what was delivered is the messages before that place without those that were dropped before there was an endpoint. All of this is known as long as nothing behind the buffer was
overwritten; the word that does it is stored past the buffer's size, so that the message in hand is longer than the buffer (`Overrun`), and that stays true.

### Boot

`BInv` ties the registers and the remap to the place in `sunxi_dsp_init` (in reset or stalled until it runs, the RAM remapped from `RemapOff` on) and says which segments are
in place. That loading one leaves the others alone needs that targets are disjoint, which patching the header does not change.
Which message the firmware finds follows the message from the tree into the segment and from there, with the segment's load, to the address that the header is looked up at.

### The queue

`QInv` has four parts beside the types: what is known of a call at each place of its loop (`Control`), that the queue is locked exactly between
`prvLockQueue` and `prvUnlockQueue` by the task that has suspended the scheduler (`Locking`), that a blocked task will look again
(`Waiters`), and that the blocked tasks are those on the lists and on the pending ready list (`Blocks`). `NobodyForgotten` and, with lemmas about
`PutInOrder` and `Off`, `FirstComeFirstServed` follow.

`NoLostWakeup` is not inductive. A task that has seen an empty queue and is about to place itself on the list must be counted already, because
nothing it does then would look again: `WakeReceiver` and `WakeSender` state the bound also while a task is at `Place`. Between its look (`Test`) and its place
only interrupts add items, and those count in `cTxLock`. The rest is counting: what an action adds to the items it adds to the tasks that
are about to look or to the lock. The hypothesis of `WakeupsAreKept` is needed: `xQueueGenericReset` (`queue.c:278`) frees every place of the queue and
wakes one sender. In a queue of more than one place the other senders wait on with room in the queue, until
somebody receives. The comment there says that one should be unblocked, and one is; the theorem says for which queues that is enough.

For the refinement, `PointersMeet` says that `pcWriteTo` and `pcReadFrom` are as far apart as there are items. The items are the cells between them;
a send to the back, one to the front, an overwrite, a receive, a peek and a reset each change that sequence as `BoundedQueue` says.

### The kernel

`ListsAgree` is about the lists of the scheduler, but whether they stay sound depends on every caller: an operation that may block the current task is
wrong if that task is in an event list, one that suspends the scheduler leaves ticks and tasks pended for whoever resumes it, and a notification
puts a task in the ready list only if it waited for one. `KInv` therefore has, beside `Core` (the lists, the wake times and the tick count) and `Settled` (nothing is
pended unless the scheduler is suspended), `CallsFit`: of each task, where in its call it is (`Shape`), and what that
says of the scheduler. Who has it suspended is the one task that runs, and how often; who waits for a notification is in no event list;
a task that has blocked itself yields before anything else.

`SchedulerProofs` has one lemma for each operation of the scheduler: it keeps `Core`, and what it changes is of one of a few kinds
(`Benign`: what it moves are other tasks that wait, to ready lists; `FallsAsleep`: it blocks the current task and nothing else), so that `KernelProofs` can show for each kind
once that the other tasks' calls still fit. That leaves, of each of the actions, what happens to the call of the task that acts, and the objects.
Two facts about the timer daemon had to be added (`TimerLists`): the values of the overflow list are behind the last look at the tick count, so that
the daemon never waits for no time at all, which would put it in a delayed list with a wake time of now.

The programs are a parameter. `KernelAssumption` says what one may be: calls have arguments that the code asserts, the idle task makes no calls and is not
suspended or deleted, and an interrupt resumes no task that may wait for a notification. The last is a rule that nothing in the code states (see the findings): without it the
theorem is false.

### What stays with TLC

* Liveness and fairness (`AlwaysDrained`, `InitReturns`, `Boots`, `LimitedSendEnds`, the echo's and the handshake's): out of the prover's reach.
* `Heap4` and `FirstFit`: the list of free blocks is walked by recursion, so what `Malloc` and `Free` find in a list of any length is a matter of induction over data.
* Of the kernel: `WaitEndsOnTime`, `PriorityInherited`, `StreamInOrder`, `NobodyLeftWaiting`, `MeetTogether`, `TimersOnTime` and the refinement `IsAlarm`, not yet proved.
* `HighestRuns`, with the exception it names, of the programs of the run.

## 5. What is not modelled

* Of queue sets: queues with items as members, and selecting from an interrupt. The kernel's queries (counts, states, names, handles), the memory of tasks and objects (creation takes what it
  needs from `Heap4`; here tasks and objects exist or do not), `vTaskStepTick` (nothing suppresses ticks), `xTaskAbortDelay` and co-routines (not
  configured), thread-local storage, statistics and tracing. Of stream buffers: creation, deletion, the query of the next message's length, and
  the completion calls meant for another core. A task that waits for a place in the timers' command queue is left to `Queue`. Nothing in
  the firmware uses these parts yet.
* Most lines of the repository are headers: declarations of the kernel's interface and of the processor's instructions and registers, which have no
  behaviour to model.
* The port and the startup code: registers, stack frames and vectors are below what a state machine can tell right from wrong. What the other
  models rely on is stated with them: critical sections are atomic, shared memory is uncached.
* `heap_1`, `heap_2`, `heap_3`, `heap_5`: not linked. The benchmarks, the vendor's headers and libraries, the build tools: not the firmware's own logic.
* Formatting and console output everywhere; the flat device tree library and the ELF byte layout, which `DspBoot` takes as records.
* `sharespace_get_config` when the device tree has no entry: it leaves zeros that nothing checks; the handshake is modelled with the entry present.
* The application of `Heap4` frees each block once, and the ARM of `Sharespace` keeps to its half of the protocol: the code relies on both.
