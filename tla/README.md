# Verification of the heterogeneous embedded device

TLA+ models, TLC runs and TLAPS proofs for the software of the OMAP-L138 device:
a C674x DSP (SYS/BIOS) that captures samples from an FPGA and an A/D converter and
filters them, an ARM9 Linux host that sends them to a phone over WiFi, and the
commands that come back from the phone. Paths below are relative to `src/`.

## 1. Inventory

### How the parts work together

```
 converter --uPP DMA--> [uPP task 12] --block--> [algorithm task 13]
                             |  release              |  filtered in place
                             v                       v
                         RingIO (blocks)         message "ALGORISM_DATA"
                             |                   or "RAW_DATA" (uPP task)
 ----------------------------+-----------------------+------------ shared memory
                             v                       v
                        [sample_receiver_thread] <- message queue of the host
                             | wifisample (no lock)
                             v
                        [Wifi_sending_thread] --UDP 8088--> phone
 phone --UDP 8086--> [wifi_receiver_thread] --byte queue (no lock)-->
                        [phone_command_process_thread] --message queue of the DSP-->
                        [message loop task 15] --> settings, GPIO pins
```

| part | state it keeps | operations | code |
|---|---|---|---|
| uPP task | `ad->data`, `counter`, interrupt and error counts | acquire a block, DMA, busy wait, copy, release, callback | `dsp/driver/ad9238.c` 120-207, `dsp/driver/uPP_Config.c` 41-85 |
| algorithm task | queue of `Raw` records with its semaphore, `do_algorism` | `queue_pop`, FIR/FFT in place, announce | `dsp/app/ad_workshop.c` 85-174, `dsp/app/queue.c` |
| message loop | `is_started`, `algorism_number`, `H[4]`, reply queue | one handler per command | `dsp/app/message_loop.c` 80-270 |
| ring, messages, heap | SysLink RingIO (14 MB of 4 KB blocks), MessageQ, HeapMemMP | external, used through `host/ipc`, `dsp/ipc` | |
| host main thread | `AppModule` | `App_create`, `App_exec` (START, ENABLE, threads, joins), `App_delete` | `host/app/app.c` |
| sample receiver | message in hand, block in hand | pop, acquire, copy, release, free | `host/app/sample_receiver.c` 93-149 |
| WiFi sender | `wifisample` (shared with the receiver), packet | poll, drain, reset, send | `host/app/sample_receiver.c` 153-197 |
| WiFi receiver | three flags of the scanner | `recvfrom`, `judgeIsIphoneSendCommond` | `host/network/wifi.c` 135-207 |
| phone command thread | byte queue, collecting buffer, two flags | dequeue, collect, recognise, send | `host/app/phone_command.c` |
| capture | DMA buffer, its cached copy, status and counts of the uPP interrupt | clear, write back, start, wait, copy, `uPPIsr` | `dsp/driver/ad9238.c` 146-182, `dsp/driver/uPP_Config.c` 41-85 |
| pins | multiplexers, directions, levels; they survive a reload of the DSP | `GPIOInit`, `SampleRateChannelSelectGPIOInit`, channel, rate, LEDs | `dsp/driver/setgpio.c`, `dsp/main_dsp.c` 93-97 |
| start and teardown | loaded program, attached processors, named queue, heap and ring, threads with their flags | script, `main`, `App_create`, `App_delete`, the DSP's first task, `_new` and `_destroy` | `run/run.sh`, `host/main.c`, `dsp/main_dsp.c` 33-64, `host/app/thread.c` |
| samples as text | `s[10]`, never cleared | word to millivolts, `gcvt`, ten characters into the packet | `dsp/driver/ad9238.c` 169-181, `host/app/sample_receiver.c` 160-178 |
| codecs, uPP registers | `input`, `output` of `fir.c`; tables of `fft.c` | numerical code, hardware set-up | `dsp/codec`, `dsp/driver/uPP.h` |

### What makes each part correct, and what is hard about it

* **Data path.** Blocks travel through RingIO, their announcements through MessageQ,
  and nothing but call order and task priorities ties one to the other. The uPP task
  gives a block to the host *before* the algorithm task has filtered it. Correct:
  the block the host acquires is the announced one and is finished; nobody writes to
  it while the host reads it; no message without a block (fatal on the host) and no
  failed allocation (a NULL write on the DSP); blocks and messages are recycled for ever.
* **Handoff receiver -> sender.** Two Linux threads, two plain indices, no lock.
  Correct: mutual exclusion, whole packets, no access outside the array, every
  accepted block is sent.
* **Byte queue.** One producer, one consumer, plain fields, data race. Correct: FIFO,
  a byte is dropped only when the queue is full.
* **Framing.** Marks `XZ`...`LY` are recognised twice, byte by byte, by flags that
  outlive datagrams, into a buffer whose index nothing checks. Correct: every command is
  acted on once, in order, whole; and after bytes were dropped a datagram that finds the
  queue empty is recognised again, unless the bytes of cut commands have filled the buffer.
* **Dispatch.** Commands and filter coefficients share one integer. Correct: each word
  has exactly the effect its name says.
* **Capture.** The DMA writes memory behind the cache, an interrupt handler counts ends
  of windows and errors, and a busy wait without a timeout ends on either. Correct: a
  block is what the converter delivered; no transfer runs while the buffer is copied or
  cleared; no end of a window is lost.
* **Start and teardown.** Two processors create and open each other's queue, heap and ring
  under names; each call may fail, the host may die at any time while the DSP runs on, and
  the script that ties one run to the next may be interrupted or fail unseen.
  Correct: after a run that stopped the DSP and unloaded the driver a started DSP talks to
  the living host and to no other (after any other run it may not), teardown finds no
  thread at work, nothing dies without a failed call or remains of another run, and blocks
  arrive in the end.
* **Pins.** A level reaches a pin only through the right multiplexer field and direction,
  set in other phases. Correct: what a command asks for is what the pins show.
* **Samples as text.** Integer arithmetic, a text buffer without a length check. Correct:
  the phone reads the voltage that was sampled.

The full list of hazards, each with its line and the properties that cover it, is in
`PROJECT.json`.

## 2. Modules

| module | models | proofs | runs |
|---|---|---|---|
| `BlockChannel` | abstract: a channel holding one block | | |
| `SampleHandoff` | the handoff at the granularity of loads and stores | `SamplePath_proofs` | `sample_handoff` |
| `DataPath` | DSP tasks, ring, messages, heap, host threads; uses `BlockChannel` for the handoff | `DataPath_proofs` | `data_path` |
| `SamplePath` | composes the two: `DataPath` with `SampleHandoff` for its channel | `SamplePath_proofs` | `sample_path` |
| `ByteFifo` | abstract: a lossy FIFO of bytes | | |
| `PhoneQueue` | the byte queue at the granularity of loads and stores | `PhonePath_proofs` | `phone_queue_built` |
| `CommandPath` | scanner and collector; uses `ByteFifo` for the queue | `CommandPath_proofs` | `command_path` |
| `PhonePath` | composes the two: `CommandPath` with `PhoneQueue` for its FIFO | `PhonePath_proofs` | `phone_path` |
| `Settings` | abstract: commands change settings, in order | | |
| `CommandDispatch` | word -> message number -> handler -> setting | `CommandDispatch_proofs` | `command_dispatch`, `coefficients` |
| `AdcCapture` | one transfer after the other, access by access: task, DMA, cache, interrupt handler, channel pin | `AdcCapture_proofs` | `adc_capture` |
| `Lifecycle` | `run.sh`, host process and threads, DSP from load to first block; failures, kills, interrupted scripts | `Lifecycle_proofs` | `lifecycle` |
| `Pins` | multiplexers, directions and levels of every pin `setgpio.c` touches | `Pins_proofs` | `pins` |
| `SampleText` | word -> millivolts -> product of FIR -> text -> field | | `sample_text` |

`MC*` modules hold the values the `.cfg` files assign. Definitions named in comments as
"faulty variant" are mutations: each stands before the definition it would replace and
shows which property notices that mistake.

### State and actions

**SampleHandoff.** `front`, `rear`, `sample_buff` are the fields of `wifisample`;
`samples`, `udpdata`, `i`, `k` the threads' locals; `rpc`, `spc` say where
`SampleReceiver_run` and `Wifi_sending` are. One action per access to a shared field, in
source order: `TestFront`, `TestRear` are the two reads of line 130, `StoreSample` and
`AdvanceRear` the two stores of `wifisample_rx_enqueue`, and so on to `ResetFront`,
`ResetRear` (181, 182). The host is compiled with -O3 and the fields are not volatile;
`host/Debug/app/sample_receiver.o` was inspected: it keeps the order of these stores and
reads `rear` again on every poll, so the model has one order.
`memset(sample_buff, 0, 1024)` clears bytes, i.e. a quarter of the array: `Cleared`.

**DataPath.** `valid` and `held` are the reader's side of the ring, `content[s]` says
what has been done to a block (`raw`, `busy` while the filter runs, `filtered`).
`upc`, `apc`, `lpc`, `rpc`, `mpc` are program counters of the three tasks and of two host
threads. An action of a DSP task needs `Runs(task)`: the task is ready and no ready task
has a higher priority, which is what SYS/BIOS guarantees on one core, with preemption
after every step that wakes a higher task. `UppWake` and `Isr` are the clock and the
converter and need no scheduling. Host steps interleave freely with all of them.
`heap` counts allocated messages; an allocation with `heap = HeapSlots` goes to the
code's failure path (`"fault"` on the DSP, `"exited"` on the host), and these are shown
unreachable rather than assumed away, under one condition: `PhoneCommand` waits while
`CmdWindow` commands are under way, and `HeapAssumption` has room for them. This is a
bound of the model; nothing in `host/app/phone_command.c` makes the phone wait, and a
phone that sends faster than the message loop works does exhaust the heap. What the
runs and proofs show is that nothing else does. The interrupt and the error count of the uPP are
one flag `eow`, since either ends the wait and what follows is the same.

**SamplePath.** The composition: the steps outside of the handoff are those of
`DataPath`, through an instance (`Path`), the steps at the handoff those of
`SampleHandoff`. What is new is the pointer of line 124: `data` shows what the block in
shared memory holds *now*, so every step of the DSP changes it along (`DataFollows`),
and only `TestRear`, which stands for the `memcpy` too, takes a copy. `recv` is where
the receiver is outside of the handoff, `rpc` where it is in it. `Abstract` is `DataPath`
again, with the handoff seen as its channel (`Offered`, `Waiting`, `Outgoing`).

**PhoneQueue.** `ppc` and `cpc` walk through `PhoneCommand_rx_enqueue` and
`PhoneCommand_rx_dequeue`. `RearFirst = FALSE` is the source's order of the two stores,
`TRUE` the order in `host/Debug/app/phone_command.o`; the C code, a data race, permits both.

**CommandPath.** `Judge` is one call of `judgeIsIphoneSendCommond`: flags first, then the
bytes it enqueues in `todo`, which `CallEnqueue` and `Enqueue` (`ByteFifo`'s `Put` or
`Drop`) work off one by one. `Collect` is lines 112-127 for one byte, `Process` lines
129-278: the first known word that occurs in the whole buffer up to its first zero.
`pending` and `dropped` are history variables: datagrams received and not yet processed,
and whether a byte has found the queue full.

`Store` writes only within the buffer. Behind it lies `IPHONE_COMMOND_BUF_INDEX` itself
(`host/app/phone_command.h` 20-21), then the heap, and C leaves open what such a store
does: `Overrun` sets `overrun`, and with it the model ends (`Defined`). Nothing is said
about the program after that. `BufferSuffices` says that it takes a dropped byte to come
there, and the run shows that a dropped byte is enough: `overrun = 1` is reachable.
`Recovers` is about what lies between: bytes were dropped, and what is left of the cut
commands still fits the buffer.

**PhonePath.** The composition, in the manner of `SamplePath`: outside of the two calls the
steps are those of `CommandPath` (`Path`), inside those of `PhoneQueue`. A call is then
several steps of one thread, among which the other thread takes its own; what the
collector finds in the queue while it tests, loads and advances, and what the scanner's
test for a full queue decides while a cell is being freed, is what neither module has
alone. It ends with `Overrun` as `CommandPath` does, and `ImplementsFifo` claims the
liveness of the FIFO only for behaviours in which that does not happen. `Abstract` is
`CommandPath` again, with the cells from `front` to `rear` as its
queue (`Queue`) and the byte that `PhoneCommand_rx_dequeue` has returned as `out` (`Taken`).

**CommandDispatch.** `Command` is the switch over `action`; `OnStart` to `OnOther` are the
cases of the DSP's switch. Coefficients are kept in hundredths. `asked` is a history
variable: what the queued commands are meant to do. `Settings` promises nothing about the
effect of a coefficient that is not `Clear`, i.e. not from 0 to 9.99, but that it is one
step in its turn.

**AdcCapture.** `mem` is the DMA buffer, `cache` the processor's copy of each cell (`Gone`
when it has none), `dirty` the cells to be written back; `Evict` may write back and drop a
line whenever it likes. `dma` counts the cells of the running window that are to come,
`win` numbers windows by parity, `status` holds raised events. `IsrEnter` reads the
status, `IsrServe` handles one event, as the loop of `uPPIsr` does; only the end of a
window raises the interrupt (`IntEnabled`), errors are reported beside it. `Runs` keeps
the task from running while the handler does. `delivered` is a history variable: what
the DMA has stored for each cell.

**Lifecycle.** `script` is where `run.sh` is, `hpc` where the host's main thread is, `dpc`
where the DSP's task is; `queues` are the registered names, `threads` the state of the
four threads, `failed` is a history variable: whether a call failed in this run. The
actions stand for one call each; every call whose result the code tests or logs has a
failing disjunct. `Kill` ends the host at any time. The script is modelled with what it
leaves open: `Modprobe` is skipped beside a driver that is loaded (`driver`), with the
names and the ring that are registered in it; `Slaveloader`, `Shutdown` and `Rmmod` may
fail and the script goes on; `Interrupt` ends it and its host at any place, and since it
has no trap the DSP and the driver stay as they are until somebody runs it again. `swept`
is a history variable: whether the last run that has ended stopped the DSP and unloaded
the driver. Blocks are announced to the queue `reply_id`, which may be one of an earlier
host: then nobody receives them. A script that is killed alone, so that its host lives on
beside the next one, is not modelled.

**Pins.** A routine is a sequence `todo` of accesses, which `Access` carries out one by
one; the routines of `main` run in one task, START's and the commands' in the message
loop. `Init` is the registers after a reset, or any values an earlier load can have left.
`uPPPinMuxSetup` is prebuilt: which fields it takes is a constant, of which the model
assumes only that none is channel B's (`UppFieldsAssumption`; `uPP_Config.c` 116 uses
those pins for the rate).

**SampleText.** A float is `<<m, k>>`, for m / 2^k, exactly. `Gcvt` gives ten significant
digits by the rules of the C library. `s` keeps what earlier texts have left in it.

## 3. Runs

All runs use `-workers 2`; `lifecycle` takes about three minutes, every other one at most
about one. `command_path`,
`phone_path`, `lifecycle` and `sample_text` do not check for deadlock, as explained below.

| run | bounds | shows |
|---|---|---|
| `sample_handoff` | 4 samples per block, 2 contents | type, `NoSharedAccess`, `PacketIntact`, `InBounds`, refinement of `BlockChannel` with liveness |
| `data_path` | 2 blocks, 2 waiting commands, heap of 6 (the least the assumption allows), the phone sends `DISABLE` | `TypeOK`, `MessageNamesBlock`, `HostSurvives`, `DspSurvives`, `HeldUntouched`, `BlocksReturn`, `StreamFlows` |
| `sample_path` | the same with 2 samples per block, the phone sends `CONFIG` | `PhoneGetsWholeBlocks`, refinement of `DataPath` (safety) |
| `phone_path` | 7 cells, commands of 5 bytes and 1 of padding, 2 datagrams, a collecting buffer of 7 bytes | `TypeOK` and `NoSharedCell` of the queue, refinement of `ByteFifo` with liveness (up to a store behind the buffer) and of `CommandPath` (safety) |
| `phone_queue_built` | the queue alone: 4 cells, 2 bytes, `RearFirst` | violated: finding 1 |
| `command_path` | 2 known words (L inside, no L) and an unknown one (L at the end), 2 datagrams, a queue of 11 bytes for frames of 7, 5 and 6, a collecting buffer of 12 | `SentInOrder`, `BufferSuffices`, `EveryCommandSent` while no byte is dropped; `Recovers` after that |
| `command_dispatch` | all 23 words, coefficients 0, 9.99 and -19.99 | refinement of `Settings`: each command has its effect, once, in order |
| `coefficients` | the same | violated: finding 2 |
| `adc_capture` | 2 samples per window, 2 channels, 2 errors per window, every combination of reported events | `BlockIsDelivered`, `BufferUnshared`, `CaptureGoesOn` |
| `lifecycle` | 3 runs of the script, every call failing or not, the host killed and the script interrupted at any time | `Connected`, `ThreadsStay`, `TeardownAlone`, `FatalOnlyAfterFailure`, `Connects` |
| `pins` | all pins, 13 rates, both channels, registers after a reset or an earlier load | `WritesShow`, `PinsShowSettings`, `UppKeepsPins` |
| `sample_text` | all 4096 words, and 13 words under six coefficients with exact products, 7 under six with long ones; each after a short, a long, an exact filtered and an overlong text | `ReadsBack` |

Why the bounds are enough. *Handoff:* with four samples the partial clear is exactly one
cell and every index has a first, a middle and a last position; two contents tell a
mixed packet. *Data path:* two blocks suffice for the ring to be empty, partly used and
full while one block is held and one is in the making; the proofs cover every number.
*Composition:* two samples, so that a block can be half copied and half drained while
the DSP fills and filters the other block.
*Byte queue:* the length of a command and the number of cells have no common divisor, so
that commands begin at each cell, both indices wrap, and full and empty are met at each
position; the second of two commands finds the queue full, is cut, and the collector goes
on with what is left, within its buffer or beyond it. *Framing:* two commands under way are
needed and enough for the collector to meet the next command's bytes in every state it can
be in after the last one; the queue
holds the two shorter ones together and drops bytes of pairs with the longest. The
collecting buffer holds each command behind what some cut commands leave in it, and is
overrun behind others: after dropped bytes both cases of `Recovers` occur, and so does the
one it leaves out. A datagram whose bytes were dropped is never processed, and the model stops at an overrun, so
that the system may come to rest: `CHECK_DEADLOCK FALSE`. *Dispatch:* the table is
checked entirely; the queue being a FIFO, one command in flight after the two of
`App_exec` meets every setting in every state. -19.99 becomes, by the number it is added
to, a number without a case, the command ENABLE, or another coefficient. *Capture:* with
two samples a window has a first and a last cell, so that it can be cut between them;
windows follow one another without end, and the parity tells a late end from the next
one. *Lifecycle:* the first run leaves something behind, or nothing; the second one
meets it, and may leave more, or clear it; the third one starts from either. The script
ends after the last run: `CHECK_DEADLOCK FALSE`. The proofs cover every number of runs.
*Samples:* all words of the converter; two samples, since only the last text before matters for what is left in
`s`. It ends after them: `CHECK_DEADLOCK FALSE`.

`PhoneCmds` in `data_path` is `DISABLE`: with the host's own START and ENABLE the stream
begins raw, becomes filtered and raw again, and it is to flow with the algorithm (never
disabled) and without it. In `sample_path` it is `CONFIG`, so that every handler of the
message loop runs somewhere. The safety properties are proved for every set of commands.

## 4. Fairness

* DSP tasks: weak fairness of each task. SYS/BIOS runs the highest ready task, and the
  guard `Runs` makes lower tasks wait; what fairness adds is that the processor does not
  stop. It does not promise a task its turn: that lower tasks do get one is a result.
* `Isr`: the converter delivers; `UppWake`: the clock ticks. Outside of `src/`.
* Host threads: weak fairness. `thread.c` asks for `SCHED_FIFO` but leaves the attribute
  *inherit scheduler* at its default, so Linux ignores it and all threads are
  `SCHED_OTHER`: each thread that can run does run in the end.
* `AdcCapture`: weak fairness of the DMA (a started window ends), of the handler (an
  interrupt that is raised is served, it has priority over every task) and of the uPP
  task; none of errors, evictions and commands. `CaptureGoesOn` says besides that the
  ring has to have room again and again, which is `StreamFlows`'s matter.
* `Lifecycle`: weak fairness of the script, the DSP's task, the host's main thread and
  each thread; none of failures, kills or interruptions. `Connects` is about runs in which
  none happens and which begin with no remains.
* `CommandPath` and `PhonePath`: weak fairness of the two threads as long as the model goes
  on (`Defined`); none of the phone.
* The phone: none. It may stop at any time; liveness of the stream is stated under
  `Quiet`, as a phone that sends for ever keeps the highest task busy.

## 5. Proofs

TLAPS checks the following for every value of the constants that the named assumptions
allow. Each argument is an inductive invariant `IInv` with `Init => IInv`,
`IInv /\ [Next]_vars => IInv'` and one implication per property.

**`SamplePath_proofs`, first part: the handoff** (any `N >= 1`, any contents): `TypeCorrect`, `Exclusion`,
`PacketsIntact`, `NoOverrun`, `HandoffImplementsChannel`. None of the properties is
inductive. `OwnerInv` says who owns the buffer by the indices alone: while the receiver
fills, `rear = i < N` and the sender is away; otherwise `rear` is 0 or N; while the sender
drains, `front = k`; `front` is back at 0 before `rear` is, which is why the order of the
two resets matters. `BufferInv` and `DrainInv` follow the block through the buffer into
the packet. The refinement theorem maps the initial states and every step to a step of
the channel or a stutter.

**`DataPath_proofs`** (any finite set of blocks, any window, any heap with room for the
blocks, the commands and two more): `TypeCorrect`, `MessagesNameBlocks`, `SettledSent`,
`HostNeverExits`, `DspNeverFaults`, `OneRaw`, `NoLeak`, `StartIsFirst`, `HeldNotWritten`.
The argument:
1. `SchedInv`: because 13 > 12, the uPP task never runs while the algorithm task has a
   block, so at most one block is queued or being filtered and the semaphore agrees.
2. `RingInv`: a block is at one place only: free, with the writer, released, held.
3. `CountInv`: released blocks = the message in the receiver's hand + queued messages
   + the one block that is unannounced. Hence a popped message finds a block.
4. `NamesInv`, `PendingInv`: the j-th message and the j-th released block belong together,
   and the unannounced block is the newest, so the host cannot reach it.
5. `HeapInv` with 3: allocated messages are at most blocks + commands + 2.

**`SamplePath_proofs`, second part: the composition** (any `N >= 1`, any finite set of
blocks, any window and heap as above; `PathConstants` repeats `DataPath`'s assumptions and
says that the contents of a block are `DataPath`'s labels): `PathInvariance`,
`PathImplementsDataPath`, `PathImplementsHandoff`, `CopiesAnnounced`, `WholeBlocksSent`.
Each of the two modules takes for granted what the other one has to give. The handoff's
invariant needs that the block it copies from stays as it is: that is `RingInv` and
`PendingInv` of the data path (`HeldStays`: the uPP task writes to a block that is not in
the ring, the algorithm task to the newest one, and the host holds neither). The data
path's invariant needs that the handoff is a channel: that is `ChannelSteps`, which holds
under the handoff's invariant. `PathInv` therefore is both with `JoinInv`, which says
where the receiver is in the one by where it is in the other, and that `data` is the block
that is held and the copy what the message announced. One lemma per group of steps
(`DspSplits`, `HostSplits`, `RecvSplits`, `SenderSplits`) shows that a step of the whole is
a step or a stutter of each, and keeps `JoinInv`; the two earlier proofs then give the
rest, `DataPath_proofs` by an instance of that module. `WholeBlocksSent` follows from
`PacketIntact` of the one and `OnlySettledSent` of the other and is stated by neither.

The assumption `HeapAssumption` is what the code relies on silently; with 3584 blocks of
4 KB and messages of 128 bytes (one cache line rounded up) it needs about 460 KB of the
1 MB of shared region 0 (`shared/config.bld` 53-57; the comment there still says 64 KB).

**`Lifecycle_proofs`** (any number of runs of the script, every failure, kills and
interruptions at any time): `TypeCorrect`, `ConnectionIsOfOneRun`, `ThreadsStayed`,
`TornDownAlone`, `FatalAfterFailure`. The invariant has, besides the type:
1. `ScriptInv`: the host lives only while the script waits for it, so that a process that
   lives belongs to the current run, and so does its queue.
2. `OffInv`: a DSP that does not run knows nothing and has no names, so that a host that has
   found the DSP's queue has a DSP beside it.
3. `SweptInv`: after a run that stopped the DSP and unloaded the driver the DSP is off until
   it is loaded, no ring is left, and every command in its queue, its reply queue and its
   ring are of the present run. `Connected` alone is not inductive: what the DSP will know
   of the host is what the queued START says, and which ring it will find under that name.
   An interruption or a failure sets `swept` to 0, the next run that ends with both sets it
   to 1 again: nothing is assumed of the runs before.
4. `ThreadInv`: the threads that exist, by the host's program counter; `TeardownAlone`
   needs it at every earlier join.
5. `FailureInv`: each place from which `LOG_FATAL` or the null pointer of the DSP can
   still be reached has a failed call or remains behind it, or the object it needs.

**`AdcCapture_proofs`** (any length of a window, any channels, any choice of the events
the status word shows, any number of errors): `TypeCorrect`, `BufferIsUnshared`,
`BlocksAreDelivered`. `WindowInv` is the heart: while a transfer runs nothing is counted
and no end of a window is pending, since errors alone do not interrupt, and outside
`inv` and `wait` no transfer runs and the handler has nothing left. That is why an error
may end the wait without ending it early. `CountInv` carries the two resets to the start
of the transfer; `BufferInv` says that no line is dirty from the write-back to the next
memset, so that an eviction changes nothing, and that what is cached after the
invalidation equals memory; `BlockInv` ties the copied prefix to the window.

**`PhonePath_proofs`, first part: the byte queue** (any `N >= 2`, any bytes): `TypeCorrect`,
with either order of the two stores; with the source's order `CellsNotShared`, `BytesPushed`
and `QueueImplementsFifo`, the safety part of `ByteFifo`. `NoSharedCell` is not inductive: it
needs that the pusher's cell is `rear` and the queue not full (`PushInv`, stable because
`front` only moves away from it), and that the popper has seen a non-empty queue
(`PopInv`). With `rear` stored first, `cell = rear` is lost, which is where the theorem
fails for the built program. `ContentInv` says that the cells between `front` and `rear`
hold pushed bytes. For the refinement the remainders of the indices are resolved into two
cases each (`CountIs`, `AtIs`).

**`CommandPath_proofs`** (any words that satisfy `WordsAssumption`, any padding, every
size that satisfies `SizesAssumption`, any window): `TypeCorrect`, `BufferIsEnough` and
`CommandsInOrder`.
The argument follows the stream of bytes between the two threads: collected since the
last command, in the collector's hand, queued, being queued, still to be queued. Only
`Judge` and the end of a command change it (`StreamCall` to `StreamEnd`). `Framed` says of
the stream that from every place a Y follows within the size of the buffer, that each Y
comes after an L, and that the last bytes belong to a command that is not closed;
`Scanned` and `Open` give their number by the place the scanner has reached in the
datagram. Hence the collector meets its Y in time and has its flag up when it does. All
of it is under `dropped = 0`, which includes `overrun = 0`: once a byte finds the queue
full the framing is lost, as section 6 says.

`SentInOrder` is an action property: the command sent is that of the oldest word received
and not processed. `OrderInv` carries it: the stream is the frames of the waiting words,
one after the other, the youngest one perhaps without the part of its datagram that is
not scanned yet (`Split`, `InFlight`), and while a command is processed the buffer holds
its frame and zeros behind it (`BufInv`). Where each frame begins is a function (`Cut`),
so that no recursion is needed to say it. The first Y of the stream then closes the
frame of the oldest word (`SplitFirst`), and `strstr` finds in the buffer the word that
was sent and no other (`OccursIs`). That last step failed at first, for a good reason:
the buffer also holds the closing mark, and no known word may occur in another one
*followed by that L*. A word RATE beside a word RATEL would be taken for it.
`WordsAssumption` now says so, and the 23 words of `host/app/phone_command.c` 131-159
satisfy it.

**`PhonePath_proofs`, second part: the composition** (any `N >= 2` and words and sizes that
fit; `PathConstants` repeats the assumptions of `CommandPath`, and says that the bytes of
the queue are those of the commands and that the stores are in the source's order):
`PathInvariance`, `PathImplementsCommandPath`, `PathImplementsQueue`, `PathSentInOrder`,
`PathBufferIsEnough`. The invariants of the two modules are carried together, and nothing
besides: `PhoneQueue`'s needs that what is pushed is a byte of a command, which is
`CommandPath`'s `TypeOK` for `todo` and rests, through `ScanInv`, on the closing mark having
ended the reading before the padding; `CommandPath`'s needs that each access is a step of a
FIFO or none, which is `FifoSteps` under the invariant of the queue. `Outside`, `PushSplits`
and `PopSplits` show for each step that it is one or a stutter of both. In particular the
queue drops a byte only when it holds N - 1 of them at that very moment, though `front` is
read without a lock and a cell may be about to be freed. The commands are then sent in
order, and the collecting buffer suffices, over the queue as it is.

**`CommandDispatch_proofs`** (any integers as coefficients, any window):
`SettingsImplemented`, the safety part of `Settings`, and `CoefficientsInRangeArrive`:
where every coefficient is from 0 to 9.99, the statement that finding 2 refutes in general
holds. `CarryInv` says that the changes asked for are on their way, in order: the n-th
message carries the n-th of them (`Carries`), and a recognised word the last. START is
the first message as long as the DSP is not started, and never comes again unless a
coefficient out of range becomes it. Then `WordCarries` treats the host's side of the
number and `StartDoes` and `MessageDoes` the DSP's.

**`Pins_proofs`** (any uPP fields that are none of channel B's, whatever the registers held):
`TypeCorrect`, `EveryWriteShows`, `PinsAreSet`, `UppHasItsPins`. The invariant looks ahead
over `todo`, the accesses the running routine has yet to make. `WriteInv`: a pin to be
written by the n-th of them is connected and an output, or becomes so by one of the
first n - 1. `SettingInv`: from START on the last value a pin of the rate or the channel
gets, by an access to come or one already made, is the one asked for. `UppInv`: the uPP has its
fields or will get them; what the GPIO takes in the same register afterwards is disjoint.

**Only model-checked:** `SampleText`, whose numbers and texts are recursive over their digits (`Gcvt`),
so that its properties need an induction over data; all liveness (`ImplementsChannel` with fairness,
`ImplementsFifo`, `ImplementsSettings`, `BlocksReturn`, `StreamFlows`,
`EveryCommandSent`, `Recovers`, `CaptureGoesOn`, `Connects`), as fairness and ENABLED are
beyond TLAPS here. `OneRawAtATime`, `NoMessageLost`,
`OnlySettledSent` and `StartedFirst` of `DataPath`, `CopyIsAnnounced` of `SamplePath`, and
`CommandsInOrder` and `CollectorSuffices` of `PhonePath` are proved and in no passing run, as
is `PopsPushedBytes` of `PhoneQueue`: the other properties of `data_path`, `sample_path` and
`phone_path` rest on them, or contain them.

## 6. Findings

1. `phone_queue_built`: the two stores of `PhoneCommand_rx_enqueue` are not ordered. The
   compiled object stores `rear` before the byte, and the polling thread can pop what
   the cell held before. With the source's order the queue is correct (`phone_path`).
2. `coefficients`: a filter coefficient below 0 or from 10 up is stored in a neighbouring
   coefficient, taken for a command, or lost (`1000*(k+1) + value` is decoded by division).

Met while modelling, and not worth a run each:

* Products such as 50 * 0.10 and 1 * 0.08 have ten significant digits as floats, and `gcvt`
  writes 11 to 13 characters, 14 for 1 * 0.01, and the terminator into `s[10]`
  (`host/app/sample_receiver.c` 161, 173). `SampleText`, without the coefficients below 7
  whose fractions are too long for TLC's integers,
  meets this case, bounds it in `TypeOK`, and shows that the samples after it are right
  as far as `s` itself is concerned.
* `dsp/driver/ad9238.c` 162 speaks of separating the channels of a window, but line 181
  shifts the bit that names the channel out. After CHA or CHB in the middle of a window
  the block holds samples of both; `AdcCapture` has this behaviour.
* `GPIOInit` connects GPIO0[5] and makes GPIO0[6] an output (`dsp/driver/setgpio.c` 187,
  191). Nothing writes to that pin.
* A dropped closing mark makes two commands one, and the index of the collecting buffer
  is never compared with its size (`host/app/phone_command.c` 113). When enough of them
  are lost the next byte is stored over the index itself, which is the field behind the
  buffer (`host/app/phone_command.h` 20-21). The models end there.
* When the script is interrupted, or `slaveloader shutdown` fails (`run/run.sh` 55; the
  result is not tested) and the next start does not load the DSP anew, the DSP goes on as
  started: the next host's START is ignored (`dsp/app/message_loop.c` 82-86), blocks are
  announced to a queue that is gone, and the host waits without an error. One run
  that loads or stops the DSP and unloads the driver repairs it. `Lifecycle` has these
  states; `Connected` without its condition on `swept` is violated.
* The four pins of the rate are written one after the other (`dsp/driver/setgpio.c`
  270-285), so that the converter sees intermediate rates, 13 to 15 among them, which are
  no rates. `Pins` has these states; `PinsShowSettings` speaks of the time between commands.
* If the DSP cannot open the ring, the host idles for ever and only the log says why.

## 7. Not modelled, and the plan

Not modelled:

* The sums of `FIR` with more than one coefficient, the transform of `FFT` (a library of
  TI) and its tables: sequential arithmetic on one block. `FIR` filters 1020 of 1024
  samples, the rest stay raw; a block during which a coefficient arrives is filtered
  with coefficients of two filters. The text of FFT amplitudes.
* The teardown on the DSP (`message_loop_destroy`, `ad_workshop_destroy`, `Ipc_detach`,
  starting again): nothing calls `message_loop_stop`, so that the code after
  `message_loop_start` never runs.
* Format and channel registers of the uPP (`dsp/driver/uPP.h`, the constants in
  `uPP_Config.c`): values the hardware interprets.
* Setting up the access point in the scripts.
* `dsp/Debug/configPkg/package/cfg/dsp_pe674.c` and the rest of `dsp/Debug`, `dsp/.config`
  and `host/Debug`: generated from `dsp.cfg` and the sources. That one file is 35141 of
  the repository's 39000 lines of C; it is a table of SYS/BIOS objects without a
  statement of this program, and no model of it would say anything.
* The SysLink and SYS/BIOS libraries: their promises are modelled where `src/` uses them.

Plan; what is left comes last.

1. `BlockChannel`, `SampleHandoff` with proofs. Done.
2. `DataPath` over `BlockChannel` with proofs. Done.
3. `ByteFifo`, `PhoneQueue`; `CommandPath` over `ByteFifo`; `Settings`, `CommandDispatch`. Done.
4. `AdcCapture`, `Lifecycle` with proofs, `Pins`, `SampleText`. Done.
5. The byte queue's proofs, `AdcCapture_proofs`, `CommandPath_proofs`, `CommandDispatch_proofs`. Done.
6. `SentInOrder` of `CommandPath`, `Pins_proofs`. Done.
7. `SamplePath`, `DataPath` over `SampleHandoff` instead of `BlockChannel`, with proofs. Done.
8. `PhonePath`, `CommandPath` over `PhoneQueue` instead of `ByteFifo`, with proofs. Done.
9. The sums of `FIR` on a short block while coefficients arrive between two samples.
