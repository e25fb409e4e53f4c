# A TLA+ model of the MusashiRecomp runtime

MusashiRecomp translates a PlayStation program to C ahead of time and runs the
result on a runtime that provides the console's hardware. This directory holds
TLA+ modules for the parts of that runtime where the order of steps matters, TLC
configurations that check them on small instances, and TLAPS proofs for every
value of the constants where a proof is within reach.

`PROJECT.json` is the index: components, runs, the source lines each definition
stands for, hazards, findings, mutants and theorems. To check a run:
`tlc -config MCPersistence.cfg MCPersistence`; to check a proof: `tlapm PersistenceProofs.tla`.

Contents: 1 the system · 2 conventions · 3 the modules · 4 the runs · 5 fairness ·
6 the proofs · 7 disagreements between the code and what is written about it ·
8 what is not modelled.

## 1. The system

One host thread runs the guest: recompiled functions, overlays that are loaded
at run time, and an interpreter for the rest. At block boundaries the guest
charges cycles to a clock; the clock drives the devices; the devices raise bits
of I_STAT; a poll delivers a pending interrupt by calling the guest's handler on
the host stack. A second thread compiles overlays, and so does a child process that a
third thread waits for. Files outlive the process:
memory cards, save states, the overlay cache.

| Part | State | Operations | What makes it hard |
|---|---|---|---|
| overlay compile worker | ring, dedup table, counters, stop flag | start, enqueue, stop, the worker's loop | two threads, a bounded ring, a table that evicts, stop while busy |
| overlay candidates | candidates with a verdict and the generations it was taken at, page generations, active stack | register, dispatch, guest stores, restore, differential run | a verdict cached now and used after any number of stores; code that overwrites itself |
| exceptions and HLE threads | pending and masked sources, IEc, handler depth, TCBs, jump buffers | poll, handler entry and its exits, thread open, close, change | host unwinding by longjmp against guest contexts saved in guest memory |
| root counters | counter, mode, target, divider remainder | advance, register writes | bulk arithmetic standing for single counts |
| serial port | shifter, buffer, acknowledge countdown, STAT, CTRL | advance, TX, CTRL, STAT | two countdowns, a one-byte buffer, cancellation in flight |
| memory cards | protocol position, sector buffer, image, dirty flag, file | one byte, select, deselect, flush, shutdown, restart | interrupted transactions, failing writes, crash between write and flush |
| CD-ROM | interrupt flag, queue of one, second response, read stream, sector buffer | command, acknowledge, enable, request, advance | responses held behind an unacknowledged one, presentation delay |
| DMA | DPCR, DICR, seven channels | CHCR, DICR, DPCR writes, advance | a level turned into an edge; cancel and restart in flight |
| cycle clock | guest time, device time, next deadline, VBlank phase | charge, MMIO sync, poll | devices replayed late in bulk, deadlines computed before register writes |
| save states | live machine, file, staged request | request, poll, save, load, restart | a load applied section by section, a build that changed |
| shard publication | cache directory, dirty flag, memo of loaded files, candidates | publish, dispatch miss, rescan | two threads that share only files and a flag; a memo and a table of fixed size |
| autocapture and autocompile | pressure, capture, compile process, state word, loader index | frame, dispatch, process, watcher thread | a result that passes through four actors before it is used |
| text guard | reference image, modified, diverged and dirty bitmaps | stores, DMA, translation patches, save states, dispatch | bitmaps kept by the process against RAM that a file replaces |
| MDEC | command in progress, input and output counts | words in and out by DMA or CPU, reset | two DMA channels that each wait for the decoder |
| interpreter, JIT | — | — | see section 8 |
| GPU, SPU, GTE, disc images | — | — | see section 8 |
| recompiler (analysis, emission, configuration) | — | — | see section 8 |

Interactions modelled: the four devices under one clock (`DeviceClock` composes
`Timers`, `SioPace`, `Cdrom`, `Dma`); the CD-ROM under a guest driver
(`CdromDriver`); the serial bus between pad and cards (`MemCard`); the device
section and the clock section of a save state (`SaveState`); the worker with the
cache directory and the dispatch thread (`ShardCache` extends `CompileWorker`); the
decoder with the DMA controller (`Mdec` extends `Dma`); the text guard with the
translation layer and save states (`TextGuard`).

## 2. Conventions

* A definition has the name of the function it models, where there is one. A
  device is one record (`tm`, `sio`, `cd`, `dma`); its functions are operators
  from record to record, and an action is one call of the guest or of the clock.
* A name with a suffix such as `_unlatched`, `_late`, `Eager`, `NoDedup` is a
  deliberately wrong version of the definition that follows it. A run's property
  must fail with it, which is how the project shows that the property says
  something. These definitions are used nowhere else.
* Settings and kinds of guest that do not change during a run (overlay tier,
  blocked addresses, what a program's handlers do) are variables chosen in `Init`
  and never changed, so that one run covers several of them.
* Some runs check several modules side by side. Their MC module has a variable `part`,
  chosen at the start, and a behaviour moves that part only; fairness is stated per
  part. Such a run is not a composition.
* Checksums are the bytes themselves: collisions are not modelled.
* A property that the code guarantees only for some settings or guests names
  the condition in its own text (`DefaultTier`, `Disciplined`, `~unwinds`).
  Section 7 says what happens outside it.

## 3. The modules

### CompileWorker (`overlay_compile_worker.c`)
The dispatch thread (`Start`, `Enqueue`, `StopSignal`, `StopJoin`) and the worker
(`WorkerWait`, `WorkerPop`, `WorkerCompile`, `WorkerFinish`, `WorkerExit`), one
action per critical section, so every interleaving the lock allows is there;
condition variables may wake spuriously. The ring has `WQ_CAP` places, the
table `STATE_CAP` rows with the eviction of `state_add`. A request is its key;
what is compiled and whether it succeeds is a choice.

`CompileQueue` is what the worker promises its callers, without threads, indices or
rows: a bounded first-come-first-served queue, one request served at a time, none
accepted that is in flight or remembered. The refinement mapping (`Waiting`, `item`,
`Known`) reads the ring from its head and the finished rows from the table.

### ShardCache (`overlay_loader.c`)
The worker of `CompileWorker` publishes a shard in two steps, the rename into the cache
directory and the flag; the dispatch thread, on a miss, lowers the flag, scans file by
file, registers what it has not loaded, and hands the live bytes to the worker. A rename
during a scan may or may not be seen by it. The memo of loaded files, the list of tried
addresses and the candidate table have their capacities: a full memo forgets a
file, and a full table drops a shard that the memo then counts as loaded. A shard is
the key it was compiled from; some files cannot be read.

### Autocompile (`overlay_capture.c`, `autocompile.c`, `overlay_loader.c`, `compile_overlays.py`)
One region that holds one of several variants. Interpreted dispatches build up pressure;
a frame samples it and may start the compile process; the watcher thread sets the state
word when the process ends; a frame picks that up and rescans; a dispatch of an address
without candidate loads what the index holds. A process that succeeds need not have made a
DLL: the script skips a capture that it cannot compile and still exits with 0. `faults` lets the
process, the compile or the thread fail. One interpreted dispatch stands for the number that exceeds the
threshold, and cooling down is one step.

### TextGuard (`memory.c`, `dirty_ram_interp.c`, `text_xlate.cpp`, `boot_state.c`)
Words of the game text are instructions or data. Stores and CD-ROM DMA maintain the
bitmaps, a translation patch changes data behind the store path and blesses it into the
reference image, a save state replaces RAM and the dirty bitmap and leaves the guard's
own state. `dirty_ram_dispatch_inner` and the guarded call of interpreted and JIT code
record which tier they entered. `OldSaves` says whether a process may load a file of
an earlier one. The translation table touches data only, which is assumed of it.

### Mdec (`mdec.c`, with `Dma`)
A command is its length and, for a decode, the words it yields. Channel 0 feeds words
while `mdec_dma_write_ready`, channel 1 takes them while output waits, in the order in
which `dma.c` advances them. The program also uses the data register and resets the
decoder. `lost` records that a DMA word made a decode overwrite unread output.

### OverlayValidity (`overlay_loader.c`, `memory.c`, `boot_state.c`)
RAM is a function from words to bytes. A candidate has an entry, code ranges and
the bytes it was compiled from; `cand_match` compares generations first and bytes
only when they differ. Actions: the guest's stores (`overlay_watch_note_write` with
the check of the active stack), registration of compiled functions and of shards,
dispatch by entry and by continuation, return, unwinding, save-state RAM
replacement, and the two passes of a differential run. A registration loop is one
step per candidate. Shards that arrive from the worker or from the cache are both
`scan_sljit_shard`. The entry-word probe only rejects earlier what the checksum
rejects and disappears; addresses below the kernel floor are left out. Settings
are read once at start: the debug commands that change them later are left out.
`unwinds` stands for a longjmp past native frames (exception return, thread
switch, save-state load).

### Exceptions (`interrupts.c`, `traps.c`, `dirty_ram_interp.c`, generated code)
Guest code checks for interrupts at a block leader and then runs the block's body.
A delivery pushes a record of C locals on `host`; the handler leaves by RFE, by the
return-from-exception call, by SYSCALL 3, by the sentinel PC, or by plain return, which
`psx_check_interrupts` accepts under any escape reason. A compiled RFE arms the escape to the
delivery's frame. An interpreted one only moves the bits of SR: what it returns to goes on
inside the handler's window, until some other exit is taken or its thread ends there. After an exit compiled
code continues at the leader it checked and the interpreter at `cpu->pc`; `ResumePCs` has
both. The sentinel dispatched outside every handler ends the dispatch, like the return of a
thread. `Deeds` lists what a guest program may do, so that a run says what its guests do.
Registers are reduced to whose they are and which version, so a context handed to
the wrong thread shows. The guest BIOS's handler prologue and epilogue are external:
they save and reload the current TCB, perhaps incompletely (`Junk`). A longjmp to a
frame that has returned is undefined; the model stops there. The cooldown counts
blocks instead of cycles. Thread code that returns has closed its thread first
(external). Only the default scheduler (HLE) is here.

### Timers (`timers.c`)
One root counter, with `W` for 0x10000 and a divider. `timer_tick_one` is the
single count, `timer_advance_counts` the bulk form, `timer_advance_divided` the
charge in cycles with the carried remainder, `timers_cycles_to_irq` the distance
handed to the clock.

### SioPace (`sio.c`)
The shifter, the transmit buffer and the acknowledge countdown, `sio_advance` with
its loop of at most eight transitions, CTRL with its acknowledge and reset bits,
STAT with the acknowledge that two reads clear. What a device answers to a byte is
chosen when the byte is written. A byte takes longer than its acknowledge
(`ACK < BAUD`), as the constants in the code do.

### MemCard (`sio.c`, `memcard.c`)
`Byte` is one exchange with the card: the 0x81 selection, the read, write and
identify commands with their checksum, per slot. `memcard_flush` may find that the
file cannot be opened, falls short, or fails on close; so may the creation of a missing file
in `PowerOn`, which then leaves the slot empty, and the launcher's new card
(`memcard_format_file`). `Shutdown` and `AtExit` flush, `Crash` drops the process at any point.
Bytes are bits, so the checksum is parity. `Disciplined` says the guest changes
SLOT only while deselected and sends bytes only while selected, as the BIOS does.

### Cdrom, CdromDriver (`cdrom.c`)
`Cdrom` is the controller: commands executed or queued behind an unacknowledged
response, second responses after a delay, the read stream into a one-sector buffer,
the presentation delay before I_STAT. The interrupt code is a set of bits, because an
acknowledge clears bits; one delay stands for each class of command; a sector is
its parity. `CdromDriver` adds the guest: a program and an interrupt handler that
reads the response, acknowledges, may issue the next command, and acknowledges
I_STAT last. The guest is external; it has one command outstanding and its handler
is shorter than the presentation delay, as the comment at `cdrom.c:110` assumes.

### Dma (`dma.c`)
DPCR, DICR and CHCR writes; channels that move words as cycles are charged (paced),
that finish after a delay, and that finish at once; the completion interrupt raised
on the rising edge of DICR's master flag. Payload and addresses are left out; how
many words a device has ready is a choice. Sub-word CHCR writes that do not reach
the start bit are left out; channel 5 stops the program and is left out.

### DeviceClock (`psx_cycles.c`, `interrupts.c`)
`gap` is the time the devices are behind the guest, `left` the distance to the next
service. A charge either only accumulates or replays the devices in chunks that end
on the next event; a register access synchronises first and leaves the deadline
dirty. VBlank is held back during an exception or a card transfer. The reference
is `Exact`, which advances everything one cycle at a time as the conservative
mode of the code does. The serial card progress that defers VBlank is external.

### ClockedDevices (`timers.c`, `sio.c`, `cdrom.c`, `dma.c`)
What the clock relies on of the four devices: charges that may be split or taken in
bulk, distances that no interrupt precedes, responses that time does not replace. A
behaviour is one guest program that uses one device, in every order; for DMA, a set of
channels together.

### SaveState (`savestate.c`, `boot_state.c`, `psx_cycles.c`)
The machine is a stamp per part. A request is staged and executed by
`savestate_poll`; a save writes a file that may fall short or fail on close; a load
checks the key, then applies section after section; the process may stop and start
again as another build, or with the other thread scheduler, under which a request to load is
refused (`hle`). A file without a header is an absent file; removing a file
is assumed to work. The boot snapshot uses the same serializer; nothing calls
`boot_state_set_capture` and `boot_state_trigger_capture`.

## 4. The runs

Seven runs pass; five show a disagreement between the code and what is written about it
(section 7). Times are for two workers, with nothing else running.

| Run | Configuration | States | Checks |
|---|---|---|---|
| `compile_worker` | `MCCompileWorker.cfg` | 41 K, 140 s | `InFlightTracked`, `ImplementsQueue`, `RequestFinishes`, `StopReturns`, `NoShardMissed`, `RegisteredOnce`, `PublishedIsUsable`, `CompiledGoesNative` |
| `overlay` | `MCOverlay.cfg` | 295 K, 90 s | `GenerationTrust`, `NativeRunsLiveBytes`, `SelfModCaught`, `OnlyExecutingDemoted`, `ShardEarnsTrust`, `FastPathIsPristine`, `GuardedCallsRunLiveCode` |
| `exceptions` | `MCExceptions.cfg` | 3.5 M, 125 s | `InExceptionMatchesHost`, `RunsOwnRegisters`, `SuspendedContextSaved`, `InterruptsComeBack` |
| `progress` | `MCProgress.cfg` | 114 K, 75 s | `ThreadsGoOn`, `NoLostInterrupt`, `CommandsFinish`, `DmaKeepsOutput`, `StreamFinishes` |
| `devices` | `MCDevices.cfg` | 190 K, 90 s | per device: bulk equals single, split charges, distances, acknowledge order, presentation, DMA edges |
| `clock` | `MCClock.cfg` | 330 K, 85 s | `OtherIrqsOnTime`, `ReplayIsExact` |
| `persistence` | `MCPersistence.cfg` | 65 s | `CleanIsOnDisk`, `GoodSurvives`, `GoodMeansStored`, `LoadRestoresLastSave`, `ClockCoherent` |
| `exceptions_jmpbuf` | `MCExcJmpbuf.cfg` | violated | `JmpbufIsInnermost` |
| `clock_sio` | `MCClockSio.cfg` | violated | `OnTime` |
| `savestate_torn` | `MCSaveTorn.cfg` | violated | `NeverIncomplete` |
| `text_restart` | `MCTextRestart.cfg` | violated | `FastPathIsPristine` |
| `autocompile_variant` | `MCAutoVariant.cfg` | violated | `CompiledGoesNative` |

What they show, and why the bounds are enough:

* **compile_worker**, three parts. *Worker:* ring of two, table of three, four keys, four
  requests: the ring fills and wraps, the table evicts, and a stop meets an empty, a
  waiting and a compiling worker. Every key in the ring or being compiled has its row and
  the other way round; ring, table and threads implement `CompileQueue`; every accepted
  request finishes and every stop returns. *Shards:* two shards at one address and an
  unreadable one at another, whose misses force rescans. The memo has one place and the
  candidate table three, and both fill: a shard does get registered twice, but only one
  that the full memo turned away, and none is overlooked while the table has room.
  `MaxEnq` does not bite here, because the list of tried addresses stops requests first.
  *Autocompile:* two variants with a shared address and one of their own each.
  `CompiledGoesNative` speaks of sessions in which nothing fails.
* **overlay**, two parts. *Overlays:* two pages with one word each; two overlays with the
  same entry; a function whose entry lies inside both; a shard. Three settings: as
  shipped; as shipped with unwinding and a blocked address; the shard tier. Generations
  go to 2, enough for a page to be rewritten and rewritten back; the candidate table (3)
  and the active stack (2) both fill. The shard tier is run without continuation
  dispatch, the setting in which its promise holds. *Text:* two pages, an instruction
  with a data word beside it and an instruction on the next page inside the first one's
  window. A process loads only its own save states here; `text_restart` lifts that.
  `GuardedCallsRunLiveCode` speaks of the entry's page, the one whose bits are looked up.
* **exceptions.** Two threads (symmetric), one block leader, two sources, and six
  guests: handlers that switch threads; checks without a resume PC; nested
  handlers; preemption, boundary checks and yields to closed threads together; nested
  handlers that leave by a plain return; a kernel in dirty RAM, whose RFE may be
  interpreted. Two nested frames is the most the code
  allows. One leader is the hardest case for registers: both threads stop at the
  same PC. Deadlock is not checked because a jump to a dead frame ends the model.
* **progress**, three parts. *Threads:* the default guest, two leaders, an unlimited supply
  of interrupts: thread code still runs infinitely often. *CD-ROM:* commands of both
  kinds with a sector stream running; the handler may issue the next command. No presented
  response is forgotten and each command ends. *MDEC:* commands of up to two words, one of
  which yields more than a short transfer takes and less than a long one wants.
* **devices.** One device per behaviour: a two-bit counter with divisors 1 and 3 and
  up to 12 cycles at a time (three wraps, or one when divided); a byte of two cycles with an
  acknowledge of one and charges that carry two bytes; a CD-ROM with one command of
  each class; a paced and a delayed DMA channel, then the CD-ROM's and the
  immediate one, words of two and three cycles against charges of one to four.
* **clock.** Four device sets, so that deadlines of two devices compete; one timer mode.
  The hard cap is less than a frame and more than a charge, as in the code.
* **persistence**, two parts. *Cards:* one card of two sectors of one byte, every flush
  outcome, a new card, a crash or a shutdown at any point and any number of restarts;
  `GoodMeansStored` follows a whole transaction of ten bytes in any order the guest may
  send them. *Save states:* one slot, three sections with the clock before the devices,
  two builds, every way a file can fall short.

Deadlock is also unchecked in `overlay` (generations are capped) and `persistence`
(stamps and clock are capped): there it only marks the cap, or the end of the process.

## 5. Fairness

* `CompileWorker`: weak fairness of the worker's steps and of `StopJoin`. The operating
  system schedules both threads; a waiting worker is woken by the signal.
* `ShardCache` (`ShardFairness`): the same, weak fairness of a dispatch under way, and strong
  fairness of a miss at each address: the game keeps calling code it has no native
  version of. Without that nobody would ask for the shard.
* `Autocompile` (`AutoFairness`): weak fairness of frames and of the process with its watcher;
  strong fairness of a dispatch of each function of the variant in RAM. A variant that is
  replaced is excused by the property itself.
* `Exceptions` (`FairSpec`): weak fairness of the leader's check, of block bodies and of
  an armed escape, since guest code runs on; strong fairness of `HandlerExit`: a guest
  handler ends even when nested deliveries interrupt it again and again. Nothing is
  assumed of the devices, which may raise interrupts forever.
* `CdromDriver` (`DriverSpec`): weak fairness of time and of the handler. The guest charges
  cycles as it executes, and a handler that was entered runs to its end.
* `Mdec` (`MdecSpec`): weak fairness of time, and of starting a transfer out while output
  waits. The second is the program's part: a program that never fetches its pictures
  does block its input, as on the console.

No liveness is claimed of the other modules.

## 6. The proofs

| Module | Theorem | Statement |
|---|---|---|
| `CompileWorkerProofs` | `WorkerSafe` | the ring and the table agree, and a stop leaves nothing behind |
| | `WorkerIsQueue` | the worker implements `CompileQueue` |
| | `CountersAlwaysBalance` | the statistics account for every request |
| | `NoShardEverMissed` | while the table has room, a readable shard is registered, ahead of the scan, or announced |
| | `AlwaysRegisteredOnce` | only a shard that met a full memo is registered twice |
| `NativeCodeProofs` | `TrustHolds` | an unchanged generation sum proves the recorded verdict |
| | `NativeAlwaysLive` | a native function is entered only on the bytes it was compiled from |
| | `ShardsAlwaysEarnTrust` | a shard runs live only after its clean differential runs |
| | `OnlyExecutingAlwaysDemoted` | a store demotes only functions that are executing |
| | `SelfModAlwaysCaught` | a store into the code of an executing function demotes it at once |
| | `FastPathAlwaysPristine` | a page neither modified nor dirty holds the instructions it was compiled from |
| | `GuardedCallsAlwaysLive` | a guarded call enters compiled code only over those instructions |
| `ExceptionsProofs` | `FlagsAlwaysMatchHost` | `in_exception` is set exactly inside a handler's frames |
| | `InterruptsAlwaysComeBack` | where RFEs are compiled, however the outermost handler leaves, interrupts are enabled again |
| | `ThreadsAlwaysRunOwnRegisters` | outside handlers the running thread has its own registers |
| | `SuspendedAlwaysSaved` | a suspended runnable thread has its latest registers in its TCB |
| `PersistenceProofs` | `CleanAlwaysOnDisk` | a clean card equals its file |
| | `GoodAlwaysSurvives` | a slot whose last flush worked keeps the last accepted write, in every later run |
| | `GoodAlwaysMeansStored` | a write that ends with 'G' stored what the guest sent |
| | `LoadAlwaysRestores` | a successful load restores the machine of the last successful save, made by the same build |
| | `ClockAlwaysCoherent` | devices are never ahead of the guest clock and lag less than the cap |
| `ChargeProofs` | `TickIsJump` | a single count is a jump of one count, on every timer |
| | `JumpNeverSkipsIrq` | a jump short of the next interrupt raises none and brings it no nearer than it jumps |
| | `BulkAlwaysSingle` | a charge does to a root counter what as many single cycles do |
| | `ChargeAlwaysSplits` | a charge to a root counter may be made in two parts |
| | `TimerAlwaysOnTime` | fewer cycles than `timers_cycles_to_irq` raise no interrupt |
| | `AckAlwaysBeforeNextByte` | a pending acknowledge fires before the byte behind it is through |
| | `IdleCardAlwaysReady` | an idle port that is not the pad's reads ready |
| | `SerialAlwaysSplits` | a charge to the serial port may be made in two parts |
| `CdromProofs` | `PresentedAtMostOnce` | a response is presented to I_STAT at most once |
| | `CountdownsAndQueue` | countdowns never go negative; a queued command waits for a response |
| | `AlwaysHeldUntilAck` | time replaces no unacknowledged response and no sector being read |
| | `CdromAlwaysOnTime` | fewer cycles than `cdrom_cycles_to_irq` raise no interrupt |
| | `NoInterruptEverLost` | the driver loses no response, although it clears I_STAT last |
| `DmaProofs` | `OneIrqAlways` | one interrupt per rise of DICR's master flag |
| | `StoppedIsInactive` | a channel that is not busy has no transfer in flight |
| | `DmaAlwaysOnTime` | fewer cycles than `dma_cycles_to_irq` raise no interrupt |
| | `PacedAlwaysFinishes` | a paced transfer ends in the time its words cost, charged cycle by cycle |
| | `DmaAlwaysKeepsOutput` | no word fed by DMA makes the decoder overwrite unread output |
| `DevicesProofs` | `DevicesBulkSingle` | in every behaviour of the devices, bulk equals single |
| | `DevicesSplit` | in every behaviour of the devices, charges may be split |
| | `DevicesOnTime` | in every behaviour of the devices, no interrupt precedes its distance |
| | `DevicesHold` | in every behaviour of the devices, time replaces no held response or sector |

`ChargeProofs` begins with what it needs of the natural numbers: a least element, induction,
the existence of functions defined by recursion, and division. The library states
induction for an operator, which the provers cannot instantiate; here it is stated for a
set (`SetInduction`) and recursion for a function of functions (`RecursionExists`), which
they can. `DmaProofs` has the same for iteration (`CountInduction`, `IterationExists`). That is
what puts the timers' recursive advance, the serial port's events and the DMA's
cycle-by-cycle charge within reach.

Each inductive invariant was checked as an invariant of a TLC run before it was proved.
The argument of each:

* **Worker.** `IInv` is the type invariant, `RowsUsed` (rows beyond the count are
  unused), `RingWindow` (work is in exactly the slots from head to tail, across the
  wrap) and `InFlightTracked`. `RingWindow` is what makes pop and push preserve the
  rest. The only assumption is that both capacities are positive. For the refinement,
  `ItemHeld` (no item outside the compile section) is added, and each action is shown
  to be `Accept`, `Take`, `Finish` or a stutter; the wrap of the ring is where the
  sequence it stands for needs care.
* **Shard cache.** `CacheInv`: nothing is left to enumerate outside a scan, and what the
  memo knows was registered unless the table was full; `MemoInv`: only a full memo lets
  a registered file go unrecorded. The files are finitely many (`ShardAssumption`).
* **Overlay.** `IInv` holds under `DefaultTier`: no differential run is in progress,
  the pages of a registered candidate's code are watched (`CodeWatched`), no
  recorded sum is ahead of the current one (`GenBehind`), and the verdict is right
  when the sums agree (`Trusted`). `GenBehind` is needed because generations
  only grow: an equal sum then means that no page moved.
* **Demotion.** `RunInv` types the two stacks and the shadow RAM of a differential run.
  Without an unwind the active stack is a subsequence of the host frames (`Tracked`), for
  any capacity: a full stack skips the push and not the pop. While calls nest no deeper
  than it holds (`MaxDepth <= ACTIVE_CAP`, the hypothesis of `SelfModAlwaysCaught`), the
  two are equal (`FullInv`); that is when no executing function is overlooked.
* **Text guard.** Both theorems assume `~OldSaves`; without it the first is false
  (`text_restart`). `GuardInv` adds to the fast path's promise that blessing never reaches
  an instruction of the reference image, and `SavedIsPristine`: what the next load will
  bring back is as good as RAM, judged by the modified bitmap as it is now. That
  bitmap only grows within a process, which is why its own saves are harmless.
* **Exceptions.** `HostInv` says that `in_exception` is set exactly while a handler is on the
  host stack, that each frame remembers whether it was nested, and that the handler's own
  PC is found only where a nested delivery put it; `EnableInv` says of one and of two frames where the interrupted enable bit
  is kept at each point of the way out, in programs whose RFEs are compiled (`Compiles`); `OwnInv` says where each thread's registers are:
  in the TCB, in the frame, or in the registers. The last one needs a `Disciplined` guest
  (section 7 has what happens to others). `ExceptionsAssumption` keeps the handler's
  address and the sentinel apart from program counters.
* **Cards.** `CardInv` is the shape of the cards with `CleanIsOnDisk` per slot; `AckInv` adds
  what each slot was last told is stored, `PortInv` that an open transaction is with a
  card that is there. For the protocol, `SentInv` relates the protocol state to all
  bytes sent since it began, and `SlotInv`, for a `Disciplined` guest, the slot to the
  one addressed; `GoodAlwaysMeansStored` has that hypothesis.
* **Save states.** A complete file holds the machine of the last save that succeeded, and the
  build that made it.
  `ClockInv` excepts the machine that an incomplete restore was applied to.
* **Timers.** Arithmetic on the distances to target and overflow, modulo `W`, gives one
  iteration (`TickIsJump`, `JumpNeverSkipsIrq`). `timer_advance_counts` and `Ticked` are recursive
  functions; each is shown to satisfy its equation, then an iteration of n counts is
  n single counts by induction on n, and a charge of cycles is counts by division with
  the carried remainder. The invariant is that the remainder is below the divisor.
* **Serial port.** `Safe` says that the acknowledge of the shifter's path is at most `ACK` away
  and that the port reads ready as soon as the shifter stops. For the split, `Clocked`
  adds that the clock runs while anything is counted down and that the buffer is behind
  a byte in the shifter. A port then has at most five events to come, each event uses
  one up, and the loop of eight iterations always finishes its charge; the rest is
  induction over the events, at the seam of the two charges.
* **CD-ROM.** The device is a record; the invariant is a predicate `CdGood` on the record,
  preserved by each operator in a lemma of its own. An operator either keeps the response
  or presents a new one (`SameResponse`, `NewResponse`), which is what the driver's
  invariant `DriverInv` follows: a response set inside the handler is too young to be
  raised before the handler clears I_STAT.
* **DMA.** `Good` says that the number of times IRQ3 was raised since the flag last rose is
  the level itself. `StoppedIsInactive` assumes `Ordinary`, that no delayed channel starts
  a transfer of length zero and none runs in reverse. The other theorems follow one
  channel through an advance: the channels beside it leave it alone, and its own turn
  moves some of its words or ends it. Two hypotheses: `Reversible = {}`, since a
  wrong-direction MDEC transfer ends earlier than its distance (`dma.c:517`), and, for
  `PacedAlwaysFinishes`, `Sized`: a word's cost fits the accumulator (2^32 in the code) and
  only the CD-ROM has transfers of no words, as `transfer_word_count` computes them.
* **MDEC.** `StreamInv` types the decoder and says that nothing was lost. A transfer takes
  only as many words as `mdec_dma_write_ready` grants; a word is granted only while no
  output waits, so the induction over the words of a transfer keeps the output.
* **Devices.** Every behaviour of `ClockedDevices` is one of each device (`EachDevice`), so it
  keeps what is proved of each. The theorems have the assumptions of the device modules;
  `DevicesOnTime` has `Reversible = {}` as above.

Model-checked and not proved: liveness under fairness (`RequestFinishes`, `StopReturns`,
`PublishedIsUsable`, `CompiledGoesNative`, `ThreadsGoOn`, `CommandsFinish`, `StreamFinishes`), which is
beyond the prover; and `OtherIrqsOnTime` and `ReplayIsExact` of `DeviceClock`, which compare
a loop over four devices at once with a cycle-by-cycle one.

## 7. Disagreements between the code and what is written about it

Five are kept as runs whose property TLC violates:

* `exceptions_jmpbuf`: `interrupts.c:688` calls the handler machinery nesting-safe.
  `exception_jmpbuf` is one global that a nested delivery overwrites and nothing
  restores; the outer handler's RFE then jumps into a frame that has returned.
* `clock_sio`: `psx_cycles.c:63` says no event can fire late. A chunk that ends exactly
  on the serial event leaves its countdown at zero, which `sio_cycles_to_irq` skips,
  and the interrupt waits for the next service.
* `savestate_torn`: `boot_state.h:64` says an incomplete restore is never allowed.
  `boot_state_load` applies sections as it reads them, and a file that ends early
  leaves the running machine half restored.
* `text_restart`: `memory.c:186` says that a page no guarded write touched and that is not
  dirty holds the pristine image. The modified bitmap is in no save state: code rewritten
  by CPU stores, saved, and loaded by a new process is on a page with neither bit.
* `autocompile_variant`: `overlay_loader.c:1690` says that after a rescan the next dispatch
  reconsiders the cache. Only an address without candidate does: a variant whose
  addresses all have candidates of another one is compiled and never loaded.

The others were met while modelling. They are why some properties carry a condition or
why a run leaves a case out; each was seen as a TLC
counterexample to a property without the condition, or stating the promise.

| Where | What the code does | Excluded by |
|---|---|---|
| `overlay_loader.c:565` | a shard registered with an overridden checksum is marked valid at the current generations, so it may run on bytes it was not compiled from | `DefaultTier` |
| `overlay_loader.c:2428` | a differential run writes RAM back without moving generations | `DefaultTier` |
| `overlay_loader.c:2088` | a longjmp leaves discarded functions on the active stack, and an ordinary overwrite demotes them | `~unwinds` |
| `overlay_loader.c:2076` | the push on a full active stack is skipped but the pop is not, so a caller is lost | `MaxDepth` = `ACTIVE_CAP` |
| `overlay_loader.c:1972` | continuation dispatch does not look at a shard's verification budget | shard setting without continuation dispatch |
| `overlay_loader.c:569` | a later shard goes in front of the compiled function it should rank below | not stated as a property |
| `overlay_loader.c:1092` | the memo of loaded files (8192) forgets a file when full, so a later rescan registers it again, where line 1082 says "never double-registers" | condition of `RegisteredOnce` |
| `overlay_loader.c:552` | a full candidate table drops a shard that the memo then counts as loaded | condition of `NoShardMissed`, `PublishedIsUsable` |
| `overlay_loader.c:1930` | an address is marked tried before the worker accepts it; refused, it is not offered again | `PublishedIsUsable` speaks of published shards |
| `autocompile.c:193` | without a watcher thread the state stays RUNNING and no further compile starts | `~faults` |
| `autocompile.c:140` | a request before the last result was picked up replaces it; if the new compile fails, the rescan is lost | `~faults` |
| `dirty_ram_interp.c:2083` | dispatch enters the compiled function of a text address whatever the guard says, on purpose | `GuardedCallsRunLiveCode` is about guarded calls |
| `interrupts.c:1039` | the default same-thread test is PC equality; two threads at one PC get each other's registers when a handler switches them | `Disciplined` |
| `code_generator.cpp:112` | compiled code does not look at `cpu->pc` after its check: when the handler has switched threads, the new thread's registers go on at the old thread's leader | not stated as a property; `RunsOwnRegisters` is about registers |
| `dirty_ram_interp.c:1523` | an interpreted RFE does not arm the escape: the thread runs on inside the handler's window and may end there with interrupts disabled | `Disciplined`, condition of `InterruptsComeBack` |
| `interrupts.c:973` | a plain return from a precise delivery restores no registers | `Disciplined` |
| `traps.c:915` | SYSCALL 3 in a handler entered without a resume PC resumes at the sentinel | `Disciplined` |
| `traps.c:682` | a yield to a thread that is not runnable rolls the current thread back to its last saved context | `Disciplined` |
| `traps.c:821` | the switch back at a thread's end does not test that the yielder is still open | properties speak of runnable threads |
| `sio.c:1490` | after a pad byte the port stays not ready until SELECT or TX_EN drops | `IdleCardIsReady` excludes the pad |
| `sio.c:1543`, `sio.c:1874` | TX_RDY is up while the buffer is full; the acknowledge of the previous byte is taken for this one's | not stated as properties |
| `cdrom.c:1308` | a second two-phase command replaces the first one's pending response | driver with one command outstanding |
| `dma.c:983` | enabling a channel in DPCR after its start bit was set does not start it | not stated as a property |
| `dma.c:517` | a wrong-direction MDEC transfer ends at the first advance, earlier than the distance given | `Reversible` = {} |
| `dma.c` (GPU) | a zero-length read started over a transfer in flight completes twice | `Ordinary`, lengths of the run |
| `cdrom.c:1489`, `psx_cycles.c:41` | a chunk that ends on a CD-ROM response counts the sector stream, or CD-ROM DMA, otherwise than single cycles | `ReplayIsExact` excludes the CD-ROM |
| `boot_state.c:180` | an error that shows only at `fclose` leaves a truncated file and reports success | such a file does not load, so `LoadRestoresLastSave` still holds |
| `savestate.c:75` | a save polled without a resume PC is loaded at the game's entry | position is not part of `LoadRestoresLastSave` |
| `psx_cycles.c:213`, `:341` | the devices' lag at the save is never replayed; stall deadlines survive a load | not stated as properties |
| `boot_state.c:117` | MDEC, VBlank phase and scheduler state have no section | `Unsaved` parts |
| `sio.c:1618`, `sio.c:1309` | the card's FLAG is reloaded after a reset or a pad byte; a byte with SLOT changed goes to the old slot's card | `Disciplined` guest; FLAG is not stated |
| `memcard.c:118` | a file cut short by a failed flush leaves its slot without a card at the next start | slots in `lossy` |
| `test_sio_card_protocol.c:324` | the test expects FLAG to stay until a write; the code clears it on the first command | FLAG is not stated |

## 8. What is not modelled

* **Inside modelled parts.** Manifests and the ABI sweep of the overlay cache; the synchronous
  JIT path; the contents of a capture; the legacy access-paced serial and timer paths;
  CD-ROM response contents, XA and CD-DA audio; DMA payload and linked lists; the
  instruction cost model; trace rings.
* **Within reach of these methods, but not done**: the pad's configuration handshake and
  hybrid type changes; the GPU's command FIFO and transfer states; the SPU's address and
  envelope state; the BIOS event tables; the debug server's rings; the recompiler's
  control-flow analyses, sector addressing and cue sheets as operators; frame pacing.
* **Host fibers** (`psx_fiber.c`): the alternative to the default thread scheduler.
* **Interpreter and JIT**: only the interpreter's polls, its RFE, its dispatch of the sentinel
  and the choice of tier.
  Instruction semantics and code generation are data, not control.
* **GPU, SPU, GTE, the MDEC's transform**: the arithmetic of pixels, samples and vectors is
  out of reach of a state model. Renderers are graphics calls.
* **Disc images, text tables**: file access and parsing.
* **Recompiler**: emission is text and configuration is parsing.
* **Debug server, co-simulation, reference emulator**: tooling around the runtime.
* **Launcher, windows, audio, input**: host I/O, apart from start, shutdown and the
  staging of save states.

Much of the source tree is third-party libraries, instruction arithmetic and rendering, so
the modules stand for a small share of its lines: the runtime's control.
Each part has a row, with its sources and the reason, under `components` in `PROJECT.json`.
