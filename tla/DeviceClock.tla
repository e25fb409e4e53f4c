----------------------------- MODULE DeviceClock -----------------------------
(***************************************************************************)
(* The guest cycle clock (psx_cycles.c) and the devices it drives: charged *)
(* cycles pile up until the deadline of the nearest device event, or until *)
(* the guest touches a device register, and are then replayed to the serial*)
(* port, the CD-ROM controller, the DMA controller, a root counter and the *)
(* VBlank generator (interrupts.c) in chunks that end on device events.    *)
(* The devices are the modules that model them; every property compares    *)
(* this clock with one that advances the devices one cycle at a time.      *)
(***************************************************************************)
EXTENDS Naturals

CONSTANTS
  DeviceSets,    \* sets of devices a guest programs: "timer", "cdrom", "dma", "sio", "card"
  HARD_CAP,      \* PSX_DEADLINE_HARD_CAP
  VBLANK_CYCLES, \* cycles per frame
  STALE,         \* VBLANK_DEFER_STALE_CYCLES
  MaxCharge,     \* largest charge of one instruction
  MaxDebt,       \* bound on the VBlank cycles an exception may run up
  TimerModes,    \* the modes the guest gives the root counter
  W, Divisors,                                                    \* Timers
  Cmds, HasDisc, PRESENT_DELAY, PendDelay, ReadDelay, SectorWords, \* Cdrom
  Paced, Delayed, Immediate, CyclesPerWord, Reversible, Lengths, MaxAccum, \* Dma
  BAUD, ACK, CtrlValues                                           \* SioPace

ASSUME ClockAssumption ==
  /\ {HARD_CAP, VBLANK_CYCLES, STALE, MaxCharge, MaxDebt} \subseteq Nat \ {0}
  /\ Paced \subseteq {3}

VARIABLES
  devices,      \* the devices this guest programs
  tm, cd, dma, sio, \* the devices
  vb,           \* the VBlank generator: cycles since the last edge, cycles of deferral left
  gap,          \* psx_cycle_count - s_devices_synced_cycle
  left,         \* s_next_service_cycle - s_devices_synced_cycle, 0 when marked dirty
  in_exception
vars == <<devices, tm, cd, dma, sio, vb, gap, left, in_exception>>

Tm == INSTANCE Timers WITH MaxTicks <- MaxCharge
Cd == INSTANCE Cdrom WITH MaxCdromStep <- MaxCharge
Dm == INSTANCE Dma WITH MaxDmaStep <- MaxCharge
So == INSTANCE SioPace WITH MaxSioStep <- MaxCharge

Init ==
  /\ devices \in DeviceSets
  /\ Tm!TimerInit /\ Cd!CdromInit /\ Dm!DmaInit /\ So!SioInit
  /\ vb = [since |-> 0, defer |-> 0, i_stat |-> FALSE]
  /\ gap = 0 /\ left = 0 /\ in_exception = FALSE

\* The devices' state as one value, the VBlank generator's view of in_exception included.
Now == [tm |-> tm, cd |-> cd, dma |-> dma, sio |-> sio, vb |-> vb, exc |-> in_exception]

SetDevices(d) == tm' = d.tm /\ cd' = d.cd /\ dma' = d.dma /\ sio' = d.sio /\ vb' = d.vb
-----------------------------------------------------------------------------
\* VBlank edges that are due fire, unless an exception or the memory card defers them.
interrupts_service_scheduled_events(v, exc) ==
  IF exc \/ v.since < VBLANK_CYCLES \/ v.defer > 0 THEN v
  ELSE [v EXCEPT !.since = @ % VBLANK_CYCLES, !.i_stat = TRUE]

Elapse(v, c) == [v EXCEPT !.defer = IF @ > c THEN @ - c ELSE 0]

interrupts_advance_cycles(v, c, exc) ==
  interrupts_service_scheduled_events([Elapse(v, c) EXCEPT !.since = @ + c], exc)

interrupts_cycles_to_vblank(v) ==
  IF v.since >= VBLANK_CYCLES THEN 0 ELSE VBLANK_CYCLES - v.since

\* The root counter's IRQs since the guest last acknowledged them, as its I_STAT bit.
TimerAdvance(t, c) ==
  LET a == Tm!timer_advance_divided(t, c) IN [a EXCEPT !.fired = IF @ > 0 THEN 1 ELSE 0]

\* The words a DMA step takes leave the CD-ROM's sector buffer.
Drained(c, words) == [c EXCEPT !.read_pos = @ + words,
                               !.available = c.available /\ c.read_pos + words < SectorWords]

Ready(c) == IF Cd!data_fifo_ready(c) THEN SectorWords - c.read_pos ELSE 0

advance_devices(d, c) ==
  LET cd1 == Cd!cdrom_advance(d.cd, c, TRUE, Dm!dma_cdrom_transfer_active(d.dma))
      dma1 == Dm!dma_advance(d.dma, c, [p \in Paced |-> Ready(cd1)])
      words == IF Dm!dma_cdrom_transfer_active(d.dma)
               THEN d.dma.left[Dm!CDROM] - dma1.left[Dm!CDROM] ELSE 0
  IN [d EXCEPT !.sio = So!sio_advance(@, c), !.cd = Drained(cd1, words), !.dma = dma1,
               !.tm = TimerAdvance(@, c), !.vb = interrupts_advance_cycles(@, c, d.exc)]

Least(S) == CHOOSE n \in S : \A m \in S : n <= m

devices_cycles_to_next_internal_event(d) ==
  LET n == Least({interrupts_cycles_to_vblank(d.vb), Tm!timers_cycles_to_irq(d.tm),
                  Cd!cdrom_cycles_to_irq(d.cd), Dm!dma_cycles_to_irq(d.dma),
                  So!sio_cycles_to_irq(d.sio)})
  IN IF n = 0 THEN 1 ELSE n

\* psx_devices_recompute_deadline
Deadline(d) == Least({HARD_CAP, devices_cycles_to_next_internal_event(d)})

Chunk_overshoot(d, remaining) == devices_cycles_to_next_internal_event(d)

Chunk(d, remaining) == Least({remaining, devices_cycles_to_next_internal_event(d)})

\* The replay loop of psx_devices_service_to_now.
Replay(d, cycles) ==
  LET start == [d EXCEPT !.vb = interrupts_service_scheduled_events(@, d.exc)]
      loop[k \in 0..cycles] ==
        IF k = 0 THEN [dev |-> start, done |-> 0]
        ELSE LET l == loop[k - 1]
                 step == Chunk(l.dev, cycles - l.done)
             IN IF l.done >= cycles THEN l
                ELSE [dev |-> advance_devices(l.dev, step), done |-> l.done + step]
  IN IF cycles = 0 THEN d ELSE loop[cycles].dev

\* The same devices advanced one cycle at a time (g_event_step_conservative).
Exact(d, cycles) ==
  LET start == [d EXCEPT !.vb = interrupts_service_scheduled_events(@, d.exc)]
      loop[k \in 0..cycles] == IF k = 0 THEN start ELSE advance_devices(loop[k - 1], 1)
  IN IF cycles = 0 THEN d ELSE loop[cycles]
-----------------------------------------------------------------------------
\* psx_devices_service_to_now, charged up to total cycles past the devices' position.
Service(total) ==
  LET d == Replay(Now, total)
  IN SetDevices(d) /\ gap' = 0 /\ left' = Deadline(d)

psx_advance_cycles(c) ==
  /\ vb.since + gap + c <= MaxDebt
  /\ IF left = 0 \/ gap + c >= left
     THEN Service(gap + c)
     ELSE gap' = gap + c /\ UNCHANGED <<tm, cd, dma, sio, vb, left>>
  /\ UNCHANGED in_exception

\* An access that finds the devices behind brings them up to date first.
psx_devices_mmio_sync ==
  /\ gap > 0
  /\ SetDevices(Replay(Now, gap)) /\ gap' = 0 /\ left' = 0
  /\ UNCHANGED in_exception

Touch_clean(d) == d \in devices /\ gap = 0 /\ UNCHANGED <<gap, left, in_exception>>

\* The rest of an access to device d: the deadline is dirty, the handler follows.
Touch(d) == d \in devices /\ gap = 0 /\ left' = 0 /\ UNCHANGED <<gap, in_exception>>

TouchTimer ==
  /\ Touch("timer")
  /\ (\E m \in TimerModes : Tm!WriteMode(m)) \/ (\E v \in 1..(W - 1) : Tm!WriteTarget(v))
  /\ UNCHANGED <<cd, dma, sio, vb>>

TouchCdrom ==
  /\ Touch("cdrom")
  /\ \/ \E cmd \in Cmds : Cd!WriteCommand(cmd)
     \/ Cd!AckController({1, 2, 4})
     \/ Cd!WriteRequest(TRUE)
  /\ UNCHANGED <<tm, dma, sio, vb>>

TouchDma ==
  /\ Touch("dma")
  /\ \/ Dm!WriteDPCR(Dm!Channels)
     \/ Dm!WriteDICR(FALSE, TRUE, Dm!Channels, Dm!Channels)
     \/ \E c \in Dm!Channels : \E words \in Lengths[c] : Dm!Start(c, FALSE, words)
  /\ UNCHANGED <<tm, cd, sio, vb>>

TouchSio ==
  /\ Touch("sio")
  /\ \/ \E c \in CtrlValues : So!WriteCtrl(c, FALSE, FALSE)
     \/ \E b \in So!Bytes : So!WriteTxData(TRUE, b)
  /\ UNCHANGED <<tm, cd, dma, vb>>

\* A byte of a memory card transaction: the next service notes the progress.
TouchCard ==
  /\ Touch("card")
  /\ vb' = [vb EXCEPT !.defer = STALE]
  /\ UNCHANGED <<tm, cd, dma, sio>>

\* The guest acknowledges every pending interrupt in I_STAT.
TouchIstat ==
  /\ gap = 0 /\ left' = 0 /\ UNCHANGED <<gap, in_exception>>
  /\ tm' = [tm EXCEPT !.fired = 0] /\ cd' = [cd EXCEPT !.i_stat = FALSE]
  /\ dma' = [dma EXCEPT !.i_stat = FALSE] /\ sio' = [sio EXCEPT !.i_stat = FALSE]
  /\ vb' = [vb EXCEPT !.i_stat = FALSE]

\* psx_check_interrupts services due VBlanks before it looks for an interrupt to take.
psx_check_interrupts ==
  /\ vb' = interrupts_service_scheduled_events(vb, in_exception)
  /\ UNCHANGED <<tm, cd, dma, sio, gap, left, in_exception>>

\* A handler starts, or the last one returns.
TakeOrLeaveException ==
  in_exception' = ~in_exception /\ UNCHANGED <<tm, cd, dma, sio, vb, gap, left>>

Next ==
  /\ \/ \E c \in 1..MaxCharge : psx_advance_cycles(c)
     \/ psx_devices_mmio_sync
     \/ TouchTimer \/ TouchCdrom \/ TouchDma \/ TouchSio \/ TouchCard \/ TouchIstat
     \/ psx_check_interrupts
     \/ TakeOrLeaveException
  /\ UNCHANGED devices

Spec == Init /\ [][Next]_vars
-----------------------------------------------------------------------------
Irqs(d) == [timer |-> d.tm.fired, cdrom |-> d.cd.i_stat, dma |-> d.dma.i_stat,
            sio |-> d.sio.i_stat, vblank |-> d.vb.i_stat]

\* No interrupt is late: the cycles not yet replayed to the devices would raise none that
\* I_STAT does not already show, so the deadline is never beyond the next event.
OnTime == Irqs(Exact(Now, gap)) = Irqs(Now)

\* The same for every device but the serial port, whose countdown may be left at zero by a
\* chunk that ends on it (sio_advance).
OtherIrqsOnTime ==
  [Irqs(Exact(Now, gap)) EXCEPT !.sio = FALSE] = [Irqs(Now) EXCEPT !.sio = FALSE]

\* Whatever is charged next, the replay leaves the root counter, the DMA controller and the
\* VBlank generator exactly as a clock that advances them one cycle at a time would: its
\* chunks skip over no event.
ReplayIsExact ==
  devices \subseteq {"timer", "dma", "card"} =>
    \A c \in 0..MaxCharge : Replay(Now, gap + c) = Exact(Now, gap + c)

=============================================================================
