--------------------------- MODULE ClockedDevices ---------------------------
(***************************************************************************)
(* The four devices whose time the cycle clock drives.  The guest of one   *)
(* behaviour exercises one of them, in every order; the clock that drives  *)
(* them together is DeviceClock's subject.  The properties are what that   *)
(* clock relies on.                                                        *)
(***************************************************************************)
EXTENDS Timers, SioPace, Cdrom, Dma

CONSTANT DmaPrograms \* the sets of channels a program uses together

ASSUME ProgramsAssumption == DmaPrograms \subseteq SUBSET Channels

VARIABLE part \* the device this behaviour exercises, and the channels of a DMA program
devicesVars == <<tm, sio, cd, dma, part>>

Guests ==
  [device : {"timer", "sio", "cdrom"}, channels : {{}}] \cup [device : {"dma"}, channels : DmaPrograms]

DevicesInit == TimerInit /\ SioInit /\ CdromInit /\ DmaInit /\ part \in Guests

DevicesNext ==
  /\ \/ part.device = "timer" /\ TimerNext /\ UNCHANGED <<sio, cd, dma>>
     \/ part.device = "sio" /\ SioNext /\ UNCHANGED <<tm, cd, dma>>
     \/ part.device = "cdrom" /\ CdromNext /\ UNCHANGED <<tm, sio, dma>>
     \/ part.device = "dma" /\ Uses(part.channels) /\ UNCHANGED <<tm, sio, cd>>
  /\ UNCHANGED part

DevicesSpec == DevicesInit /\ [][DevicesNext]_devicesVars
-----------------------------------------------------------------------------
\* A bulk advance of the root counter (timer_advance_counts) equals as many single counts
\* (timer_tick_one), in counter, mode, flags and interrupts raised.
TimerBulkEqualsSingle == part.device = "timer" => BulkEqualsSingle

\* Cycles charged to the root counter (timer_advance_divided) or to the serial port
\* (sio_advance) in two parts leave it as the same cycles charged at once.
ChargesMaySplit ==
  /\ part.device = "timer" => SplitCharge
  /\ part.device = "sio" => SplitAdvance

\* No interrupt of the root counter, the CD-ROM or DMA comes before the distance that
\* timers_cycles_to_irq, cdrom_cycles_to_irq or dma_cycles_to_irq gives for it.
NoIrqBeforeItsDistance ==
  /\ part.device = "timer" => TimerNeverLate
  /\ part.device = "cdrom" => CdromNeverLate
  /\ DmaNeverLate

\* Time replaces neither an unacknowledged CD-ROM response nor an unread sector
\* (cdrom_advance).
CdromHeldUntilAck == part.device = "cdrom" => HeldUntilAck
=============================================================================
