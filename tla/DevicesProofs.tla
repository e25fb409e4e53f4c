---------------------------- MODULE DevicesProofs ----------------------------
(***************************************************************************)
(* The devices the cycle clock drives, one guest for each: every behaviour *)
(* of ClockedDevices is a behaviour of the root counter, the serial port,  *)
(* the CD-ROM controller and the DMA controller, so it keeps what is       *)
(* proved of each of them.                                                 *)
(***************************************************************************)
EXTENDS ClockedDevices, ChargeProofs, CdromProofs, DmaProofs, TLAPS

\* A program that uses some channels is one that may use them all.
LEMMA UsesSome ==
  ASSUME part \in Guests, part.device = "dma", Uses(part.channels)
  PROVE  DmaNext
<1>1. part.channels \in SUBSET Channels
  BY ProgramsAssumption, Zenon DEF Guests
<1>. HIDE DEF WriteDPCR, WriteDICR, Stop, Start, AdvanceDma, Acknowledge
<1>2. SUBSET part.channels \subseteq SUBSET Channels
  BY <1>1, Zenon
<1>. QED
  BY <1>1, <1>2, Zenon DEF Uses, DmaNext

\* What the guest of one device does is a behaviour of each device.
LEMMA EachDevice == DevicesSpec => TimerSpec /\ SioSpec /\ CdromSpec /\ DmaSpec
<1>1. DevicesInit => TimerInit /\ SioInit /\ CdromInit /\ DmaInit /\ part \in Guests
  BY Zenon DEF DevicesInit
<1>2. part \in Guests /\ [DevicesNext]_devicesVars
      => (part \in Guests)' /\ [TimerNext]_tmVars /\ [SioNext]_sioVars /\ [CdromNext]_cdVars
         /\ [DmaNext]_dmaVars
  <2>. SUFFICES ASSUME part \in Guests, [DevicesNext]_devicesVars
                PROVE  /\ (part \in Guests)' /\ [TimerNext]_tmVars /\ [SioNext]_sioVars
                       /\ [CdromNext]_cdVars /\ [DmaNext]_dmaVars
    OBVIOUS
  <2>1. part' = part
    BY Zenon DEF DevicesNext, devicesVars
  <2>2. \/ TimerNext /\ sio' = sio /\ cd' = cd /\ dma' = dma
        \/ SioNext /\ tm' = tm /\ cd' = cd /\ dma' = dma
        \/ CdromNext /\ tm' = tm /\ sio' = sio /\ dma' = dma
        \/ DmaNext /\ tm' = tm /\ sio' = sio /\ cd' = cd
        \/ tm' = tm /\ sio' = sio /\ cd' = cd /\ dma' = dma
    BY UsesSome, Zenon DEF DevicesNext, devicesVars
  <2>. QED
    BY <2>1, <2>2, Zenon DEF tmVars, sioVars, cdVars, dmaVars
<1>. QED
  BY <1>1, <1>2, PTL DEF DevicesSpec, TimerSpec, SioSpec, CdromSpec, DmaSpec

\* A bulk advance of the root counter equals as many single counts.
THEOREM DevicesBulkSingle == DevicesSpec => []TimerBulkEqualsSingle
<1>1. BulkEqualsSingle => TimerBulkEqualsSingle
  BY Zenon DEF TimerBulkEqualsSingle
<1>. QED
  BY <1>1, EachDevice, BulkAlwaysSingle, PTL

\* Cycles charged to the root counter or the serial port may be charged in two parts.
THEOREM DevicesSplit == DevicesSpec => []ChargesMaySplit
<1>1. SplitCharge /\ SplitAdvance => ChargesMaySplit
  BY Zenon DEF ChargesMaySplit
<1>. QED
  BY <1>1, EachDevice, ChargeAlwaysSplits, SerialAlwaysSplits, PTL

\* No interrupt of a device comes before the distance it gives for it, if no DMA channel is
\* started against its device's direction.
THEOREM DevicesOnTime == Reversible = {} => (DevicesSpec => []NoIrqBeforeItsDistance)
<1>1. TimerNeverLate /\ CdromNeverLate /\ DmaNeverLate => NoIrqBeforeItsDistance
  BY Zenon DEF NoIrqBeforeItsDistance
<1>. QED
  BY <1>1, EachDevice, TimerAlwaysOnTime, CdromAlwaysOnTime, DmaAlwaysOnTime, PTL

\* Time replaces neither an unacknowledged CD-ROM response nor an unread sector.
THEOREM DevicesHold == DevicesSpec => []CdromHeldUntilAck
<1>1. HeldUntilAck => CdromHeldUntilAck
  BY Zenon DEF CdromHeldUntilAck
<1>. QED
  BY <1>1, EachDevice, AlwaysHeldUntilAck, PTL
=============================================================================
