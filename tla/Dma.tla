--------------------------------- MODULE Dma ---------------------------------
(***************************************************************************)
(* The DMA controller (dma.c).  MDEC and CD-ROM transfers move words as    *)
(* time passes and the device has them; GPU and SPU transfers move their   *)
(* payload at once and complete later; OTC completes at once.  The         *)
(* payload and its addresses are left out.  The operators are the          *)
(* functions of the file on the controller's state.                        *)
(***************************************************************************)
EXTENDS Naturals

CONSTANTS
  Paced,         \* channels that move words over time: 0 and 1 (MDEC), 3 (CD-ROM)
  Delayed,       \* channels whose completion is delayed: 2 (GPU), 4 (SPU)
  Immediate,     \* channels that complete at once: 6 (OTC)
  CyclesPerWord, \* the DMA_*_CYCLES_PER_WORD table
  Reversible,    \* channels the guest may start in the direction the device lacks
  Lengths,       \* the lengths in words each channel's transfers may have
  MaxAccum,      \* UINT32_MAX, where an unused cycle budget saturates
  MaxDmaStep        \* largest advance

Channels == Paced \cup Delayed \cup Immediate
CDROM == 3

ASSUME DmaAssumption ==
  /\ Paced \subseteq {0, 1, CDROM} /\ Delayed \subseteq {2, 4} /\ Immediate \subseteq {6}
  /\ Reversible \subseteq Paced
  /\ CyclesPerWord \in [Channels -> Nat \ {0}]
  /\ Lengths \in [Channels -> SUBSET (0..7)] /\ MaxAccum \in Nat /\ MaxDmaStep \in Nat

VARIABLE dma
dmaVars == <<dma>>

ChannelSets == SUBSET Channels
ReverseSets == SUBSET Reversible
Counts == [Channels -> Nat]
Budgets == [Channels -> 0..MaxAccum]

\* busy and reverse are bits 24 and 0 of CHCR; active marks a transfer in flight, with
\* left words (paced) or cycles (delayed) to go; raised counts the IRQs raised since
\* DICR's master flag last went up.
DmaController ==
  [busy : ChannelSets, reverse : ReverseSets, enabled : ChannelSets,
   bus_error : BOOLEAN, master_en : BOOLEAN, irq_en : ChannelSets, flags : ChannelSets,
   active : ChannelSets, left : Counts, accum : Budgets, i_stat : BOOLEAN, raised : Nat]

dma_init ==
  [busy |-> {}, reverse |-> {}, enabled |-> {}, bus_error |-> FALSE, master_en |-> FALSE,
   irq_en |-> {}, flags |-> {}, active |-> {}, left |-> [c \in Channels |-> 0],
   accum |-> [c \in Channels |-> 0], i_stat |-> FALSE, raised |-> 0]

DmaInit == dma = dma_init

dicr_master_flag(d) == d.bus_error \/ (d.master_en /\ d.flags # {})

raise_dma_irq_on_master_edge_level(before, d) ==
  [d EXCEPT !.i_stat = @ \/ dicr_master_flag(d),
            !.raised = IF ~dicr_master_flag(d) THEN 0 ELSE @ + 1]

raise_dma_irq_on_master_edge(before, d) ==
  LET edge == ~dicr_master_flag(before) /\ dicr_master_flag(d)
  IN [d EXCEPT !.i_stat = @ \/ edge,
               !.raised = IF ~dicr_master_flag(d) THEN 0 ELSE IF edge THEN @ + 1 ELSE @]

channel_irq_flag_armed(d, c) == c \in d.irq_en /\ d.master_en

complete_transfer(d, c) ==
  LET idle == [d EXCEPT !.busy = @ \ {c}]
  IN IF channel_irq_flag_armed(d, c)
     THEN raise_dma_irq_on_master_edge(d, [idle EXCEPT !.flags = @ \cup {c}])
     ELSE idle

cancel_async_transfer(d, c) ==
  [d EXCEPT !.active = @ \ {c}, !.left[c] = 0, !.accum[c] = 0]

\* finish_async_mdec_transfer, finish_async_cdrom_transfer.
Finish(d, c) == complete_transfer(cancel_async_transfer(d, c), c)

schedule_delayed_complete(d, c, words) ==
  IF words = 0 THEN complete_transfer(d, c)
  ELSE [d EXCEPT !.active = @ \cup {c}, !.left[c] = words * CyclesPerWord[c]]

\* start_async_mdec_transfer, start_async_cdrom_transfer: a transfer in flight goes on.
StartPaced(d, c, words) ==
  LET s == [d EXCEPT !.active = @ \cup {c}, !.left[c] = words, !.accum[c] = 0]
  IN IF c \in d.active THEN d
     ELSE IF words = 0 /\ c = CDROM THEN Finish(s, c)
     ELSE s

try_execute(d, c, words) ==
  IF c \notin d.busy \cap d.enabled THEN d
  ELSE IF c = CDROM /\ c \in d.reverse THEN [d EXCEPT !.busy = @ \ {c}]
  ELSE IF c \in Paced THEN StartPaced(d, c, words)
  ELSE IF c \in Delayed THEN schedule_delayed_complete(d, c, words)
  ELSE complete_transfer(d, c)

Lesser(a, b) == IF a < b THEN a ELSE b

\* An advance of a running paced channel: the cycles it has to spend, the words they pay for,
\* and its record once those have moved.  avail[c] is how many words its device can move now.
Budget(d, c, cycles) == Lesser(d.accum[c] + cycles, MaxAccum)

Words(d, c, cycles, avail) ==
  Lesser(Lesser(d.left[c], avail[c]), Budget(d, c, cycles) \div CyclesPerWord[c])

Moved(d, c, n, k) == [d EXCEPT !.left[c] = n, !.accum[c] = k]

After(d, c, cycles, avail) ==
  LET w == Words(d, c, cycles, avail)
  IN Moved(d, c, d.left[c] - w, Budget(d, c, cycles) - w * CyclesPerWord[c])

\* One paced channel.
advance_channel_forgets(d, c, cycles, avail) ==
  LET moved == Lesser(Lesser(d.left[c], avail[c]), cycles \div CyclesPerWord[c])
      m == [d EXCEPT !.left[c] = @ - moved]
  IN IF c \notin Paced \cap d.active \cap d.busy \cap d.enabled THEN d
     ELSE IF moved > 0 /\ m.left[c] = 0 THEN Finish(m, c) ELSE m

advance_channel(d, c, cycles, avail) ==
  LET m == After(d, c, cycles, avail)
  IN IF c \notin Paced \cap d.active \cap d.busy \cap d.enabled THEN d
     ELSE IF c \in d.reverse THEN IF c = CDROM THEN d ELSE Finish(d, c)
     ELSE IF avail[c] = 0 THEN d
     ELSE IF Words(d, c, cycles, avail) > 0 /\ m.left[c] = 0 THEN Finish(m, c)
     ELSE m

advance_delayed_complete(d, c, cycles) ==
  IF c \notin d.active \cap Delayed THEN d
  ELSE IF cycles < d.left[c] THEN [d EXCEPT !.left[c] = @ - cycles]
  ELSE complete_transfer([d EXCEPT !.active = @ \ {c}, !.left[c] = 0], c)

\* Channels 0, 1 and 3 are advanced, then the delayed ones, of which there are 2 and 4.
dma_advance(d, cycles, avail) ==
  LET d0 == advance_channel(d, 0, cycles, avail)
      d1 == advance_channel(d0, 1, cycles, avail)
      d3 == advance_channel(d1, CDROM, cycles, avail)
  IN advance_delayed_complete(advance_delayed_complete(d3, 2, cycles), 4, cycles)

dma_cdrom_transfer_active(d) == CDROM \in (d.active \cap d.busy \cap d.enabled) \ d.reverse

DmaNever == 1000

dma_cycles_to_irq_long(d) ==
  LET due == {d.left[c] * CyclesPerWord[c] : c \in {p \in d.active \cap Paced : d.left[p] > 0}}
             \cup {d.left[c] : c \in d.active \cap Delayed}
  IN CHOOSE k \in due \cup {DmaNever} : \A j \in due \cup {DmaNever} : k <= j

dma_cycles_to_irq(d) ==
  LET Est(c) == IF d.left[c] > d.accum[c] THEN d.left[c] - d.accum[c] ELSE 0
      due == {Est(c) : c \in {p \in d.active \cap Paced : d.left[p] > 0}}
             \cup {d.left[c] : c \in d.active \cap Delayed}
  IN CHOOSE k \in due \cup {DmaNever} : \A j \in due \cup {DmaNever} : k <= j

-----------------------------------------------------------------------------
\* dma_write_masked and the passage of time.
WriteDPCR(on) == dma' = [dma EXCEPT !.enabled = on]

WriteDICR(error, master, en, ack) ==
  dma' = raise_dma_irq_on_master_edge(dma,
           [dma EXCEPT !.bus_error = error, !.master_en = master, !.irq_en = en,
                       !.flags = @ \ ack])

Direction(c, rev) == [dma EXCEPT !.reverse = IF rev THEN @ \cup {c} ELSE @ \ {c}]

\* CHCR written with the start bit clear, and with it set.
Stop(c, rev) ==
  dma' = cancel_async_transfer([Direction(c, rev) EXCEPT !.busy = @ \ {c}], c)

Start(c, rev, words) ==
  dma' = try_execute([Direction(c, rev) EXCEPT !.busy = @ \cup {c}], c, words)

AdvanceDma(cycles, avail) == dma' = dma_advance(dma, cycles, avail)

\* The interrupt controller's I_STAT acknowledge of IRQ3.
Acknowledge == dma.i_stat /\ dma' = [dma EXCEPT !.i_stat = FALSE]

Avail == [Paced -> 0..2]

\* A program that uses the channels chs.
Uses(chs) ==
  \/ \E on \in SUBSET chs : WriteDPCR(on)
  \/ \E error, master \in BOOLEAN, en, ack \in SUBSET chs :
       WriteDICR(error, master, en, ack)
  \/ \E c \in chs : \E rev \in {FALSE} \cup {c \in Reversible} :
       \/ Stop(c, rev)
       \/ \E words \in Lengths[c] : Start(c, rev, words)
  \/ \E cycles \in 1..MaxDmaStep, avail \in Avail : AdvanceDma(cycles, avail)
  \/ Acknowledge

DmaNext == Uses(Channels)

DmaSpec == DmaInit /\ [][DmaNext]_dmaVars
-----------------------------------------------------------------------------
\* The controller's registers and transfer records hold values of their types.
DmaTypeOK == dma \in DmaController

\* IRQ3 is raised exactly once each time DICR's master flag goes up, whether a completion,
\* a DICR write or the bus-error bit puts it up: never again for a flag that stays up
\* after I_STAT was acknowledged, and never zero times.
OneIrqPerLevel == dma.raised = IF dicr_master_flag(dma) THEN 1 ELSE 0

\* A channel whose start bit is clear has no transfer in flight: a stop cancels it and a
\* completion retires it, so no interrupt and no word moves later for it.
IdleIsInactive == dma.active \subseteq dma.busy

\* dma_cycles_to_irq never over-estimates: no advance shorter than its answer raises IRQ3,
\* whatever words the devices have ready.
DmaNeverLate ==
  \A cycles \in 1..MaxDmaStep, avail \in Avail :
    cycles < dma_cycles_to_irq(dma) => dma_advance(dma, cycles, avail).i_stat = dma.i_stat

\* A paced transfer finishes in the time its words cost, charged one cycle at a time, if
\* its device keeps up: the unused cycle budget is carried over between advances, so a
\* word that costs more than an advance charges still moves, and no cycle is lost.
PacedFinishes ==
  \A c \in Paced \cap dma.active \cap dma.busy \cap dma.enabled :
    LET single[n \in Nat] ==
          IF n = 0 THEN dma ELSE dma_advance(single[n - 1], 1, [p \in Paced |-> 1])
    IN c \notin single[dma.left[c] * CyclesPerWord[c]].busy
=============================================================================
