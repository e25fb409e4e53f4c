-------------------------------- MODULE Cdrom --------------------------------
(***************************************************************************)
(* The CD-ROM controller (cdrom.c): one response at a time, a one-entry    *)
(* command queue behind it, a delayed second response, the sector stream   *)
(* and the single sector buffer, and the latch that presents a response to *)
(* the interrupt controller once.  The operators are the functions of the  *)
(* file on the controller's state.  The content of responses and sectors   *)
(* is left out; a sector is known by the parity of its number.             *)
(***************************************************************************)
EXTENDS Integers

CONSTANTS
  Cmds,          \* the commands the guest issues
  HasDisc,       \* has_disc(): a disc image is mounted
  PRESENT_DELAY, \* CDROM_IRQ_PRESENT_DELAY
  PendDelay,     \* cycles from a command to its second response
  ReadDelay,     \* cycles from one sector to the next
  SectorWords,   \* DMA words in a sector
  MaxCdromStep        \* largest advance

ASSUME CdromAssumption ==
  /\ HasDisc \in BOOLEAN
  /\ {PRESENT_DELAY, PendDelay, ReadDelay, SectorWords, MaxCdromStep} \subseteq Nat \ {0}

VARIABLE cd
cdVars == <<cd>>

NoCmd == "none"
TwoPhase == {"MotorOn", "Stop", "Pause", "Init", "SeekL", "GetID", "ReadTOC"}

\* irq_flag is a response code whose bits the guest clears; it is the set of its bits.
NoInt == {}
INT1 == {1}        \* CDIRQ_DATA_READY
INT2 == {2}        \* CDIRQ_COMPLETE
INT3 == {1, 2}     \* CDIRQ_ACK
INT5 == {1, 4}     \* CDIRQ_ERROR
Code(f) == (IF 1 \in f THEN 1 ELSE 0) + (IF 2 \in f THEN 2 ELSE 0) + (IF 4 \in f THEN 4 ELSE 0)

Flags == SUBSET {1, 2, 4}
Enables == SUBSET (1..5)
DriveStat == SUBSET {"MOTOR", "READ", "SEEK", "PLAY"}
Queued == Cmds \cup {NoCmd}
Pending == TwoPhase \cup {NoCmd}
ReadPos == 0..SectorWords
Sectors == 0..1

\* i_stat is bit 2 of I_STAT; presented counts the raises of the current response.
CdromController ==
  [irq_flag : Flags, irq_enable : Enables, latched : BOOLEAN,
   present_delay : Nat, presented : Nat, i_stat : BOOLEAN,
   queued : Queued, pending : Pending, pending_delay : Int,
   reading : BOOLEAN, read_delay : Int, bfrd : BOOLEAN, available : BOOLEAN,
   read_pos : ReadPos, sector : Sectors, stat : DriveStat]

cdrom_init ==
  [irq_flag |-> NoInt, irq_enable |-> 1..5, latched |-> FALSE, present_delay |-> 0,
   presented |-> 0, i_stat |-> FALSE, queued |-> NoCmd, pending |-> NoCmd, pending_delay |-> 0,
   reading |-> FALSE, read_delay |-> 0, bfrd |-> FALSE, available |-> FALSE, read_pos |-> 0,
   sector |-> 0, stat |-> IF HasDisc THEN {"MOTOR"} ELSE {}]

CdromInit == cd = cdrom_init

set_irq_now(c, int) ==
  [c EXCEPT !.irq_flag = int, !.latched = FALSE, !.present_delay = 0, !.presented = 0]

set_irq(c, int) ==
  [c EXCEPT !.irq_flag = int, !.latched = FALSE, !.present_delay = PRESENT_DELAY,
            !.presented = 0]

Visible(c) == c.irq_flag # NoInt /\ Code(c.irq_flag) \in c.irq_enable

present_cdrom_irq_unlatched(c) ==
  IF c.present_delay = 0 /\ Visible(c)
  THEN [c EXCEPT !.i_stat = TRUE, !.latched = TRUE, !.presented = @ + 1]
  ELSE c

present_cdrom_irq(c) ==
  IF c.present_delay = 0 /\ Visible(c) /\ ~c.latched
  THEN [c EXCEPT !.i_stat = TRUE, !.latched = TRUE, !.presented = @ + 1]
  ELSE c

Respond(c, int) == present_cdrom_irq(set_irq(c, int))

clear_sector_buffer(c) == [c EXCEPT !.read_pos = 0, !.available = FALSE, !.bfrd = FALSE]

start_read_stream(c) ==
  [clear_sector_buffer(c) EXCEPT !.read_delay = ReadDelay, !.reading = TRUE,
                                 !.stat = @ \cup {"READ"}]

stop_read_stream(c) == [c EXCEPT !.reading = FALSE, !.read_delay = 0]

-----------------------------------------------------------------------------
\* The state change a command makes before its first response.
Effect(c, cmd) ==
  CASE cmd = "GetStat" /\ HasDisc -> [c EXCEPT !.stat = @ \cup {"MOTOR"}]
    [] cmd = "ReadN"  -> start_read_stream(c)
    [] cmd = "Stop"   -> [stop_read_stream(c) EXCEPT !.stat = @ \ {"READ", "PLAY", "SEEK"}]
    [] cmd = "Pause"  -> [stop_read_stream(c) EXCEPT !.stat = @ \ {"READ"}]
    [] cmd = "Init"   -> [stop_read_stream(c) EXCEPT !.stat = IF HasDisc THEN {"MOTOR"} ELSE {}]
    [] cmd = "Play"   -> [c EXCEPT !.stat = (@ \ {"SEEK", "READ"}) \cup {"MOTOR", "PLAY"}]
    [] cmd = "SeekL"  -> [c EXCEPT !.stat = @ \cup {"SEEK"}]
    [] OTHER          -> c

Rejected(c, cmd) ==
  \/ cmd \in {"ReadN", "Play", "SeekL"} /\ ~HasDisc
  \/ cmd = "MotorOn" /\ "MOTOR" \in c.stat
  \/ cmd = "Unknown"

exec_command(c, cmd) ==
  LET e == Effect(c, cmd)
      p == IF cmd \in TwoPhase THEN [e EXCEPT !.pending = cmd, !.pending_delay = PendDelay] ELSE e
  IN IF Rejected(c, cmd) THEN Respond(c, INT5) ELSE Respond(p, INT3)

try_execute_queued_command(c) ==
  IF c.queued = NoCmd \/ c.irq_flag # NoInt THEN c
  ELSE exec_command([c EXCEPT !.queued = NoCmd], c.queued)

queue_or_exec_command(c, cmd) ==
  IF c.irq_flag = NoInt THEN exec_command(c, cmd) ELSE [c EXCEPT !.queued = cmd]

Completed(c, cmd) ==
  CASE cmd = "MotorOn" -> [c EXCEPT !.stat = @ \cup {"MOTOR"}]
    [] cmd = "Stop"    -> [c EXCEPT !.stat = {}]
    [] cmd = "Pause"   -> [c EXCEPT !.stat = @ \ {"READ"}]
    [] cmd = "SeekL"   -> [c EXCEPT !.stat = @ \ {"SEEK"}]
    [] OTHER           -> c

process_pending_dropped(c, cycles) ==
  LET left == c.pending_delay - cycles
      due == [c EXCEPT !.pending = NoCmd, !.pending_delay = 0]
  IN IF c.pending = NoCmd THEN c
     ELSE IF left > 0 THEN [c EXCEPT !.pending_delay = left]
     ELSE IF c.irq_flag # NoInt THEN due
     ELSE Respond(Completed(due, c.pending), INT2)

process_pending(c, cycles) ==
  LET left == c.pending_delay - cycles
      due == [c EXCEPT !.pending = NoCmd, !.pending_delay = 0]
      int == IF c.pending = "GetID" /\ ~HasDisc THEN INT5 ELSE INT2
  IN IF c.pending = NoCmd \/ c.irq_flag # NoInt THEN c
     ELSE IF left > 0 THEN [c EXCEPT !.pending_delay = left]
     ELSE Respond(Completed(due, c.pending), int)

\* The next sector replaces the buffer; an audio sector (~data) leaves it empty.
read_sector_at(c, data) ==
  [c EXCEPT !.sector = 1 - @, !.read_pos = 0, !.available = data]

deliver_read_sector(c, data) ==
  LET r == read_sector_at(c, data) IN IF data THEN Respond(r, INT1) ELSE r

\* dma: dma_cdrom_transfer_active(), a CD transfer is draining the buffer.
process_read_stream_clobber(c, cycles, data, dma) ==
  LET left == c.read_delay - cycles
      next == IF left + ReadDelay <= 0 THEN ReadDelay ELSE left + ReadDelay
      got  == IF c.irq_flag = NoInt THEN deliver_read_sector(c, data) ELSE read_sector_at(c, data)
  IN IF \/ ~c.reading
        \/ c.irq_flag # NoInt /\ ~dma
     THEN c
     ELSE IF left > 0 THEN [c EXCEPT !.read_delay = left]
     ELSE [got EXCEPT !.read_delay = next]

process_read_stream(c, cycles, data, dma) ==
  LET left == c.read_delay - cycles
      next == IF left + ReadDelay <= 0 THEN ReadDelay ELSE left + ReadDelay
      got  == IF c.irq_flag = NoInt THEN deliver_read_sector(c, data) ELSE read_sector_at(c, data)
  IN IF \/ ~c.reading
        \/ c.irq_flag # NoInt /\ ~dma
        \/ c.available /\ c.irq_flag # NoInt
     THEN c
     ELSE IF left > 0 THEN [c EXCEPT !.read_delay = left]
     ELSE [got EXCEPT !.read_delay = next]

Aged(c, cycles) ==
  [c EXCEPT !.present_delay = IF cycles > c.present_delay THEN 0 ELSE c.present_delay - cycles]

cdrom_advance(c, cycles, data, dma) ==
  LET c1 == present_cdrom_irq(Aged(c, cycles))
      c2 == process_pending(try_execute_queued_command(c1), cycles)
  IN present_cdrom_irq(process_read_stream(c2, cycles, data, dma))

CdromNoEvent == PRESENT_DELAY + PendDelay + ReadDelay

cdrom_cycles_to_irq(c) ==
  LET due == (IF Visible(c) THEN {c.present_delay} ELSE {})
             \cup (IF c.pending # NoCmd THEN {c.pending_delay} ELSE {})
             \cup (IF c.reading THEN {c.read_delay} ELSE {})
  IN CHOOSE k \in due \cup {CdromNoEvent} : \A j \in due \cup {CdromNoEvent} : k <= j

data_fifo_ready(c) == c.bfrd /\ c.available /\ c.read_pos < SectorWords

cdrom_dma_read(c) ==
  IF data_fifo_ready(c)
  THEN [c EXCEPT !.read_pos = @ + 1, !.available = c.read_pos + 1 < SectorWords]
  ELSE c

-----------------------------------------------------------------------------
AdvanceCdrom(cycles, data, dma) == cd' = cdrom_advance(cd, cycles, data, dma)

WriteCommand(cmd) == cd' = queue_or_exec_command(cd, cmd)

\* The guest clears bits of the response code; a queued command starts when none is left.
AckController(bits) ==
  LET f == cd.irq_flag \ bits
      a == [cd EXCEPT !.irq_flag = f,
                      !.latched = IF cd.irq_flag # NoInt /\ f = NoInt THEN FALSE ELSE @]
  IN cd' = try_execute_queued_command(a)

WriteEnable(e) == cd' = [cd EXCEPT !.irq_enable = e]

WriteRequest(bfrd) ==
  cd' = [cd EXCEPT !.bfrd = bfrd, !.read_pos = IF bfrd THEN @ ELSE 0]

\* A word read by the CPU's data port or by the DMA.
ReadWord == data_fifo_ready(cd) /\ cd' = cdrom_dma_read(cd)

\* The guest acknowledges the CD-ROM in I_STAT.
CdromIntcAck == cd.i_stat /\ cd' = [cd EXCEPT !.i_stat = FALSE]

CdromNext ==
  \/ \E n \in 1..MaxCdromStep, data, dma \in BOOLEAN : AdvanceCdrom(n, data, dma)
  \/ \E cmd \in Cmds : WriteCommand(cmd)
  \/ \E bits \in {{1}, {2}, {1, 2, 4}} : AckController(bits)
  \/ \E e \in {{}, 1..5} : WriteEnable(e)
  \/ \E b \in BOOLEAN : WriteRequest(b)
  \/ ReadWord
  \/ CdromIntcAck

CdromSpec == CdromInit /\ [][CdromNext]_cdVars

-----------------------------------------------------------------------------
\* The controller is well formed.
CdromTypeOK == cd \in CdromController

\* cdrom.c's latch comment: each response reaches the interrupt controller at most once,
\* whatever the guest enables, clears in I_STAT or leaves unacknowledged meanwhile.
PresentedOnce == cd.presented <= 1

\* A countdown held back by an unacknowledged response is frozen: no scheduled sector or
\* second response is ever overdue, so none is delivered in a burst after the ack.
NoTimeDebt ==
  /\ cd.reading => cd.read_delay \in 1..ReadDelay
  /\ cd.pending # NoCmd => cd.pending_delay \in 1..PendDelay

\* A queued command waits behind a response the guest has yet to acknowledge, so the
\* acknowledgement that lets it start is still to come.
QueuedWaits == cd.queued # NoCmd => cd.irq_flag # NoInt

\* While a response is unacknowledged, time passing replaces neither it nor the sector the
\* guest has not finished reading, whether or not a DMA is draining the buffer.
HeldUntilAck ==
  cd.irq_flag # NoInt =>
    \A n \in 1..MaxCdromStep, data, dma \in BOOLEAN :
      LET c == cdrom_advance(cd, n, data, dma)
      IN /\ c.irq_flag = cd.irq_flag
         /\ cd.available => c.sector = cd.sector /\ c.read_pos = cd.read_pos

\* cdrom_cycles_to_irq is never too long: fewer cycles than it returns raise nothing.
CdromNeverLate ==
  \A n \in 1..MaxCdromStep, data, dma \in BOOLEAN :
    n < cdrom_cycles_to_irq(cd) /\ ~cd.i_stat => ~cdrom_advance(cd, n, data, dma).i_stat

=============================================================================
