------------------------------- MODULE SioPace -------------------------------
(***************************************************************************)
(* The cycle-paced serial port (sio.c, SIO_MODEL_CYCLE_PACED): one shift   *)
(* register, a one-byte transmit buffer and one pending acknowledge shared *)
(* by the pad and the memory card.  The operators are the functions of the *)
(* file on the port's state.  What the addressed device does with a byte   *)
(* (sio_process_byte) is a choice made when the byte is written: whether   *)
(* it acknowledges, and which device is active afterwards.                 *)
(***************************************************************************)
EXTENDS Naturals

CONSTANTS
  BAUD,     \* SIO_BAUD_CYCLES_DEFAULT: cycles to shift a byte
  ACK,      \* SIO_ACK_CYCLES_DEFAULT: cycles from a byte to its acknowledge
  MaxSioStep,  \* largest advance
  CtrlValues \* the values the guest writes to SIO_CTRL

ASSUME SioAssumption ==
  BAUD \in Nat \ {0} /\ ACK \in Nat \ {0} /\ ACK < BAUD /\ MaxSioStep \in Nat
  /\ CtrlValues \subseteq SUBSET {"TX_EN", "SELECT", "ACK_IRQ_EN"}

VARIABLE sio
sioVars == <<sio>>

Devices == {"none", "pad", "card"}

\* ack: the device acknowledges the byte; to: the device active once it is processed.
Bytes == [ack : BOOLEAN, to : Devices]
NoByte == [ack |-> FALSE, to |-> "none"]

Ctrl == SUBSET {"TX_EN", "SELECT", "ACK_IRQ_EN"}

\* The STAT bits a later step depends on.
Stat == SUBSET {"TX_RDY", "TX_EMPTY", "ACK"}
Ready == {"TX_RDY", "TX_EMPTY"}

Port ==
  [ctrl : Ctrl, stat : Stat, ack_visible_reads : 0..2, active_device : Devices,
   pad_owner : BOOLEAN, first : BOOLEAN,
   shift_active : BOOLEAN, shift_byte : Bytes, shift_remaining : Nat, shift_ack_irq_en : BOOLEAN,
   tx_buffered : BOOLEAN, tx_buffer : Bytes, tx_buffer_ack_irq_en : BOOLEAN,
   pending_ack : BOOLEAN, ack_remaining : Nat, pending_ack_irq_en : BOOLEAN,
   timing_active : BOOLEAN, i_stat : BOOLEAN]

\* first: sio_bus_byte_index is 0; pad_owner: sio_bus_owner is SIO_OWNER_PAD.
sio_init ==
  [ctrl |-> {}, stat |-> Ready, ack_visible_reads |-> 0, active_device |-> "none",
   pad_owner |-> FALSE, first |-> TRUE,
   shift_active |-> FALSE, shift_byte |-> NoByte, shift_remaining |-> 0,
   shift_ack_irq_en |-> FALSE,
   tx_buffered |-> FALSE, tx_buffer |-> NoByte, tx_buffer_ack_irq_en |-> FALSE,
   pending_ack |-> FALSE, ack_remaining |-> 0, pending_ack_irq_en |-> FALSE,
   timing_active |-> FALSE, i_stat |-> FALSE]

SioInit == sio = sio_init

Busy(s) == s.shift_active \/ s.tx_buffered \/ s.pending_ack

\* The block that abandons whatever the shifter, the buffer and the acknowledge hold.
Killed(s) ==
  [s EXCEPT !.shift_active = FALSE, !.shift_byte = NoByte, !.shift_remaining = 0,
            !.shift_ack_irq_en = FALSE,
            !.tx_buffered = FALSE, !.tx_buffer = NoByte, !.tx_buffer_ack_irq_en = FALSE,
            !.pending_ack = FALSE, !.ack_remaining = 0, !.pending_ack_irq_en = FALSE,
            !.timing_active = FALSE]

\* The device's half of a byte: it may acknowledge, and may become active.
sio_process_byte(s, b) ==
  [s EXCEPT !.active_device = b.to,
            !.stat = @ \cup Ready \cup (IF b.ack THEN {"ACK"} ELSE {})]

sio_fire_ack_irq(s) ==
  LET enabled == s.pending_ack_irq_en \/ "ACK_IRQ_EN" \in s.ctrl
  IN [s EXCEPT !.stat = @ \cup {"ACK"},
               !.ack_visible_reads = 2, !.pending_ack_irq_en = FALSE,
               !.i_stat = @ \/ enabled,
               !.timing_active = IF enabled /\ ~Busy(s) THEN FALSE ELSE @]

Complete_late(s) ==
  LET p == sio_process_byte(s, s.shift_byte)
      acked == "ACK" \in p.stat
  IN [p EXCEPT !.stat = @ \ {"ACK"},
               !.shift_active = FALSE, !.shift_byte = NoByte,
               !.pending_ack = @ \/ acked,
               !.ack_remaining = IF acked THEN BAUD + ACK ELSE @,
               !.pending_ack_irq_en = IF acked THEN s.shift_ack_irq_en ELSE @]

\* sio_consume_ack_event reads STAT.ACK, so an acknowledge the guest has not yet
\* cleared counts as the device's answer to this byte.
Complete(s) ==
  LET p == sio_process_byte(s, s.shift_byte)
      acked == "ACK" \in p.stat
  IN [p EXCEPT !.stat = @ \ {"ACK"},
               !.shift_active = FALSE, !.shift_byte = NoByte,
               !.pending_ack = @ \/ acked,
               !.ack_remaining = IF acked THEN ACK ELSE @,
               !.pending_ack_irq_en = IF acked THEN s.shift_ack_irq_en ELSE @]

Promote(s) ==
  [s EXCEPT !.shift_active = TRUE, !.shift_byte = s.tx_buffer, !.shift_remaining = BAUD,
            !.shift_ack_irq_en = s.tx_buffer_ack_irq_en,
            !.tx_buffered = FALSE, !.tx_buffer = NoByte, !.tx_buffer_ack_irq_en = FALSE,
            !.first = FALSE, !.stat = @ \cup {"TX_EMPTY"}]

sio_handle_shift_complete(s) ==
  LET q == IF s.tx_buffered THEN Promote(Complete(s))
           ELSE [Complete(s) EXCEPT !.stat = @ \cup Ready]
  IN IF Busy(q) THEN q ELSE [q EXCEPT !.timing_active = FALSE]

-----------------------------------------------------------------------------
\* The loop of sio_advance: l.port after some transitions, l.left cycles to go.
ShiftDue(s, dt) == s.shift_active /\ s.shift_remaining <= dt
AckDue(s, dt) == s.pending_ack /\ s.ack_remaining <= dt

Elapsed(s, dt) ==
  [s EXCEPT !.shift_remaining = IF s.shift_active THEN @ - dt ELSE @,
            !.ack_remaining = IF s.pending_ack THEN @ - dt ELSE @]

\* An event exactly at the end of the charge is not due yet: the comparison is strict.
Iterate(l) ==
  LET s == l.port
      events == {k \in 0..(l.left - 1) : ShiftDue(s, k) \/ AckDue(s, k)}
      dt == CHOOSE k \in events : \A j \in events : k <= j
      e == Elapsed(s, dt)
  IN IF l.left = 0 THEN l
     ELSE IF events = {} THEN [port |-> Elapsed(s, l.left), left |-> 0]
     ELSE [port |-> IF ShiftDue(s, dt) THEN sio_handle_shift_complete(e)
                    ELSE sio_fire_ack_irq([e EXCEPT !.pending_ack = FALSE]),
           left |-> l.left - dt]

MAX_TRANSITIONS == 8

\* What is left after MAX_TRANSITIONS transitions is dropped.
sio_advance(s, cycles) ==
  LET loop[k \in 0..MAX_TRANSITIONS] ==
        IF k = 0 THEN [port |-> s, left |-> cycles] ELSE Iterate(loop[k - 1])
  IN IF s.timing_active THEN loop[MAX_TRANSITIONS].port ELSE s

SioNoEvent == BAUD + BAUD

\* Cycles to the nearest countdown that has not reached zero; SioNoEvent if there is none.
sio_cycles_to_irq(s) ==
  LET due == (IF s.pending_ack THEN {s.ack_remaining} ELSE {})
             \cup (IF s.shift_active THEN {s.shift_remaining} ELSE {})
      ahead == IF s.timing_active THEN due \ {0} ELSE {}
  IN IF ahead = {} THEN SioNoEvent ELSE CHOOSE k \in ahead : \A j \in ahead : k <= j

-----------------------------------------------------------------------------
AdvanceSio(n) == sio' = sio_advance(sio, n)

\* select: the byte is 0x01, which addresses the pad.
PadFastPath(s, select) == s.active_device # "card" /\ (s.active_device = "pad" \/ s.pad_owner \/ select)

PadByte(s, b) ==
  LET p == sio_process_byte([Killed(s) EXCEPT !.pad_owner = TRUE, !.first = FALSE], b)
  IN IF {"ACK", "ACK_IRQ_EN"} \subseteq p.stat \cup p.ctrl
     THEN [p EXCEPT !.stat = @ \ (Ready \cup {"ACK"}),
                    !.pending_ack = TRUE, !.ack_remaining = BAUD + ACK,
                    !.pending_ack_irq_en = TRUE, !.timing_active = TRUE]
     ELSE [p EXCEPT !.stat = @ \cup Ready]

ShiftStart(s, b) ==
  [s EXCEPT !.shift_active = TRUE, !.shift_byte = b, !.shift_remaining = BAUD,
            !.shift_ack_irq_en = "ACK_IRQ_EN" \in s.ctrl,
            !.stat = @ \ Ready, !.timing_active = TRUE]

BufferLoad(s, b) ==
  [s EXCEPT !.tx_buffer = b, !.tx_buffered = TRUE,
            !.tx_buffer_ack_irq_en = "ACK_IRQ_EN" \in s.ctrl, !.stat = @ \ {"TX_EMPTY"}]

ShiftByte(s, select, b) ==
  LET o == [s EXCEPT !.pad_owner = IF s.first THEN select ELSE @, !.first = FALSE]
  IN IF ~s.shift_active THEN ShiftStart(o, b)
     ELSE IF ~s.tx_buffered THEN BufferLoad(o, b)
     ELSE o

\* Which answers a byte can get: only an active device acknowledges; the fast path always
\* ends with the pad active, the shifter reaches the pad only with 0x01 after a card.
Plausible(s, select, b) ==
  /\ b.ack => b.to # "none"
  /\ IF PadFastPath(s, select) THEN b.to = "pad"
     ELSE b.to = "pad" => select /\ s.active_device = "card"

WriteTxData(select, b) ==
  /\ "TX_EN" \in sio.ctrl
  /\ Plausible(sio, select, b)
  /\ sio' = IF PadFastPath(sio, select) THEN PadByte(sio, b) ELSE ShiftByte(sio, select, b)

\* SIO_CTRL: acknowledge, reset, select edge, TX_EN drop and deselect, in this order.
CtrlAck(s) == [s EXCEPT !.stat = @ \ {"ACK"}, !.ack_visible_reads = 0]

CtrlReset(s) == [sio_init EXCEPT !.i_stat = s.i_stat]

SelectAssert(s) == [s EXCEPT !.pad_owner = FALSE, !.first = TRUE]

TxEnDrop(s, c) ==
  LET k == [Killed(s) EXCEPT !.stat = @ \cup Ready]
  IN IF ~Busy(s) THEN s ELSE IF "SELECT" \in c THEN k ELSE SelectAssert(k)

SelectDeassert_keepstat(s) ==
  [Killed(s) EXCEPT !.active_device = "none", !.pad_owner = FALSE, !.first = TRUE]

SelectDeassert(s) ==
  [Killed(s) EXCEPT !.active_device = "none", !.pad_owner = FALSE, !.first = TRUE,
                    !.stat = @ \cup Ready]

WriteCtrl(c, ack, reset) ==
  LET old == sio.ctrl
      s1 == [sio EXCEPT !.ctrl = c]
      s2 == IF ack THEN CtrlAck(s1) ELSE s1
      s3 == IF reset THEN CtrlReset(s2) ELSE s2
      s4 == IF "SELECT" \in c \ old THEN SelectAssert(s3) ELSE s3
      s5 == IF "TX_EN" \in old \ c THEN TxEnDrop(s4, c) ELSE s4
  IN sio' = IF "SELECT" \in old \ c THEN SelectDeassert(s5) ELSE s5

\* STAT.ACK stays visible for two reads.
ReadStat ==
  LET last == sio.ack_visible_reads = 1
  IN sio' = [sio EXCEPT !.ack_visible_reads = IF @ > 0 THEN @ - 1 ELSE 0,
                        !.stat = IF last THEN @ \ {"ACK"} ELSE @]

\* The guest acknowledges SIO in I_STAT.
SioIntcAck == sio.i_stat /\ sio' = [sio EXCEPT !.i_stat = FALSE]

SioNext ==
  \/ \E n \in 1..MaxSioStep : AdvanceSio(n)
  \/ \E select \in BOOLEAN, b \in Bytes : WriteTxData(select, b)
  \/ \E c \in CtrlValues, ack, reset \in BOOLEAN : WriteCtrl(c, ack, reset)
  \/ ReadStat
  \/ SioIntcAck

SioSpec == SioInit /\ [][SioNext]_sioVars

-----------------------------------------------------------------------------

\* The one acknowledge slot is free when the next byte completes: an acknowledge always
\* fires before the byte behind it is through the shifter, so none is overwritten.
AckBeforeNextByte ==
  sio.shift_active /\ sio.pending_ack => sio.ack_remaining < sio.shift_remaining

\* On the shifter's path an idle port reads ready, so a guest that waits for TX_RDY
\* before it writes the next byte goes on, whichever way the last byte ended.
IdleCardIsReady == ~Busy(sio) /\ sio.active_device # "pad" => "TX_RDY" \in sio.stat

\* Charging cycles in two parts leaves the port exactly as charging them at once does:
\* no transition is lost to MAX_TRANSITIONS and an event at the seam fires once.
SplitAdvance ==
  \A a, b \in 1..MaxSioStep :
    a + b <= MaxSioStep => sio_advance(sio_advance(sio, a), b) = sio_advance(sio, a + b)
=============================================================================
