----------------------------- MODULE MemCard -----------------------------
(***************************************************************************)
(* The memory cards: sio.c's card protocol (one byte in, one byte out, per *)
(* slot) and memcard.c's card images and the files they live in.           *)
(*                                                                         *)
(* A byte of the model is BYTE wide (256 in the code); a sector holds LEN  *)
(* bytes (128); the checksum is the exclusive or of address and data,      *)
(* which for bytes in {0, 1} is the parity of their sum.  When a byte is   *)
(* shifted and when its acknowledge arrives is SioPace's subject; here a   *)
(* byte is processed whole.  The pad's side of the bus only shows as the   *)
(* active device.                                                          *)
(***************************************************************************)
EXTENDS Integers, Sequences, Functions

CONSTANTS
  Enabled,      \* slots with a card configured, the same in every run of the program
  SECTORS,      \* MEMCARD_SECTORS
  LEN,          \* MEMCARD_SECTOR_SIZE
  Blank,        \* the image memcard_format writes
  Absent,       \* no file
  Short,        \* a file of fewer than MEMCARD_SIZE bytes
  Outcomes,     \* what writing a card file may find, of "ok", "no_open", "short", "close_error"
  Disciplined   \* the guest changes SLOT only while deselected, sends bytes only while selected

BYTE == 2
Ports == 0..1
Bits == 0..1
Data == [1..LEN -> Bits]
Images == [0..(SECTORS - 1) -> Data]
NoData == [i \in 1..LEN |-> 0]

ASSUME CardAssumption ==
  /\ Enabled \subseteq Ports /\ SECTORS \in Nat \ {0} /\ LEN \in Nat \ {0}
  /\ Blank \in Images /\ Absent \notin Images /\ Short \notin Images /\ Absent # Short
  /\ Disciplined \in BOOLEAN
  /\ "ok" \in Outcomes /\ Outcomes \subseteq {"ok", "no_open", "short", "close_error"}

VARIABLES
  card,    \* cards[]: image, present, dirty (the image is Blank where none is present)
  file,    \* the .mcd files
  run,     \* the process: "down", "up", or "exit" (between shutdown_runtime and atexit)
  bus,     \* sio.c: active_device, selected_slot, mc_slot, SELECT and SLOT of sio_ctrl
  mc,      \* the working mc_ variables
  mc_slots, \* what a slot keeps of them
  rx,      \* sio_rx_data
  sent,    \* history: the bytes of the open card transaction
  acked,   \* history, per slot: the image as the last 'G', or the user's new card, left it
  lossy    \* history: slots whose last flush, or whose file's creation, failed or was cut short

cardVars == <<card, file, run, bus, mc, mc_slots, rx, sent, acked, lossy>>

NewCard == 8                     \* FLAG of a card that was just inserted
Good == 71
CardSelect == 129
PadSelect == 1
READ == 82
WRITE == 87
GETID == 83

\* States that answer whatever is sent: the answer and the state after it.
Chain ==
  [ID1 |-> <<90, "ID2">>,
   GETID_1 |-> <<4, "GETID_2">>, GETID_2 |-> <<0, "GETID_3">>,
   GETID_3 |-> <<0, "GETID_4">>, GETID_4 |-> <<128, "IDLE">>,
   READ_ACK1 |-> <<92, "READ_ACK2">>, READ_ACK2 |-> <<93, "READ_MSB_ECHO">>,
   WRITE_ACK1 |-> <<92, "WRITE_ACK2">>, WRITE_ACK2 |-> <<93, "WRITE_END">>]

Bus == [active : {"none", "pad", "card"}, selected : Ports, slot : Ports,
        SELECT : BOOLEAN, SLOT : Ports]

sector(m) == m.msb * BYTE + m.lsb
Checksum(m) == (m.msb + m.lsb + SumFunction(m.data)) % BYTE

---------------------------------------------------------------------------
\* memcard.c

\* A card file written afresh (fopen "wb", fwrite, fflush, fclose), f being there before: it
\* works, the file does not open, the write falls short, or all bytes are written and closing
\* the file reports an error.
WrittenFile(image, f, out) ==
  CASE out = "no_open" -> f
    [] out = "short" -> Short
    [] out \in {"ok", "close_error"} -> image

\* memcard_init_slots for one slot; the creation of a missing file may fail.
memcard_init_absent(s, out) ==
  [image |-> IF file[s] \in Images THEN file[s] ELSE Blank,
   present |-> s \in Enabled /\ file[s] = Absent /\ out = "ok", dirty |-> FALSE]

memcard_init_slot(s, out) ==
  [image |-> IF file[s] \in Images THEN file[s] ELSE Blank,
   present |-> s \in Enabled /\ (file[s] \in Images \/ (file[s] = Absent /\ out = "ok")),
   dirty |-> FALSE]

Creates(s) == s \in Enabled /\ file[s] = Absent

memcard_create(s, out) == IF Creates(s) THEN WrittenFile(Blank, file[s], out) ELSE file[s]

\* memcard_flush
FlushedFile(c, f, out) == IF c.dirty THEN WrittenFile(c.image, f, out) ELSE f

FlushedCard_eager(c, out) == [c EXCEPT !.dirty = FALSE]

FlushedCard(c, out) == IF out = "ok" THEN [c EXCEPT !.dirty = FALSE] ELSE c

memcard_write_sector(c, sec, data) ==
  IF c.present THEN [c EXCEPT !.image[sec] = data, !.dirty = TRUE] ELSE c

---------------------------------------------------------------------------
\* mc_process_byte: the answer and the next state.  WRITE_CHK's store is in Byte.

Answer(byte, m) == [rx |-> byte, mc |-> m]
Go(m, st) == [m EXCEPT !.state = st]

\* MC_IDLE to MC_ADDR_LSB
Header(m, s, tx) ==
  CASE m.state = "IDLE" -> Answer(255, IF card[s].present THEN Go(m, "CMD") ELSE m)
    [] m.state = "CMD" /\ tx \in {READ, WRITE, GETID} ->
         Answer(m.flag, [Go(m, "ID1") EXCEPT !.cmd = tx, !.flag = 0])
    [] m.state = "CMD" /\ tx \notin {READ, WRITE, GETID} ->
         Answer(255, [Go(m, "IDLE") EXCEPT !.cmd = tx])
    [] m.state = "ID2" -> Answer(93, Go(m, IF m.cmd = GETID THEN "GETID_1" ELSE "ADDR_MSB"))
    [] m.state = "ADDR_MSB" -> Answer(0, [Go(m, "ADDR_LSB") EXCEPT !.msb = tx])
    [] m.state = "ADDR_LSB" /\ m.cmd = READ ->
         LET a == [m EXCEPT !.lsb = tx]
             d == [a EXCEPT !.data = IF sector(a) < SECTORS THEN card[s].image[sector(a)]
                                     ELSE [i \in 1..LEN |-> BYTE - 1]]
         IN Answer(0, [Go(d, "READ_ACK1") EXCEPT !.idx = 0, !.chk = Checksum(d)])
    [] m.state = "ADDR_LSB" /\ m.cmd # READ ->
         Answer(0, [Go(m, "WRITE_DATA") EXCEPT !.lsb = tx, !.idx = 0])

\* MC_READ_MSB_ECHO to MC_READ_END
ReadPhase(m) ==
  CASE m.state = "READ_MSB_ECHO" -> Answer(m.msb, Go(m, "READ_LSB_ECHO"))
    [] m.state = "READ_LSB_ECHO" -> Answer(m.lsb, [Go(m, "READ_DATA") EXCEPT !.idx = 0])
    [] m.state = "READ_DATA" ->
         Answer(m.data[m.idx + 1],
                [Go(m, IF m.idx + 1 >= LEN THEN "READ_CHK" ELSE "READ_DATA") EXCEPT !.idx = @ + 1])
    [] m.state = "READ_CHK" -> Answer(m.chk, Go(m, "READ_END"))
    [] m.state = "READ_END" -> Answer(IF sector(m) < SECTORS THEN Good ELSE 255, Go(m, "IDLE"))

Accepts_unchecked(m, tx) == sector(m) < SECTORS

\* The test of MC_WRITE_CHK.
Accepts(m, tx) == tx = Checksum(m) /\ sector(m) < SECTORS

\* MC_WRITE_DATA to MC_WRITE_END
WritePhase(m, tx) ==
  CASE m.state = "WRITE_DATA" ->
         Answer(0, [Go(m, IF m.idx + 1 >= LEN THEN "WRITE_CHK" ELSE "WRITE_DATA")
                      EXCEPT !.data[m.idx + 1] = tx, !.idx = @ + 1])
    [] m.state = "WRITE_CHK" ->
         Answer(0, [Go(m, "WRITE_ACK1") EXCEPT
                      !.chk = IF Accepts(m, tx) THEN Good
                              ELSE IF sector(m) >= SECTORS THEN 255 ELSE 78])
    [] m.state = "WRITE_END" -> Answer(m.chk, [Go(m, "IDLE") EXCEPT !.flag = 0])

mc_process_byte(m, s, tx) ==
  CASE m.state \in DOMAIN Chain -> Answer(Chain[m.state][1], Go(m, Chain[m.state][2]))
    [] m.state \in {"READ_MSB_ECHO", "READ_LSB_ECHO", "READ_DATA", "READ_CHK", "READ_END"} -> ReadPhase(m)
    [] m.state \in {"WRITE_DATA", "WRITE_CHK", "WRITE_END"} -> WritePhase(m, tx)
    [] OTHER -> Header(m, s, tx)

---------------------------------------------------------------------------
\* sio_process_byte

\* Which bytes matter: address, data and checksum bytes are values, a state that ignores
\* what is sent gets 0.
TxBytes(m) ==
  CASE m.state \in {"ADDR_MSB", "ADDR_LSB", "WRITE_DATA", "WRITE_CHK"} -> Bits
    [] m.state = "IDLE" -> {0, PadSelect, CardSelect}
    [] m.state = "CMD" -> {READ, WRITE, GETID, PadSelect}
    [] OTHER -> {0}

\* The store and the flush MC_WRITE_CHK makes on the way.
Stores(b, m, tx) == b.active = "card" /\ m.state = "WRITE_CHK" /\ Accepts(m, tx)

\* A byte for the card: mc_process_byte on the working variables m, the bus being b.
ToCard(b, m, tx, out) ==
  LET s == b.slot
      a == mc_process_byte(m, s, tx)
      stored == memcard_write_sector(card[s], sector(m), m.data)
  IN /\ bus' = [b EXCEPT !.active = "card"]
     /\ mc' = a.mc /\ rx' = a.rx
     /\ IF Stores([b EXCEPT !.active = "card"], m, tx)
        THEN /\ card' = [card EXCEPT ![s] = FlushedCard(stored, out)]
             /\ file' = [file EXCEPT ![s] = FlushedFile(stored, @, out)]
             /\ lossy' = IF out = "ok" THEN lossy \ {s} ELSE lossy \cup {s}
             /\ acked' = [acked EXCEPT ![s] = stored.image]
        ELSE out = "ok" /\ UNCHANGED <<card, file, lossy, acked>>
     /\ sent' = IF a.mc.state = "IDLE" THEN <<>> ELSE Append(sent, tx)

ToPad(b) ==
  /\ bus' = [b EXCEPT !.active = "pad"] /\ rx' = 255
  /\ UNCHANGED <<card, file, lossy, acked>>

\* The byte reaches no device.
Stray(b) ==
  /\ bus' = [b EXCEPT !.active = "none"] /\ rx' = 255
  /\ UNCHANGED <<card, file, lossy, acked>>

CtrlSlot == [bus EXCEPT !.selected = bus.SLOT]

mc_save_slot == [mc_slots EXCEPT ![bus.slot] = mc]
mc_load_slot == mc_slots[bus.SLOT]

\* active_device == DEV_NONE
FreshByte(tx, out) ==
  /\ bus.active = "none"
  /\ \/ /\ tx = PadSelect
        /\ mc_slots' = IF mc.state # "IDLE" THEN mc_save_slot ELSE mc_slots
        /\ mc' = Go(mc, "IDLE") /\ out = "ok" /\ ToPad(CtrlSlot) /\ UNCHANGED sent
     \/ /\ tx = CardSelect
        /\ ToCard([CtrlSlot EXCEPT !.slot = bus.SLOT], Go(mc_load_slot, "IDLE"), tx, out)
        /\ UNCHANGED mc_slots
     \/ /\ tx \notin {PadSelect, CardSelect}
        /\ IF mc_load_slot.state # "IDLE" /\ bus.SLOT = bus.slot
           THEN ToCard(CtrlSlot, mc_load_slot, tx, out)
           ELSE mc' = Go(mc_load_slot, "IDLE") /\ out = "ok" /\ Stray(CtrlSlot) /\ UNCHANGED sent
        /\ UNCHANGED mc_slots

\* active_device == DEV_PAD
PadByte(out) ==
  /\ bus.active = "pad" /\ out = "ok"
  /\ ToPad(bus) /\ UNCHANGED <<mc, mc_slots, sent>>

\* active_device == DEV_MEMCARD
CardByte(tx, out) ==
  /\ bus.active = "card" /\ UNCHANGED mc_slots
  /\ \/ mc.state # "IDLE" /\ ToCard(bus, mc, tx, out)
     \/ mc.state = "IDLE" /\ tx = CardSelect /\ ToCard([bus EXCEPT !.slot = bus.selected], mc, tx, out)
     \/ mc.state = "IDLE" /\ tx = PadSelect /\ out = "ok" /\ ToPad(CtrlSlot) /\ UNCHANGED <<mc, sent>>
     \/ /\ mc.state = "IDLE" /\ tx \notin {CardSelect, PadSelect} /\ out = "ok"
        /\ Stray(CtrlSlot) /\ UNCHANGED <<mc, sent>>

Byte(tx, out) ==
  /\ run = "up" /\ (Disciplined => bus.SELECT)
  /\ FreshByte(tx, out) \/ PadByte(out) \/ CardByte(tx, out)
  /\ UNCHANGED run

\* A write of SIO_CTRL: the reset bit, which clears the register too, then the deselect edge
\* of the value written.
Reset(st) ==
  [st EXCEPT !.mc = Go(@, "IDLE"), !.mc_slots = [s \in Ports |-> Go(st.mc_slots[s], "IDLE")],
             !.bus = [@ EXCEPT !.active = "none"]]

Cleared(m) == [Go(m, "IDLE") EXCEPT !.cmd = 0, !.msb = 0, !.lsb = 0, !.idx = 0, !.chk = 0]

Deselect(st) ==
  LET kept == IF st.bus.active = "card" THEN [st.mc_slots EXCEPT ![st.bus.slot].flag = st.mc.flag]
              ELSE st.mc_slots
  IN [st EXCEPT !.mc = Go(@, "IDLE"), !.mc_slots = [s \in Ports |-> Cleared(kept[s])],
                !.bus = [@ EXCEPT !.active = "none"]]

WriteCtrl(sel, slot, reset) ==
  LET st1 == [mc |-> mc, mc_slots |-> mc_slots,
              bus |-> [bus EXCEPT !.SELECT = sel /\ ~reset, !.SLOT = IF reset THEN 0 ELSE slot]]
      st2 == IF reset THEN Reset(st1) ELSE st1
      st3 == IF bus.SELECT /\ ~sel THEN Deselect(st2) ELSE st2
  IN /\ run = "up" /\ (Disciplined => slot = bus.SLOT \/ ~sel \/ ~bus.SELECT)
     /\ mc' = st3.mc /\ mc_slots' = st3.mc_slots /\ bus' = st3.bus
     /\ sent' = IF st3.mc.state = "IDLE" THEN <<>> ELSE sent
     /\ UNCHANGED <<card, file, run, rx, acked, lossy>>

---------------------------------------------------------------------------
\* The process

FreshCard == [state |-> "IDLE", cmd |-> 0, msb |-> 0, lsb |-> 0, data |-> NoData,
              idx |-> 0, chk |-> 0, flag |-> NewCard]
NoCard == [image |-> Blank, present |-> FALSE, dirty |-> FALSE]

sio_init ==
  /\ bus' = [active |-> "none", selected |-> 0, slot |-> 0, SELECT |-> FALSE, SLOT |-> 0]
  /\ mc' = FreshCard /\ mc_slots' = [s \in Ports |-> FreshCard]
  /\ rx' = 255 /\ sent' = <<>>

CardInit ==
  /\ card = [s \in Ports |-> NoCard] /\ file = [s \in Ports |-> Absent] /\ run = "down"
  /\ bus = [active |-> "none", selected |-> 0, slot |-> 0, SELECT |-> FALSE, SLOT |-> 0]
  /\ mc = FreshCard /\ mc_slots = [s \in Ports |-> FreshCard]
  /\ rx = 255 /\ sent = <<>>
  /\ acked = [s \in Ports |-> Blank] /\ lossy = {}

\* main: sio_init and memcard_init_slots.
PowerOn(out) ==
  /\ run = "down" /\ run' = "up"
  /\ \A s \in Ports : ~Creates(s) => out[s] = "ok"
  /\ card' = [s \in Ports |-> memcard_init_slot(s, out[s])]
  /\ file' = [s \in Ports |-> memcard_create(s, out[s])]
  /\ lossy' = {s \in Enabled : IF Creates(s) THEN out[s] # "ok" ELSE s \in lossy}
  /\ sio_init /\ UNCHANGED acked

\* The launcher's new_mc, before the game starts: the user has the slot's file replaced by
\* an empty card.
memcard_format_file(s, out) ==
  /\ run = "down"
  /\ file' = [file EXCEPT ![s] = WrittenFile(Blank, @, out)]
  /\ acked' = IF out = "no_open" THEN acked ELSE [acked EXCEPT ![s] = Blank]
  /\ lossy' = CASE out = "no_open" -> lossy
                [] out = "ok" -> lossy \ {s}
                [] out \in {"short", "close_error"} -> lossy \cup {s}
  /\ UNCHANGED <<card, run, bus, mc, mc_slots, rx, sent>>

\* memcard_flush_all: in shutdown_runtime, and once more from atexit.  No guest code runs
\* then, and the port's state dies with the process.
FlushAll(out) ==
  /\ \A s \in Ports : ~card[s].dirty => out[s] = "ok"
  /\ card' = [s \in Ports |-> FlushedCard(card[s], out[s])]
  /\ file' = [s \in Ports |-> FlushedFile(card[s], file[s], out[s])]
  /\ lossy' = lossy \ {s \in Ports : card[s].dirty /\ out[s] = "ok"}

Shutdown(out) ==
  /\ run = "up" /\ run' = "exit" /\ FlushAll(out)
  /\ sio_init /\ UNCHANGED acked

AtExit(out) ==
  /\ run = "exit" /\ run' = "down" /\ FlushAll(out)
  /\ sio_init /\ UNCHANGED acked

\* The process dies.  Dying inside a flush is a flush that falls short, and then this.
Crash ==
  /\ run # "down" /\ run' = "down"
  /\ sio_init /\ card' = [s \in Ports |-> NoCard] /\ UNCHANGED <<file, acked, lossy>>

CardNext ==
  \/ \E tx \in TxBytes(mc), out \in Outcomes : Byte(tx, out)
  \/ \E sel, reset \in BOOLEAN, slot \in Ports : WriteCtrl(sel, slot, reset)
  \/ \E out \in [Ports -> Outcomes] : PowerOn(out) \/ Shutdown(out) \/ AtExit(out)
  \/ \E s \in Enabled, out \in Outcomes : memcard_format_file(s, out)
  \/ Crash

CardSpec == CardInit /\ [][CardNext]_cardVars

---------------------------------------------------------------------------
\* A card whose dirty flag is clear is the card on disk, through failed opens, short writes
\* and failed closes: memcard_flush forgets nothing it has still to write.
CleanIsOnDisk ==
  run # "down" => \A s \in Ports : card[s].present /\ ~card[s].dirty => file[s] = card[s].image

\* A slot whose last flush worked, and whose file was made without an error, has, in this and
\* in every later run of the program, the card as its last accepted write left it.
GoodSurvives ==
  run = "up" => \A s \in Enabled \ lossy : card[s].present /\ card[s].image = acked[s]

\* When the card ends a write with 'G', the sector the guest addressed, in the slot SLOT
\* names, holds exactly the bytes the guest sent, and their checksum was right.
GoodMeansStored ==
  [][LET data == [i \in 1..LEN |-> sent[6 + i]]
         sec == sent[5] * BYTE + sent[6]
     IN mc.state = "WRITE_END" /\ mc'.state = "IDLE" /\ rx' = Good =>
          /\ Len(sent) = LEN + 9
          /\ card[bus.SLOT].image[sec] = data
          /\ sent[LEN + 7] = (sent[5] + sent[6] + SumFunction(data)) % BYTE]_cardVars

==========================================================================
