------------------------- MODULE PersistenceProofs -------------------------
(***************************************************************************)
(* What outlives the process, for any size of card and of file, any slots  *)
(* and builds, and any outcome of a file operation: memory cards           *)
(* (memcard.c, sio.c) and save states (savestate.c, boot_state.c).         *)
(***************************************************************************)
EXTENDS MemCard, SaveState, TLAPS

-----------------------------------------------------------------------------
(* Memory cards: what is on disk is never less than what the dirty flag says. *)

\* A card record, its image left open.
IsCard(c) ==
  /\ c = [image |-> c.image, present |-> c.present, dirty |-> c.dirty]
  /\ c.present \in BOOLEAN /\ c.dirty \in BOOLEAN

CardsOK ==
  /\ card = [s \in Ports |-> card[s]] /\ file = [s \in Ports |-> file[s]]
  /\ \A s \in Ports : IsCard(card[s])

Clean(c, f) == c.present /\ ~c.dirty => f = c.image

DiskInv ==
  /\ CardsOK
  /\ run # "down" => \A s \in Ports : Clean(card[s], file[s])

CardInv == DiskInv /\ bus \in Bus

\* memcard_write_sector sets the dirty flag of a card that is present and touches no other.
LEMMA StoreDirties ==
  ASSUME NEW c, IsCard(c), NEW sec, NEW data
  PROVE  /\ IsCard(memcard_write_sector(c, sec, data))
         /\ c.present => memcard_write_sector(c, sec, data).dirty
         /\ ~c.present => memcard_write_sector(c, sec, data) = c
BY Zenon DEF IsCard, memcard_write_sector

\* memcard_flush: a card that was clean on disk, or dirty, is clean on disk or still dirty.
LEMMA FlushIsClean ==
  ASSUME NEW c, IsCard(c), NEW f, Clean(c, f), NEW out \in Outcomes
  PROVE  IsCard(FlushedCard(c, out)) /\ Clean(FlushedCard(c, out), FlushedFile(c, f, out))
<1>1. IsCard(FlushedCard(c, out)) /\ FlushedCard(c, out).image = c.image
      /\ FlushedCard(c, out).present = c.present
      /\ FlushedCard(c, out).dirty = (c.dirty /\ out # "ok")
  BY Zenon DEF IsCard, FlushedCard
<1>2. CASE ~c.dirty
  BY <1>1, <1>2, Zenon DEF Clean, FlushedFile
<1>3. CASE c.dirty /\ out # "ok"
  BY <1>1, <1>3, Zenon DEF Clean
<1>4. CASE c.dirty /\ out = "ok"
  BY <1>1, <1>4, Zenon DEF Clean, FlushedFile, WrittenFile
<1>5. c.dirty \in BOOLEAN
  BY Zenon DEF IsCard
<1> QED BY <1>2, <1>3, <1>4, <1>5, Zenon

\* The first state: no process, no card.
LEMMA CardStart == CardInit => CardInv
<1> SUFFICES ASSUME CardInit PROVE CardInv
  BY Zenon
<1>1. bus \in Bus
  BY DEF CardInit, Bus, Ports
<1>2. CardsOK
  BY Zenon DEF CardInit, CardsOK, IsCard, NoCard
<1>3. run = "down"
  BY Zenon DEF CardInit
<1> QED BY <1>1, <1>2, <1>3, Zenon DEF CardInv, DiskInv

\* memcard_init_slots: a card it finds or makes is the one in the file.
LEMMA BootDisk ==
  ASSUME DiskInv, NEW out \in [Ports -> Outcomes], PowerOn(out)
  PROVE  DiskInv'
<1>1. card' = [s \in Ports |-> memcard_init_slot(s, out[s])]
      /\ file' = [s \in Ports |-> memcard_create(s, out[s])]
  BY Zenon DEF PowerOn
<1>2. ASSUME NEW s \in Ports
      PROVE  IsCard(card'[s]) /\ Clean(card'[s], file'[s])
  <2>1. card'[s] = memcard_init_slot(s, out[s]) /\ file'[s] = memcard_create(s, out[s])
    BY <1>1, Zenon
  <2>2. IsCard(memcard_init_slot(s, out[s]))
    BY Zenon DEF IsCard, memcard_init_slot
  <2>3. Clean(memcard_init_slot(s, out[s]), memcard_create(s, out[s]))
    BY CardAssumption, Zenon DEF Clean, memcard_init_slot, memcard_create, Creates, WrittenFile
  <2> QED BY <2>1, <2>2, <2>3, Zenon
<1>3. CardsOK'
  BY <1>1, <1>2, Zenon DEF CardsOK
<1> QED BY <1>2, <1>3, Zenon DEF DiskInv

\* memcard_flush_all on the way out.
LEMMA FlushAllDisk ==
  ASSUME DiskInv, run # "down", NEW out \in [Ports -> Outcomes], FlushAll(out)
  PROVE  DiskInv'
<1>1. card' = [s \in Ports |-> FlushedCard(card[s], out[s])]
      /\ file' = [s \in Ports |-> FlushedFile(card[s], file[s], out[s])]
  BY Zenon DEF FlushAll
<1>2. ASSUME NEW s \in Ports
      PROVE  IsCard(card'[s]) /\ Clean(card'[s], file'[s])
  <2>1. IsCard(card[s]) /\ Clean(card[s], file[s]) /\ out[s] \in Outcomes
    BY Zenon DEF DiskInv, CardsOK
  <2>2. card'[s] = FlushedCard(card[s], out[s]) /\ file'[s] = FlushedFile(card[s], file[s], out[s])
    BY <1>1, Zenon
  <2> QED BY <2>1, <2>2, FlushIsClean, Zenon
<1>3. CardsOK'
  BY <1>1, <1>2, Zenon DEF CardsOK
<1> QED BY <1>2, <1>3, Zenon DEF DiskInv

\* A byte for a card: the store and the flush of MC_WRITE_CHK, or nothing.
LEMMA ToCardDisk ==
  ASSUME DiskInv, run = "up", run' = run, NEW b, b.slot \in Ports, NEW m, NEW tx,
         NEW out \in Outcomes, ToCard(b, m, tx, out)
  PROVE  DiskInv'
<1> DEFINE s == b.slot
           stored == memcard_write_sector(card[s], sector(m), m.data)
<1>1. CASE UNCHANGED <<card, file>>
  BY <1>1, Zenon DEF DiskInv, CardsOK
<1>2. CASE /\ card' = [card EXCEPT ![s] = FlushedCard(stored, out)]
           /\ file' = [file EXCEPT ![s] = FlushedFile(stored, @, out)]
  <2>1. IsCard(card[s]) /\ Clean(card[s], file[s]) /\ s \in Ports
    BY Zenon DEF DiskInv, CardsOK
  <2>2. IsCard(stored) /\ Clean(stored, file[s])
    <3>1. IsCard(stored) /\ (card[s].present => stored.dirty) /\ (~card[s].present => stored = card[s])
      BY <2>1, StoreDirties, Zenon
    <3> HIDE DEF stored
    <3>2. card[s].present \in BOOLEAN
      BY <2>1, Zenon DEF IsCard
    <3> QED BY <2>1, <3>1, <3>2, Zenon DEF Clean
  <2>3. IsCard(FlushedCard(stored, out)) /\ Clean(FlushedCard(stored, out), FlushedFile(stored, file[s], out))
    BY <2>2, FlushIsClean, Zenon
  <2> HIDE DEF stored
  <2>4. \A r \in Ports : /\ card'[r] = IF r = s THEN FlushedCard(stored, out) ELSE card[r]
                         /\ file'[r] = IF r = s THEN FlushedFile(stored, file[s], out) ELSE file[r]
    BY <1>2, <2>1, Zenon DEF DiskInv, CardsOK
  <2>5. card' = [r \in Ports |-> card'[r]] /\ file' = [r \in Ports |-> file'[r]]
    BY <1>2, <2>1, Zenon DEF DiskInv, CardsOK
  <2>6. ASSUME NEW r \in Ports
        PROVE  IsCard(card'[r]) /\ Clean(card'[r], file'[r])
    <3>1. IsCard(card[r]) /\ Clean(card[r], file[r])
      BY Zenon DEF DiskInv, CardsOK
    <3>2. CASE r = s
      BY <2>3, <2>4, <3>2, Zenon
    <3>3. CASE r # s
      BY <2>4, <3>1, <3>3, Zenon
    <3> QED BY <3>2, <3>3, Zenon
  <2>7. CardsOK'
    BY <2>5, <2>6, Zenon DEF CardsOK
  <2> QED BY <2>6, <2>7, Zenon DEF DiskInv
<1> QED BY <1>1, <1>2, Zenon DEF ToCard

\* A byte keeps the disk behind the cards, and the bus well formed.
LEMMA ByteInv ==
  ASSUME DiskInv, bus \in Bus, NEW tx, NEW out \in Outcomes, Byte(tx, out)
  PROVE  DiskInv' /\ bus' \in Bus
<1> USE DEF Bus
<1>1. run = "up" /\ run' = run
  BY Zenon DEF Byte
<1>2. CtrlSlot \in Bus /\ [CtrlSlot EXCEPT !.slot = bus.SLOT] \in Bus
      /\ [bus EXCEPT !.slot = bus.selected] \in Bus
  BY Zenon DEF CtrlSlot
<1>3. ASSUME NEW b \in Bus, NEW m, ToCard(b, m, tx, out)
      PROVE  DiskInv' /\ bus' \in Bus
  <2>1. b.slot \in Ports
    BY Zenon
  <2>2. DiskInv'
    BY <1>1, <1>3, <2>1, ToCardDisk, Zenon
  <2>3. bus' = [b EXCEPT !.active = "card"]
    BY <1>3, Zenon DEF ToCard
  <2> QED BY <2>2, <2>3, Zenon
<1>4. ASSUME NEW b \in Bus, ToPad(b) \/ Stray(b)
      PROVE  DiskInv' /\ bus' \in Bus
  <2>1. UNCHANGED <<card, file>> /\ bus' \in Bus
    BY <1>4 DEF ToPad, Stray
  <2> QED BY <1>1, <2>1, Zenon DEF DiskInv, CardsOK
<1>5. CASE FreshByte(tx, out)
  <2> HIDE DEF Bus
  <2> QED BY <1>2, <1>3, <1>4, <1>5, Zenon DEF FreshByte
<1>6. CASE PadByte(out)
  BY <1>4, <1>6, Zenon DEF PadByte
<1>7. CASE CardByte(tx, out)
  <2> HIDE DEF Bus
  <2> QED BY <1>2, <1>3, <1>4, <1>7, Zenon DEF CardByte
<1> QED BY <1>5, <1>6, <1>7, Zenon DEF Byte

\* A CTRL write leaves cards and files alone, and the bus well formed.
LEMMA CtrlInv ==
  ASSUME DiskInv, bus \in Bus, NEW sel \in BOOLEAN, NEW slot \in Ports, NEW reset \in BOOLEAN,
         WriteCtrl(sel, slot, reset)
  PROVE  DiskInv' /\ bus' \in Bus
<1>1. UNCHANGED <<card, file, run>>
  BY Zenon DEF WriteCtrl
<1>2. DiskInv'
  BY <1>1, Zenon DEF DiskInv, CardsOK
<1> DEFINE b1 == [bus EXCEPT !.SELECT = sel /\ ~reset, !.SLOT = IF reset THEN 0 ELSE slot]
           st1 == [mc |-> mc, mc_slots |-> mc_slots, bus |-> b1]
           st2 == IF reset THEN Reset(st1) ELSE st1
           st3 == IF bus.SELECT /\ ~sel THEN Deselect(st2) ELSE st2
<1>3. b1 \in Bus
  <2>1. (sel /\ ~reset) \in BOOLEAN /\ (IF reset THEN 0 ELSE slot) \in Ports
    BY DEF Ports
  <2>2. \A u \in BOOLEAN, v \in Ports : [bus EXCEPT !.SELECT = u, !.SLOT = v] \in Bus
    BY Zenon DEF Bus
  <2> QED BY <2>1, <2>2, Zenon
<1>4. st2.bus \in Bus
  <2>1. Reset(st1).bus = [b1 EXCEPT !.active = "none"]
    BY Zenon DEF Reset
  <2> HIDE DEF b1
  <2> QED BY <1>3, <2>1, Zenon DEF Bus
<1>5. st2 = [mc |-> st2.mc, mc_slots |-> st2.mc_slots, bus |-> st2.bus]
  BY Zenon DEF Reset
<1>6. st3.bus \in Bus
  <2> HIDE DEF st2
  <2> QED BY <1>4, <1>5, Zenon DEF Deselect, Bus
<1> QED BY <1>2, <1>6, Zenon DEF WriteCtrl

\* Every step keeps both.
LEMMA CardStep == CardInv /\ [CardNext]_cardVars => CardInv'
<1> SUFFICES ASSUME DiskInv, bus \in Bus, [CardNext]_cardVars
             PROVE  DiskInv' /\ bus' \in Bus
  BY Zenon DEF CardInv, Bus
<1>0. sio_init => bus' \in Bus
  BY DEF sio_init, Bus, Ports
<1>1. ASSUME NEW tx \in TxBytes(mc), NEW out \in Outcomes, Byte(tx, out)
      PROVE  DiskInv' /\ bus' \in Bus
  BY <1>1, ByteInv, Zenon
<1>2. ASSUME NEW sel \in BOOLEAN, NEW reset \in BOOLEAN, NEW slot \in Ports, WriteCtrl(sel, slot, reset)
      PROVE  DiskInv' /\ bus' \in Bus
  BY <1>2, CtrlInv, Zenon
<1>3. ASSUME NEW out \in [Ports -> Outcomes], PowerOn(out)
      PROVE  DiskInv' /\ bus' \in Bus
  BY <1>0, <1>3, BootDisk, Zenon DEF PowerOn
<1>4. ASSUME NEW out \in [Ports -> Outcomes], Shutdown(out) \/ AtExit(out)
      PROVE  DiskInv' /\ bus' \in Bus
  <2>1. run # "down" /\ FlushAll(out) /\ sio_init
    BY <1>4, Zenon DEF Shutdown, AtExit
  <2> QED BY <1>0, <2>1, FlushAllDisk, Zenon
<1>5. CASE Crash
  BY <1>0, <1>5, Zenon DEF Crash, DiskInv, CardsOK, IsCard, NoCard
<1>6. ASSUME NEW s \in Enabled, NEW out \in Outcomes, memcard_format_file(s, out)
      PROVE  DiskInv' /\ bus' \in Bus
  BY <1>6, Zenon DEF memcard_format_file, DiskInv, CardsOK
<1>7. CASE UNCHANGED cardVars
  BY <1>7, Zenon DEF cardVars, DiskInv, CardsOK, Bus
<1> QED BY <1>1, <1>2, <1>3, <1>4, <1>5, <1>6, <1>7, Zenon DEF CardNext

\* A card whose dirty flag is clear is the card on disk, for every card size, every outcome
\* of a flush and every use of the port (memcard_write_sector, memcard_flush, memcard_init_slots).
THEOREM CleanAlwaysOnDisk == CardSpec => []CleanIsOnDisk
<1>1. CardInv => CleanIsOnDisk
  BY Zenon DEF CardInv, DiskInv, CleanIsOnDisk, Clean
<1> QED BY <1>1, CardStart, CardStep, PTL DEF CardSpec

\* The working variables of the card protocol.  What mc_checksum holds is left open.
Addressing == {"IDLE", "CMD", "ID1", "ID2", "ADDR_MSB", "ADDR_LSB"}
Answering == {"GETID_1", "GETID_2", "GETID_3", "GETID_4", "READ_ACK1", "READ_ACK2", "READ_MSB_ECHO",
              "READ_LSB_ECHO", "READ_DATA", "READ_CHK", "READ_END"}
Ending == {"WRITE_ACK1", "WRITE_ACK2", "WRITE_END"}
States == Addressing \cup Answering \cup {"WRITE_DATA", "WRITE_CHK"} \cup Ending

IsMc(m) ==
  /\ m = [state |-> m.state, cmd |-> m.cmd, msb |-> m.msb, lsb |-> m.lsb, data |-> m.data,
          idx |-> m.idx, chk |-> m.chk, flag |-> m.flag]
  /\ m.state \in States /\ m.msb \in Bits /\ m.lsb \in Bits /\ m.data \in Data /\ m.idx \in Nat

\* One byte of the protocol: the state m, then the answer a.
Same(m, n) == n.msb = m.msb /\ n.lsb = m.lsb /\ n.data = m.data /\ n.chk = m.chk

Moves(m, s, tx, a) ==
  /\ m.state = "IDLE" => a.mc.state = "IDLE" \/ (a.mc.state = "CMD" /\ card[s].present)
  /\ m.state = "CMD" => a.mc.state \in {"IDLE", "ID1"}
  /\ m.state = "ID1" => a.mc.state = "ID2"
  /\ m.state = "ID2" => a.mc.state = "ADDR_MSB" \/ a.mc.state \in Answering
  /\ m.state = "ADDR_MSB" => a.mc.state = "ADDR_LSB" /\ a.mc.msb = tx
  /\ m.state = "ADDR_LSB" =>
       \/ a.mc.state \in Answering
       \/ a.mc.state = "WRITE_DATA" /\ a.mc.msb = m.msb /\ a.mc.lsb = tx /\ a.mc.idx = 0
  /\ m.state \in Answering => a.mc.state = "IDLE" \/ a.mc.state \in Answering
  /\ m.state = "WRITE_DATA" =>
       /\ a.mc.state = IF m.idx + 1 >= LEN THEN "WRITE_CHK" ELSE "WRITE_DATA"
       /\ a.mc.msb = m.msb /\ a.mc.lsb = m.lsb /\ a.mc.idx = m.idx + 1
       /\ a.mc.data = [m.data EXCEPT ![m.idx + 1] = tx]
  /\ m.state = "WRITE_CHK" =>
       /\ a.mc.state = "WRITE_ACK1" /\ a.mc.msb = m.msb /\ a.mc.lsb = m.lsb /\ a.mc.data = m.data
       /\ a.mc.chk = Good => Accepts(m, tx)
  /\ m.state = "WRITE_ACK1" => a.mc.state = "WRITE_ACK2" /\ Same(m, a.mc)
  /\ m.state = "WRITE_ACK2" => a.mc.state = "WRITE_END" /\ Same(m, a.mc) /\ a.rx = 93
  /\ m.state = "WRITE_END" => a.mc.state = "IDLE" /\ a.rx = m.chk

\* A function on the fields is the record of them.
McFields == {"state", "cmd", "msb", "lsb", "data", "idx", "chk", "flag"}

\* The card's protocol state is a record of its fields.
LEMMA McRecord ==
  ASSUME NEW m, m = [x \in McFields |-> m[x]]
  PROVE  m = [state |-> m.state, cmd |-> m.cmd, msb |-> m.msb, lsb |-> m.lsb, data |-> m.data,
              idx |-> m.idx, chk |-> m.chk, flag |-> m.flag]
BY Zenon DEF McFields

\* Changing the state keeps the rest.
LEMMA GoKeeps ==
  ASSUME NEW m, IsMc(m), NEW st \in States
  PROVE  IsMc(Go(m, st)) /\ Go(m, st).state = st /\ Same(m, Go(m, st)) /\ Go(m, st).idx = m.idx
BY DEF IsMc, Go, Same

\* The parts of an answer.
LEMMA AnswerParts == \A r, m : Answer(r, m).rx = r /\ Answer(r, m).mc = m
BY Zenon DEF Answer

\* States that answer whatever is sent.
LEMMA ChainMoves ==
  ASSUME NEW m, IsMc(m), NEW s, NEW tx, m.state \in DOMAIN Chain,
         NEW a, a = mc_process_byte(m, s, tx)
  PROVE  IsMc(a.mc) /\ Moves(m, s, tx, a)
<1>1. a = Answer(Chain[m.state][1], Go(m, Chain[m.state][2]))
  <2>1. m.state \notin {"READ_MSB_ECHO", "READ_LSB_ECHO", "READ_DATA", "READ_CHK", "READ_END"}
        /\ m.state \notin {"WRITE_DATA", "WRITE_CHK", "WRITE_END"}
    BY Zenon DEF Chain
  <2> QED BY <2>1, Zenon DEF mc_process_byte
<1>2. /\ m.state \in {"ID1"} \cup Answering \cup Ending
      /\ Chain[m.state][2] \in States
      /\ m.state = "ID1" => Chain[m.state][2] = "ID2"
      /\ m.state \in Answering => Chain[m.state][2] = "IDLE" \/ Chain[m.state][2] \in Answering
      /\ m.state = "WRITE_ACK1" => Chain[m.state][2] = "WRITE_ACK2"
      /\ m.state = "WRITE_ACK2" => Chain[m.state][2] = "WRITE_END" /\ Chain[m.state][1] = 93
      /\ m.state # "WRITE_END"
  BY DEF Chain, States, Addressing, Answering, Ending
<1>3. a.rx = Chain[m.state][1] /\ a.mc = Go(m, Chain[m.state][2])
  BY <1>1, AnswerParts
<1>4. IsMc(a.mc) /\ a.mc.state = Chain[m.state][2] /\ Same(m, a.mc)
  BY <1>2, <1>3, GoKeeps
<1> QED BY <1>2, <1>3, <1>4, Zenon DEF Moves, Answering, Ending

\* MC_IDLE to MC_ADDR_LSB
LEMMA HeaderMoves ==
  ASSUME NEW m, IsMc(m), NEW s, card[s].image \in Images, NEW tx,
         m.state \in {"IDLE", "CMD", "ID2", "ADDR_MSB", "ADDR_LSB"},
         m.state \in {"ADDR_MSB", "ADDR_LSB"} => tx \in Bits,
         NEW a, a = mc_process_byte(m, s, tx)
  PROVE  IsMc(a.mc) /\ Moves(m, s, tx, a)
<1>1. a = Header(m, s, tx)
  BY DEF mc_process_byte, Chain
<1>2. CASE m.state = "IDLE"
  <2>1. a.mc = m \/ (card[s].present /\ a.mc = Go(m, "CMD"))
    BY <1>1, <1>2, AnswerParts DEF Header
  <2> QED BY <1>2, <2>1, GoKeeps DEF Moves, States, Addressing, Answering
<1>3. CASE m.state = "CMD"
  <2>1. \/ a.mc = [Go(m, "ID1") EXCEPT !.cmd = tx, !.flag = 0]
        \/ a.mc = [Go(m, "IDLE") EXCEPT !.cmd = tx]
    BY <1>1, <1>3, AnswerParts DEF Header
  <2>2. IsMc(a.mc) /\ a.mc.state \in {"IDLE", "ID1"}
    BY <2>1, Zenon DEF IsMc, Go, States, Addressing
  <2> QED BY <1>3, <2>2, Zenon DEF Moves, Answering
<1>4. CASE m.state = "ID2"
  <2>1. \E st \in {"GETID_1", "ADDR_MSB"} : a.mc = Go(m, st)
    BY <1>1, <1>4, AnswerParts DEF Header
  <2> QED BY <1>4, <2>1, GoKeeps DEF Moves, States, Addressing, Answering
<1>5. CASE m.state = "ADDR_MSB"
  <2>1. a.mc = [Go(m, "ADDR_LSB") EXCEPT !.msb = tx]
    BY <1>1, <1>5, AnswerParts DEF Header
  <2>2. IsMc(a.mc) /\ a.mc.state = "ADDR_LSB" /\ a.mc.msb = tx
    BY <1>5, <2>1, Zenon DEF IsMc, Go, States, Addressing
  <2> QED BY <1>5, <2>2, Zenon DEF Moves, Answering
<1>6. CASE m.state = "ADDR_LSB" /\ m.cmd # READ
  <2>1. a.mc = [Go(m, "WRITE_DATA") EXCEPT !.lsb = tx, !.idx = 0]
    BY <1>1, <1>6, AnswerParts DEF Header
  <2>2. a.mc = [state |-> "WRITE_DATA", cmd |-> m.cmd, msb |-> m.msb, lsb |-> tx, data |-> m.data,
                idx |-> 0, chk |-> m.chk, flag |-> m.flag]
    BY <2>1, Zenon DEF IsMc, Go
  <2>3. IsMc(a.mc) /\ a.mc.state = "WRITE_DATA" /\ a.mc.msb = m.msb /\ a.mc.lsb = tx /\ a.mc.idx = 0
    BY <1>6, <2>2 DEF IsMc, States
  <2> QED BY <1>6, <2>3, Zenon DEF Moves, Answering
<1>7. CASE m.state = "ADDR_LSB" /\ m.cmd = READ
  <2> DEFINE l == [m EXCEPT !.lsb = tx]
             d == IF sector(l) < SECTORS THEN card[s].image[sector(l)] ELSE [i \in 1..LEN |-> BYTE - 1]
             n == [l EXCEPT !.data = d]
  <2>1. a.mc = [Go(n, "READ_ACK1") EXCEPT !.idx = 0, !.chk = Checksum(n)]
    BY <1>1, <1>7, AnswerParts DEF Header
  <2>2. IsMc(l)
    BY <1>7 DEF IsMc
  <2>3. d \in Data
    <3> HIDE DEF l
    <3>1. sector(l) \in Nat
      BY <2>2 DEF IsMc, sector, Bits, BYTE
    <3> QED BY <3>1, CardAssumption DEF Images, Data, Bits, BYTE
  <2> HIDE DEF l, d
  <2>4. IsMc(n)
    BY <2>2, <2>3 DEF IsMc
  <2> HIDE DEF n
  <2>5. a.mc = [state |-> "READ_ACK1", cmd |-> n.cmd, msb |-> n.msb, lsb |-> n.lsb, data |-> n.data,
                idx |-> 0, chk |-> Checksum(n), flag |-> n.flag]
    BY <2>1, <2>4, Zenon DEF IsMc, Go
  <2>6. IsMc(a.mc) /\ a.mc.state = "READ_ACK1"
    BY <2>4, <2>5 DEF IsMc, States, Answering
  <2> QED BY <1>7, <2>6, Zenon DEF Moves, Answering
<1> QED BY <1>2, <1>3, <1>4, <1>5, <1>6, <1>7, Zenon

\* MC_READ_MSB_ECHO to MC_READ_END
LEMMA ReadMoves ==
  ASSUME NEW m, IsMc(m), NEW s, NEW tx,
         m.state \in {"READ_MSB_ECHO", "READ_LSB_ECHO", "READ_DATA", "READ_CHK", "READ_END"},
         NEW a, a = mc_process_byte(m, s, tx)
  PROVE  IsMc(a.mc) /\ Moves(m, s, tx, a)
<1>1. a = ReadPhase(m)
  BY DEF mc_process_byte, Chain
<1>2. \E st \in {"READ_LSB_ECHO", "READ_DATA", "READ_CHK", "READ_END", "IDLE"}, i \in Nat :
        a.mc = [Go(m, st) EXCEPT !.idx = i]
  <2>1. m.idx \in Nat /\ m.idx + 1 \in Nat /\ \A st : Go(m, st) = [Go(m, st) EXCEPT !.idx = m.idx]
    <3>1. m.idx \in Nat
      BY Zenon DEF IsMc
    <3>2. ASSUME NEW st PROVE Go(m, st) = [Go(m, st) EXCEPT !.idx = m.idx]
      <4>1. Go(m, st) = [state |-> st, cmd |-> m.cmd, msb |-> m.msb, lsb |-> m.lsb, data |-> m.data,
                         idx |-> m.idx, chk |-> m.chk, flag |-> m.flag]
        BY DEF IsMc, Go
      <4> QED BY <4>1
    <3> QED BY <3>1, <3>2
  <2>2. CASE m.state \in {"READ_MSB_ECHO", "READ_CHK", "READ_END"}
    <3>1. a.mc \in {Go(m, "READ_LSB_ECHO"), Go(m, "READ_END"), Go(m, "IDLE")}
      BY <1>1, <2>2, AnswerParts DEF ReadPhase
    <3> QED BY <2>1, <3>1, Zenon
  <2>3. CASE m.state = "READ_LSB_ECHO"
    BY <1>1, <2>3, AnswerParts DEF ReadPhase
  <2>4. CASE m.state = "READ_DATA"
    <3>1. a.mc = [Go(m, IF m.idx + 1 >= LEN THEN "READ_CHK" ELSE "READ_DATA") EXCEPT !.idx = m.idx + 1]
      BY <1>1, <2>4, AnswerParts, GoKeeps DEF ReadPhase, Go, IsMc
    <3> QED BY <2>1, <3>1, Zenon
  <2> QED BY <2>2, <2>3, <2>4, Zenon
<1>3. IsMc(a.mc) /\ (a.mc.state = "IDLE" \/ a.mc.state \in Answering)
  BY <1>2, Zenon DEF IsMc, Go, States, Addressing, Answering
<1> QED BY <1>3, Zenon DEF Moves, Answering

\* MC_WRITE_DATA to MC_WRITE_END
LEMMA WriteMoves ==
  ASSUME NEW m, IsMc(m), NEW s, NEW tx, m.state \in {"WRITE_DATA", "WRITE_CHK", "WRITE_END"},
         m.state = "WRITE_DATA" => tx \in Bits,
         NEW a, a = mc_process_byte(m, s, tx)
  PROVE  IsMc(a.mc) /\ Moves(m, s, tx, a)
<1>1. a = WritePhase(m, tx)
  BY Zenon DEF mc_process_byte, Chain
<1>2. CASE m.state = "WRITE_DATA"
  <2> DEFINE st == IF m.idx + 1 >= LEN THEN "WRITE_CHK" ELSE "WRITE_DATA"
             d == [m.data EXCEPT ![m.idx + 1] = tx]
  <2>1. a.mc = [Go(m, st) EXCEPT !.data[m.idx + 1] = tx, !.idx = @ + 1]
    BY <1>1, <1>2, AnswerParts DEF WritePhase
  <2>2. d \in Data /\ st \in States
    BY <1>2, Zenon DEF IsMc, Data, States
  <2>3. a.mc = [state |-> st, cmd |-> m.cmd, msb |-> m.msb, lsb |-> m.lsb, data |-> d,
                idx |-> m.idx + 1, chk |-> m.chk, flag |-> m.flag]
    BY <2>1, Zenon DEF IsMc, Go
  <2> HIDE DEF st, d
  <2>4. IsMc(a.mc)
    BY <2>2, <2>3 DEF IsMc
  <2>5. a.mc.state = st /\ a.mc.msb = m.msb /\ a.mc.lsb = m.lsb /\ a.mc.idx = m.idx + 1 /\ a.mc.data = d
    BY <2>3
  <2> QED BY <1>2, <2>4, <2>5, Zenon DEF Moves, Answering, st, d
<1>3. CASE m.state = "WRITE_CHK"
  <2> DEFINE c == IF Accepts(m, tx) THEN Good ELSE IF sector(m) >= SECTORS THEN 255 ELSE 78
  <2>1. a.mc = [Go(m, "WRITE_ACK1") EXCEPT !.chk = c]
    BY <1>1, <1>3, AnswerParts DEF WritePhase
  <2>2. c = Good => Accepts(m, tx)
    BY DEF Good
  <2> HIDE DEF c
  <2>3. a.mc = [state |-> "WRITE_ACK1", cmd |-> m.cmd, msb |-> m.msb, lsb |-> m.lsb, data |-> m.data,
                idx |-> m.idx, chk |-> c, flag |-> m.flag]
    BY <2>1, Zenon DEF IsMc, Go
  <2>4. IsMc(a.mc)
    BY <2>3 DEF IsMc, States, Ending
  <2> QED BY <1>3, <2>2, <2>3, <2>4 DEF Moves, Answering
<1>4. CASE m.state = "WRITE_END"
  <2>1. a.rx = m.chk /\ a.mc = [Go(m, "IDLE") EXCEPT !.flag = 0]
    BY <1>1, <1>4, AnswerParts DEF WritePhase
  <2>2. IsMc(a.mc) /\ a.mc.state = "IDLE"
    BY <2>1, Zenon DEF IsMc, Go, States, Addressing
  <2> QED BY <1>4, <2>1, <2>2, Zenon DEF Moves, Answering
<1> QED BY <1>2, <1>3, <1>4, Zenon

\* mc_process_byte, whatever the state.
LEMMA ProcessMoves ==
  ASSUME NEW m, IsMc(m), NEW s, card[s].image \in Images, NEW tx,
         m.state \in {"ADDR_MSB", "ADDR_LSB", "WRITE_DATA"} => tx \in Bits,
         NEW a, a = mc_process_byte(m, s, tx)
  PROVE  IsMc(a.mc) /\ Moves(m, s, tx, a)
<1>1. m.state \in States
  BY Zenon DEF IsMc
<1>2. \/ m.state \in DOMAIN Chain
      \/ m.state \in {"IDLE", "CMD", "ID2", "ADDR_MSB", "ADDR_LSB"}
      \/ m.state \in {"READ_MSB_ECHO", "READ_LSB_ECHO", "READ_DATA", "READ_CHK", "READ_END"}
      \/ m.state \in {"WRITE_DATA", "WRITE_CHK", "WRITE_END"}
  BY <1>1, Zenon DEF States, Addressing, Answering, Ending, Chain
<1> QED BY <1>2, ChainMoves, HeaderMoves, ReadMoves, WriteMoves

\* The port between bytes: an open transaction is with the card that is there, and a slot
\* keeps no transaction of its own.
PortInv ==
  /\ bus \in Bus /\ IsMc(mc)
  /\ DOMAIN mc_slots = Ports /\ \A s \in Ports : IsMc(mc_slots[s]) /\ mc_slots[s].state = "IDLE"
  /\ mc.state # "IDLE" => bus.active = "card" /\ run = "up" /\ card[bus.slot].present

\* What a byte finds of the bus: CtrlSlot's selection, or the one of the device already active.
Linked(b) ==
  /\ b \in Bus /\ b.SLOT = bus.SLOT /\ b.SELECT = bus.SELECT
  /\ b.selected = bus.SLOT \/ (bus.active # "none" /\ b.selected = bus.selected)

Continues(b, m) == mc.state # "IDLE" /\ m = mc /\ b = bus
Begins(b, m) == mc.state = "IDLE" /\ IsMc(m) /\ m.state = "IDLE" /\ Linked(b) /\ b.slot = b.selected

\* A byte goes on with the open transaction, begins one, or reaches no card.
LEMMA ByteCases ==
  ASSUME PortInv, NEW tx \in TxBytes(mc), NEW out, Byte(tx, out)
  PROVE  /\ UNCHANGED <<run, mc_slots>> /\ run = "up" /\ (Disciplined => bus.SELECT) /\ tx \in Nat
         /\ mc.state \in {"ADDR_MSB", "ADDR_LSB", "WRITE_DATA"} => tx \in Bits
         /\ \/ \E b, m : (Continues(b, m) \/ Begins(b, m)) /\ ToCard(b, m, tx, out)
            \/ /\ mc.state = "IDLE" /\ IsMc(mc') /\ mc'.state = "IDLE"
               /\ UNCHANGED <<card, file, lossy, acked, sent>>
               /\ \E b : Linked(b) /\ \E act \in {"pad", "none"} : bus' = [b EXCEPT !.active = act]
<1>1. UNCHANGED run /\ run = "up" /\ (Disciplined => bus.SELECT)
  BY Zenon DEF Byte
<1>2. tx \in Nat /\ (mc.state \in {"ADDR_MSB", "ADDR_LSB", "WRITE_DATA"} => tx \in Bits)
  BY DEF TxBytes, Bits, PadSelect, CardSelect, READ, WRITE, GETID
<1>3. /\ CtrlSlot \in Bus /\ CtrlSlot.SLOT = bus.SLOT /\ CtrlSlot.SELECT = bus.SELECT
      /\ CtrlSlot.selected = bus.SLOT /\ Linked(CtrlSlot) /\ (bus.active # "none" => Linked(bus))
  BY Zenon DEF CtrlSlot, Linked, PortInv, Bus
<1>4. /\ Linked([CtrlSlot EXCEPT !.slot = bus.SLOT])
      /\ [CtrlSlot EXCEPT !.slot = bus.SLOT].slot = [CtrlSlot EXCEPT !.slot = bus.SLOT].selected
  BY <1>3, Zenon DEF Linked, PortInv, Bus
<1>5. bus.active # "none" => /\ Linked([bus EXCEPT !.slot = bus.selected])
                             /\ [bus EXCEPT !.slot = bus.selected].slot = [bus EXCEPT !.slot = bus.selected].selected
  BY <1>3, Zenon DEF Linked, PortInv, Bus
<1>6. IsMc(mc) /\ bus.SLOT \in Ports /\ IsMc(mc_load_slot) /\ mc_load_slot.state = "IDLE"
      /\ IsMc(Go(mc, "IDLE")) /\ Go(mc, "IDLE").state = "IDLE"
      /\ IsMc(Go(mc_load_slot, "IDLE")) /\ Go(mc_load_slot, "IDLE").state = "IDLE"
  <2>1. IsMc(mc) /\ bus.SLOT \in Ports /\ IsMc(mc_load_slot) /\ mc_load_slot.state = "IDLE"
    BY Zenon DEF PortInv, mc_load_slot, Bus
  <2> QED BY <2>1, GoKeeps, Zenon DEF States, Addressing
<1> DEFINE Card == \E b, m : (Continues(b, m) \/ Begins(b, m)) /\ ToCard(b, m, tx, out)
           NoCardByte == /\ mc.state = "IDLE" /\ IsMc(mc') /\ mc'.state = "IDLE"
                         /\ UNCHANGED <<card, file, lossy, acked, sent>>
                         /\ \E b : Linked(b) /\ \E act \in {"pad", "none"} : bus' = [b EXCEPT !.active = act]
<1>7. CASE FreshByte(tx, out)
  <2>1. mc.state = "IDLE"
    BY <1>7, Zenon DEF FreshByte, PortInv
  <2>2. ASSUME tx = PadSelect PROVE UNCHANGED mc_slots /\ NoCardByte
    <3>1. UNCHANGED <<mc_slots, sent>> /\ mc' = Go(mc, "IDLE") /\ ToPad(CtrlSlot)
      BY <1>7, <2>1, <2>2 DEF FreshByte, PadSelect, CardSelect
    <3> QED BY <1>3, <1>6, <2>1, <3>1, Zenon DEF ToPad
  <2>3. ASSUME tx = CardSelect PROVE UNCHANGED mc_slots /\ Card
    <3>1. UNCHANGED mc_slots
          /\ ToCard([CtrlSlot EXCEPT !.slot = bus.SLOT], Go(mc_load_slot, "IDLE"), tx, out)
      BY <1>7, <2>3 DEF FreshByte, PadSelect, CardSelect
    <3>2. Begins([CtrlSlot EXCEPT !.slot = bus.SLOT], Go(mc_load_slot, "IDLE"))
      BY <1>4, <1>6, <2>1, Zenon DEF Begins
    <3> QED BY <3>1, <3>2, Zenon
  <2>4. ASSUME tx \notin {PadSelect, CardSelect} PROVE UNCHANGED mc_slots /\ NoCardByte
    <3>1. UNCHANGED <<mc_slots, sent>> /\ mc' = Go(mc_load_slot, "IDLE") /\ Stray(CtrlSlot)
      BY <1>6, <1>7, <2>4, Zenon DEF FreshByte
    <3> QED BY <1>3, <1>6, <2>1, <3>1, Zenon DEF Stray
  <2>5. UNCHANGED mc_slots /\ (Card \/ NoCardByte)
    BY <2>2, <2>3, <2>4, Zenon
  <2> QED BY <1>1, <1>2, <2>5, Zenon
<1>8. CASE PadByte(out)
  <2>1. mc.state = "IDLE" /\ UNCHANGED <<mc, mc_slots, sent>> /\ ToPad(bus)
    BY <1>8, Zenon DEF PadByte, PortInv
  <2>2. NoCardByte
    BY <1>3, <1>6, <1>8, <2>1, ZenonT(60) DEF PadByte, ToPad
  <2> QED BY <1>1, <1>2, <2>1, <2>2, Zenon
<1>9. CASE CardByte(tx, out)
  <2>1. CASE mc.state # "IDLE"
    BY <1>1, <1>2, <1>9, <2>1, Zenon DEF CardByte, Continues
  <2>2. CASE mc.state = "IDLE" /\ tx = CardSelect
    <3>1. UNCHANGED mc_slots /\ bus.active # "none" /\ ToCard([bus EXCEPT !.slot = bus.selected], mc, tx, out)
      BY <1>9, <2>2 DEF CardByte, PadSelect, CardSelect
    <3>2. Begins([bus EXCEPT !.slot = bus.selected], mc)
      BY <1>5, <1>6, <2>2, <3>1, Zenon DEF Begins
    <3> QED BY <1>1, <1>2, <3>1, <3>2, Zenon
  <2>3. CASE mc.state = "IDLE" /\ tx # CardSelect
    <3>1. UNCHANGED <<mc, mc_slots, sent>> /\ (ToPad(CtrlSlot) \/ Stray(CtrlSlot))
      BY <1>9, <2>3, Zenon DEF CardByte
    <3>2. NoCardByte
      BY <1>3, <1>6, <2>3, <3>1, Zenon DEF ToPad, Stray
    <3> QED BY <1>1, <1>2, <3>1, <3>2, Zenon
  <2> QED BY <2>1, <2>2, <2>3, Zenon
<1> QED BY <1>7, <1>8, <1>9, Zenon DEF Byte

\* A port's state as WriteCtrl passes it on.
Port(st) ==
  /\ DOMAIN st = {"mc", "mc_slots", "bus"}
  /\ IsMc(st.mc) /\ st.bus \in Bus
  /\ DOMAIN st.mc_slots = Ports /\ \A s \in Ports : IsMc(st.mc_slots[s])

Quiet(st) == st.mc.state = "IDLE" /\ st.bus.active = "none" /\ \A s \in Ports : st.mc_slots[s].state = "IDLE"

\* The new state of the port, field by field.
LEMMA ThreeParts ==
  ASSUME NEW st, DOMAIN st = {"mc", "mc_slots", "bus"}, NEW p, NEW q, NEW r
  PROVE  LET n == [st EXCEPT !.mc = p, !.mc_slots = q, !.bus = r]
         IN DOMAIN n = DOMAIN st /\ n.mc = p /\ n.mc_slots = q /\ n.bus = r
BY Zenon

\* A reset of the bus leaves no device active and the protocol at rest;
LEMMA ResetQuiets ==
  ASSUME NEW st, Port(st)
  PROVE  Port(Reset(st)) /\ Quiet(Reset(st)) /\ Reset(st).bus = [st.bus EXCEPT !.active = "none"]
<1> DEFINE m == Go(st.mc, "IDLE")
           ms == [s \in Ports |-> Go(st.mc_slots[s], "IDLE")]
           b == [st.bus EXCEPT !.active = "none"]
<1>1. /\ DOMAIN Reset(st) = {"mc", "mc_slots", "bus"}
      /\ Reset(st).mc = m /\ Reset(st).mc_slots = ms /\ Reset(st).bus = b
  <2>1. Reset(st) = [st EXCEPT !.mc = m, !.mc_slots = ms, !.bus = b] /\ DOMAIN st = {"mc", "mc_slots", "bus"}
    BY Zenon DEF Reset, Port
  <2> HIDE DEF m, ms, b
  <2> QED BY <2>1, ThreeParts, Zenon
<1>2. IsMc(m) /\ m.state = "IDLE" /\ \A s \in Ports : IsMc(ms[s]) /\ ms[s].state = "IDLE"
  BY GoKeeps, Zenon DEF Port, States, Addressing
<1>3. b \in Bus /\ b.active = "none"
  BY Zenon DEF Port, Bus
<1>4. DOMAIN ms = Ports
  BY Zenon
<1> HIDE DEF m, ms, b
<1> QED BY <1>1, <1>2, <1>3, <1>4, Zenon DEF Port, Quiet, b

\* so does releasing the select line.
LEMMA DeselectQuiets ==
  ASSUME NEW st, Port(st)
  PROVE  Port(Deselect(st)) /\ Quiet(Deselect(st)) /\ Deselect(st).bus = [st.bus EXCEPT !.active = "none"]
<1> DEFINE kept == IF st.bus.active = "card" THEN [st.mc_slots EXCEPT ![st.bus.slot].flag = st.mc.flag]
                   ELSE st.mc_slots
           m == Go(st.mc, "IDLE")
           ms == [s \in Ports |-> Cleared(kept[s])]
           b == [st.bus EXCEPT !.active = "none"]
<1>1. /\ DOMAIN Deselect(st) = {"mc", "mc_slots", "bus"}
      /\ Deselect(st).mc = m /\ Deselect(st).mc_slots = ms /\ Deselect(st).bus = b
  <2>1. Deselect(st) = [st EXCEPT !.mc = m, !.mc_slots = ms, !.bus = b] /\ DOMAIN st = {"mc", "mc_slots", "bus"}
    BY Zenon DEF Deselect, Port
  <2> HIDE DEF m, ms, b
  <2> QED BY <2>1, ThreeParts, Zenon
<1>2. ASSUME NEW s \in Ports PROVE IsMc(kept[s])
  <2>1. kept[s] = st.mc_slots[s] \/ kept[s] = [st.mc_slots[s] EXCEPT !.flag = st.mc.flag]
    BY Zenon DEF Port
  <2> HIDE DEF kept
  <2>2. IsMc(st.mc_slots[s])
    BY Zenon DEF Port
  <2> QED BY <2>1, <2>2, Zenon DEF IsMc
<1>3. ASSUME NEW k, IsMc(k) PROVE IsMc(Cleared(k)) /\ Cleared(k).state = "IDLE"
  <2>1. IsMc(Go(k, "IDLE"))
    BY <1>3, GoKeeps, Zenon DEF States, Addressing
  <2> DEFINE g == Go(k, "IDLE")
             n == [g EXCEPT !.cmd = 0, !.msb = 0, !.lsb = 0, !.idx = 0, !.chk = 0]
  <2>2. Cleared(k) = n /\ g.state = "IDLE"
    BY <1>3, GoKeeps, Zenon DEF Cleared, States, Addressing
  <2> HIDE DEF g
  <2>3. /\ n = [x \in McFields |-> n[x]] /\ n.state = g.state /\ n.data = g.data
        /\ n.msb = 0 /\ n.lsb = 0 /\ n.idx = 0
    BY <2>1, Zenon DEF IsMc, McFields, g
  <2>4. g.data \in Data
    BY <2>1, Zenon DEF IsMc, g
  <2> HIDE DEF n
  <2>5. IsMc(n)
    BY <2>2, <2>3, <2>4, McRecord DEF IsMc, States, Addressing, Bits
  <2> QED BY <2>2, <2>3, <2>5, Zenon
<1>4. \A s \in Ports : IsMc(ms[s]) /\ ms[s].state = "IDLE"
  BY <1>2, <1>3, Zenon
<1>5. IsMc(m) /\ m.state = "IDLE"
  BY GoKeeps, Zenon DEF Port, States, Addressing
<1>6. b \in Bus /\ b.active = "none"
  BY Zenon DEF Port, Bus
<1>7. DOMAIN ms = Ports
  BY Zenon
<1> HIDE DEF m, ms, b
<1> QED BY <1>1, <1>4, <1>5, <1>6, <1>7, Zenon DEF Port, Quiet, b

\* A CTRL write either leaves the transaction open or closes it everywhere.
LEMMA CtrlCases ==
  ASSUME PortInv, NEW sel \in BOOLEAN, NEW slot \in Ports, NEW reset \in BOOLEAN, WriteCtrl(sel, slot, reset)
  PROVE  LET quits == reset \/ (bus.SELECT /\ ~sel) IN
         /\ bus' \in Bus /\ bus'.slot = bus.slot /\ bus'.selected = bus.selected
         /\ bus'.SELECT = (sel /\ ~reset) /\ bus'.SLOT = IF reset THEN 0 ELSE slot
         /\ quits => /\ IsMc(mc') /\ DOMAIN mc_slots' = Ports /\ \A s \in Ports : IsMc(mc_slots'[s])
                     /\ mc'.state = "IDLE" /\ bus'.active = "none"
                     /\ \A s \in Ports : mc_slots'[s].state = "IDLE"
         /\ ~quits => UNCHANGED <<mc, mc_slots>> /\ bus'.active = bus.active
<1> DEFINE b1 == [bus EXCEPT !.SELECT = sel /\ ~reset, !.SLOT = IF reset THEN 0 ELSE slot]
           st1 == [mc |-> mc, mc_slots |-> mc_slots, bus |-> b1]
           st2 == IF reset THEN Reset(st1) ELSE st1
           st3 == IF bus.SELECT /\ ~sel THEN Deselect(st2) ELSE st2
<1>1. /\ b1 \in Bus /\ b1.slot = bus.slot /\ b1.selected = bus.selected /\ b1.active = bus.active
      /\ b1.SELECT = (sel /\ ~reset) /\ b1.SLOT = IF reset THEN 0 ELSE slot
  <2>1. (sel /\ ~reset) \in BOOLEAN /\ (IF reset THEN 0 ELSE slot) \in Ports
    BY DEF Ports
  <2>2. \A u \in BOOLEAN, v \in Ports :
          LET x == [bus EXCEPT !.SELECT = u, !.SLOT = v]
          IN /\ x \in Bus /\ x.slot = bus.slot /\ x.selected = bus.selected /\ x.active = bus.active
             /\ x.SELECT = u /\ x.SLOT = v
    BY Zenon DEF Bus, PortInv
  <2> QED BY <2>1, <2>2, ZenonT(60)
<1>2. mc' = st3.mc /\ mc_slots' = st3.mc_slots /\ bus' = st3.bus
  BY Zenon DEF WriteCtrl
<1> HIDE DEF b1
<1>3. Port(st1) /\ st1.mc = mc /\ st1.mc_slots = mc_slots /\ st1.bus = b1
  BY <1>1, Zenon DEF Port, PortInv
<1> HIDE DEF st1
<1>4. Port(st2) /\ (reset => Quiet(st2) /\ st2.bus = [b1 EXCEPT !.active = "none"]) /\ (~reset => st2 = st1)
  BY <1>3, ResetQuiets, Zenon
<1> HIDE DEF st2
<1> DEFINE quits == reset \/ (bus.SELECT /\ ~sel)
<1>5. /\ Port(st3) /\ (quits => Quiet(st3)) /\ (~quits => st3 = st1)
      /\ st3.bus = b1 \/ st3.bus = [b1 EXCEPT !.active = "none"]
      /\ st3.bus = IF quits THEN [b1 EXCEPT !.active = "none"] ELSE b1
  <2>1. CASE bus.SELECT /\ ~sel
    <3>1. Port(st3) /\ Quiet(st3) /\ st3.bus = [st2.bus EXCEPT !.active = "none"]
      BY <1>4, <2>1, DeselectQuiets, Zenon
    <3>2. st2.bus = b1 \/ st2.bus = [b1 EXCEPT !.active = "none"]
      BY <1>3, <1>4, Zenon
    <3>3. [[b1 EXCEPT !.active = "none"] EXCEPT !.active = "none"] = [b1 EXCEPT !.active = "none"]
      BY <1>1, Zenon DEF Bus
    <3> QED BY <2>1, <3>1, <3>2, <3>3, Zenon
  <2>2. CASE ~(bus.SELECT /\ ~sel)
    <3>1. st3 = st2
      BY <2>2, Zenon
    <3> QED BY <1>3, <1>4, <2>2, <3>1, Zenon
  <2> QED BY <2>1, <2>2, Zenon
<1> HIDE DEF st3
<1>6. /\ st3.bus \in Bus /\ st3.bus.slot = bus.slot /\ st3.bus.selected = bus.selected
      /\ st3.bus.SELECT = b1.SELECT /\ st3.bus.SLOT = b1.SLOT /\ (~quits => st3.bus.active = bus.active)
  BY <1>1, <1>5, Zenon DEF Bus
<1> QED BY <1>1, <1>2, <1>3, <1>5, <1>6, Zenon DEF Port, Quiet

\* One slot: c the card, f its file, k what the last 'G' left, r the process.  A dirty card
\* is a lossy slot's; otherwise the file, and the card while the process lives, are what was
\* acknowledged.  A file that was never made has never been written to.
SlotKept(s, c, f, k, r) ==
  /\ c.image \in Images /\ k \in Images /\ f \in Images \cup {Absent, Short}
  /\ f = Absent => k = Blank /\ (r # "down" => ~c.present)
  /\ r # "down" /\ c.dirty => c.present /\ c.image = k

NotLost(s, c, f, k, r) ==
  /\ ~(r # "down" /\ c.dirty)
  /\ s \in Enabled => /\ f = k \/ (f = Absent /\ r = "down")
                      /\ r # "down" => c.present /\ c.image = k

AckInv ==
  /\ DOMAIN acked = Ports
  /\ \A s \in Ports : /\ SlotKept(s, card[s], file[s], acked[s], run)
                      /\ s \notin lossy => NotLost(s, card[s], file[s], acked[s], run)

\* memcard_write_sector on a card that is there.
LEMMA Stored ==
  ASSUME NEW c, IsCard(c), c.present, c.image \in Images, NEW sec \in 0..(SECTORS - 1), NEW data \in Data,
         NEW d, d = memcard_write_sector(c, sec, data)
  PROVE  IsCard(d) /\ d.present /\ d.dirty /\ d.image \in Images /\ d.image[sec] = data
<1>1. d = [c EXCEPT !.image[sec] = data, !.dirty = TRUE]
  BY Zenon DEF memcard_write_sector
<1>2. d.present = c.present /\ d.dirty = TRUE /\ d.image = [c.image EXCEPT ![sec] = data]
  BY <1>1, Zenon DEF IsCard
<1>3. IsCard(d)
  BY StoreDirties, Zenon
<1>4. [c.image EXCEPT ![sec] = data] \in Images /\ [c.image EXCEPT ![sec] = data][sec] = data
  BY Zenon DEF Images
<1> QED BY <1>2, <1>3, <1>4, Zenon

\* memcard_flush touches the dirty flag and the file.
LEMMA FlushParts ==
  ASSUME NEW c, IsCard(c), NEW f, NEW out \in Outcomes
  PROVE  LET d == FlushedCard(c, out)  g == FlushedFile(c, f, out) IN
         /\ d.image = c.image /\ d.present = c.present
         /\ d.dirty => c.dirty /\ out # "ok"
         /\ ~c.dirty => g = f
         /\ c.dirty => g \in {f, Short, c.image}
         /\ c.dirty /\ out = "ok" => g = c.image /\ ~d.dirty
<1>1. /\ FlushedCard(c, out).image = c.image /\ FlushedCard(c, out).present = c.present
      /\ FlushedCard(c, out).dirty = (c.dirty /\ out # "ok")
  BY Zenon DEF IsCard, FlushedCard
<1>2. out \in {"ok", "no_open", "short", "close_error"} /\ c.dirty \in BOOLEAN
  BY CardAssumption, Zenon DEF IsCard
<1> QED BY <1>1, <1>2, Zenon DEF FlushedFile, WrittenFile

\* What a flush leaves of a slot: a card that was there and acknowledged, dirty or not.
LEMMA FlushKeeps ==
  ASSUME NEW s \in Ports, NEW c, IsCard(c), NEW f, NEW k, NEW r, NEW q, r # "down", NEW out \in Outcomes,
         SlotKept(s, c, f, k, r), ~c.dirty => out = "ok"
  PROVE  LET d == FlushedCard(c, out)  g == FlushedFile(c, f, out) IN
         /\ SlotKept(s, d, g, k, q)
         /\ c.dirty /\ out = "ok" => NotLost(s, d, g, k, q)
         /\ NotLost(s, c, f, k, r) => NotLost(s, d, g, k, q)
<1> DEFINE d == FlushedCard(c, out)
           g == FlushedFile(c, f, out)
<1>1. /\ d.image = c.image /\ d.present = c.present /\ (d.dirty => c.dirty /\ out # "ok")
      /\ (~c.dirty => g = f) /\ (c.dirty => g \in {f, Short, c.image})
      /\ (c.dirty /\ out = "ok" => g = c.image /\ ~d.dirty)
  BY FlushParts
<1>2. Absent \notin Images /\ Short \notin Images /\ Absent # Short
  BY CardAssumption, Zenon
<1> HIDE DEF d, g
<1>3. SlotKept(s, d, g, k, q)
  BY <1>1, <1>2, Zenon DEF SlotKept
<1>4. c.dirty /\ out = "ok" => NotLost(s, d, g, k, q)
  BY <1>1, <1>2, Zenon DEF SlotKept, NotLost
<1>5. NotLost(s, c, f, k, r) => NotLost(s, d, g, k, q)
  BY <1>1, <1>2, Zenon DEF SlotKept, NotLost
<1> QED BY <1>3, <1>4, <1>5, Zenon DEF d, g

\* A byte for a card: the store of MC_WRITE_CHK and its flush, or nothing.
LEMMA ToCardAck ==
  ASSUME DiskInv, AckInv, run = "up", run' = run, NEW b \in Bus, b.slot \in Ports, NEW m, IsMc(m), NEW tx,
         m.state = "WRITE_CHK" => card[b.slot].present, NEW out \in Outcomes, ToCard(b, m, tx, out)
  PROVE  /\ AckInv' /\ \A r \in Ports : card'[r].present = card[r].present
         /\ IF m.state = "WRITE_CHK" /\ Accepts(m, tx)
            THEN card'[b.slot].image[sector(m)] = m.data
            ELSE UNCHANGED card
<1> DEFINE s == b.slot
           stored == memcard_write_sector(card[s], sector(m), m.data)
<1>1. Stores([b EXCEPT !.active = "card"], m, tx) => m.state = "WRITE_CHK" /\ Accepts(m, tx)
  BY Zenon DEF Stores
<1>2. CASE UNCHANGED <<card, file, lossy, acked>> /\ ~(m.state = "WRITE_CHK" /\ Accepts(m, tx))
  BY <1>2, Zenon DEF AckInv, SlotKept, NotLost
<1>3. CASE /\ m.state = "WRITE_CHK" /\ Accepts(m, tx)
           /\ card' = [card EXCEPT ![s] = FlushedCard(stored, out)]
           /\ file' = [file EXCEPT ![s] = FlushedFile(stored, @, out)]
           /\ lossy' = IF out = "ok" THEN lossy \ {s} ELSE lossy \cup {s}
           /\ acked' = [acked EXCEPT ![s] = stored.image]
  <2>1. IsCard(card[s]) /\ card[s].present /\ card[s].image \in Images /\ m.data \in Data
        /\ file[s] \in Images \cup {Absent, Short} /\ file[s] # Absent
    BY <1>3, Zenon DEF DiskInv, CardsOK, AckInv, SlotKept, IsMc
  <2>2. sector(m) \in 0..(SECTORS - 1)
    BY <1>3, CardAssumption DEF Accepts, sector, IsMc, Bits, BYTE
  <2>3. IsCard(stored) /\ stored.present /\ stored.dirty /\ stored.image \in Images
        /\ stored.image[sector(m)] = m.data
    BY <2>1, <2>2, Stored, SMTT(60)
  <2> HIDE DEF stored
  <2> DEFINE d == FlushedCard(stored, out)
             g == FlushedFile(stored, file[s], out)
  <2>4. SlotKept(s, stored, file[s], stored.image, "up")
    BY <2>1, <2>3, Zenon DEF SlotKept
  <2>5. SlotKept(s, d, g, stored.image, "up") /\ (out = "ok" => NotLost(s, d, g, stored.image, "up"))
    BY <2>3, <2>4, FlushKeeps, Zenon
  <2>6. d.image = stored.image /\ d.present = stored.present
    BY <2>3, FlushParts, Zenon
  <2> HIDE DEF d, g
  <2>7. /\ \A r \in Ports : r # s => card'[r] = card[r] /\ file'[r] = file[r] /\ acked'[r] = acked[r]
        /\ card'[s] = d /\ file'[s] = g /\ acked'[s] = stored.image /\ DOMAIN acked' = Ports
        /\ \A r \in Ports : r # s => (r \in lossy' <=> r \in lossy)
        /\ s \in lossy' <=> out # "ok"
    BY <1>3, Zenon DEF DiskInv, CardsOK, AckInv, d, g
  <2>8. ASSUME NEW r \in Ports
        PROVE  /\ SlotKept(r, card'[r], file'[r], acked'[r], run')
               /\ r \notin lossy' => NotLost(r, card'[r], file'[r], acked'[r], run')
    <3>1. CASE r = s
      BY <2>5, <2>7, <3>1, Zenon
    <3>2. CASE r # s
      BY <2>7, <3>2, Zenon DEF AckInv
    <3> QED BY <3>1, <3>2, Zenon
  <2>9. AckInv'
    BY <2>7, <2>8, Zenon DEF AckInv
  <2>10. \A r \in Ports : card'[r].present = card[r].present
    <3>1. stored.present = card[s].present
      <4>1. stored.present \in BOOLEAN /\ card[s].present \in BOOLEAN
        BY <2>1, <2>3, Zenon DEF IsCard
      <4> QED BY <2>1, <2>3, <4>1, Zenon
    <3> QED BY <2>6, <2>7, <3>1, Zenon
  <2> QED BY <1>3, <2>3, <2>6, <2>7, <2>9, <2>10, Zenon
<1> QED BY <1>1, <1>2, <1>3 DEF ToCard, Stores

\* The port after power-on or a process's end.
LEMMA FreshPort == IsMc(FreshCard) /\ FreshCard.state = "IDLE"
<1>1. NoData \in Data
  BY DEF NoData, Data, Bits
<1>2. /\ FreshCard.state = "IDLE" /\ FreshCard.msb = 0 /\ FreshCard.lsb = 0 /\ FreshCard.data = NoData
      /\ FreshCard.idx = 0
  BY Zenon DEF FreshCard
<1>3. FreshCard = [state |-> FreshCard.state, cmd |-> FreshCard.cmd, msb |-> FreshCard.msb,
                   lsb |-> FreshCard.lsb, data |-> FreshCard.data, idx |-> FreshCard.idx,
                   chk |-> FreshCard.chk, flag |-> FreshCard.flag]
  BY Zenon DEF FreshCard
<1> QED BY <1>1, <1>2, <1>3 DEF IsMc, States, Addressing, Bits

\* A byte for the card: the move it makes, the store it may make, the transcript.
LEMMA CardByteFacts ==
  ASSUME CardInv, PortInv, AckInv, run = "up", run' = run, NEW tx, NEW out \in Outcomes,
         mc.state \in {"ADDR_MSB", "ADDR_LSB", "WRITE_DATA"} => tx \in Bits,
         NEW b, NEW m, Continues(b, m) \/ Begins(b, m), ToCard(b, m, tx, out)
  PROVE  /\ b \in Bus /\ IsMc(m) /\ IsMc(mc') /\ AckInv'
         /\ bus' \in Bus /\ bus' = [b EXCEPT !.active = "card"]
         /\ bus'.active = "card" /\ bus'.slot = b.slot /\ bus'.selected = b.selected
         /\ bus'.SLOT = b.SLOT /\ bus'.SELECT = b.SELECT
         /\ \E a : a.mc = mc' /\ a.rx = rx' /\ Moves(m, b.slot, tx, a)
         /\ \A r \in Ports : card'[r].present = card[r].present
         /\ IF m.state = "WRITE_CHK" /\ Accepts(m, tx)
            THEN card'[b.slot].image[sector(m)] = m.data
            ELSE UNCHANGED card
         /\ sent' = IF mc'.state = "IDLE" THEN <<>> ELSE Append(sent, tx)
<1>1. b \in Bus /\ IsMc(m) /\ (m.state # "IDLE" => m = mc /\ b = bus)
  BY Zenon DEF Continues, Begins, Linked, PortInv
<1>2. b.slot \in Ports
  BY <1>1, Zenon DEF Bus
<1> DEFINE a == mc_process_byte(m, b.slot, tx)
<1>3. mc' = a.mc /\ rx' = a.rx /\ bus' = [b EXCEPT !.active = "card"]
      /\ sent' = IF mc'.state = "IDLE" THEN <<>> ELSE Append(sent, tx)
  BY Zenon DEF ToCard
<1>4. card[b.slot].image \in Images
  BY <1>2, Zenon DEF AckInv, SlotKept
<1>5. m.state \in {"ADDR_MSB", "ADDR_LSB", "WRITE_DATA"} => tx \in Bits
  BY <1>1, Zenon
<1>6. IsMc(a.mc) /\ Moves(m, b.slot, tx, a)
  BY <1>1, <1>4, <1>5, ProcessMoves, Zenon
<1> HIDE DEF a
<1>7. m.state = "WRITE_CHK" => card[b.slot].present
  BY <1>1, Zenon DEF PortInv
<1>8. /\ AckInv' /\ \A r \in Ports : card'[r].present = card[r].present
      /\ IF m.state = "WRITE_CHK" /\ Accepts(m, tx)
         THEN card'[b.slot].image[sector(m)] = m.data
         ELSE UNCHANGED card
  BY <1>1, <1>2, <1>7, ToCardAck, Zenon DEF CardInv
<1>9. /\ bus' \in Bus /\ bus'.active = "card" /\ bus'.slot = b.slot /\ bus'.selected = b.selected
      /\ bus'.SLOT = b.SLOT /\ bus'.SELECT = b.SELECT
  BY <1>1, <1>3, Zenon DEF Bus
<1> QED BY <1>1, <1>3, <1>6, <1>8, <1>9, Zenon

\* A byte on the bus keeps the port and the acknowledged images in step with the cards.
LEMMA BytePort ==
  ASSUME CardInv, PortInv, AckInv, NEW tx \in TxBytes(mc), NEW out \in Outcomes, Byte(tx, out)
  PROVE  PortInv' /\ AckInv'
<1>1. /\ UNCHANGED <<run, mc_slots>> /\ run = "up"
      /\ mc.state \in {"ADDR_MSB", "ADDR_LSB", "WRITE_DATA"} => tx \in Bits
  BY ByteCases, Zenon
<1>2. ASSUME NEW b, NEW m, Continues(b, m) \/ Begins(b, m), ToCard(b, m, tx, out)
      PROVE  PortInv' /\ AckInv'
  <2>1. /\ IsMc(mc') /\ AckInv' /\ bus' \in Bus /\ bus'.active = "card" /\ bus'.slot = b.slot /\ b \in Bus
        /\ \A r \in Ports : card'[r].present = card[r].present
    BY <1>1, <1>2, CardByteFacts, Zenon
  <2>2. PICK a : a.mc = mc' /\ Moves(m, b.slot, tx, a)
    BY <1>1, <1>2, CardByteFacts, Zenon
  <2>3. mc'.state # "IDLE" => card[b.slot].present
    BY <1>2, <2>2, Zenon DEF Continues, Begins, Moves, PortInv
  <2>4. b.slot \in Ports
    BY <2>1, Zenon DEF Bus
  <2> QED BY <1>1, <2>1, <2>3, <2>4, Zenon DEF PortInv
<1>3. ASSUME mc.state = "IDLE", IsMc(mc'), mc'.state = "IDLE", UNCHANGED <<card, file, lossy, acked>>,
             NEW b, Linked(b), NEW act \in {"pad", "none"}, bus' = [b EXCEPT !.active = act]
      PROVE  PortInv' /\ AckInv'
  <2>1. bus' \in Bus
    BY <1>3, Zenon DEF Linked, Bus
  <2>2. AckInv'
    BY <1>1, <1>3, Zenon DEF AckInv, SlotKept, NotLost
  <2> QED BY <1>1, <1>3, <2>1, <2>2, Zenon DEF PortInv
<1> QED BY <1>2, <1>3, ByteCases, Zenon

\* So does every step of the card.
LEMMA PortStep == CardInv /\ PortInv /\ AckInv /\ [CardNext]_cardVars => PortInv' /\ AckInv'
<1> SUFFICES ASSUME CardInv, PortInv, AckInv, [CardNext]_cardVars PROVE PortInv' /\ AckInv'
  BY Zenon
<1>1. sio_init => PortInv'
  BY FreshPort DEF sio_init, PortInv, Bus, Ports
<1>2. ASSUME NEW tx \in TxBytes(mc), NEW out \in Outcomes, Byte(tx, out) PROVE PortInv' /\ AckInv'
  BY <1>2, BytePort, Zenon
<1>3. ASSUME NEW sel \in BOOLEAN, NEW reset \in BOOLEAN, NEW slot \in Ports, WriteCtrl(sel, slot, reset)
      PROVE  PortInv' /\ AckInv'
  <2>1. UNCHANGED <<card, file, run, acked, lossy>>
    BY <1>3, Zenon DEF WriteCtrl
  <2>2. AckInv'
    BY <2>1, Zenon DEF AckInv, SlotKept, NotLost
  <2>3. /\ bus' \in Bus /\ bus'.slot = bus.slot
        /\ \/ /\ IsMc(mc') /\ DOMAIN mc_slots' = Ports
              /\ \A s \in Ports : IsMc(mc_slots'[s]) /\ mc_slots'[s].state = "IDLE"
              /\ mc'.state = "IDLE"
           \/ UNCHANGED <<mc, mc_slots>> /\ bus'.active = bus.active
    BY <1>3, CtrlCases, Zenon
  <2> QED BY <2>1, <2>2, <2>3, Zenon DEF PortInv
<1>4. ASSUME NEW out \in [Ports -> Outcomes], PowerOn(out) PROVE PortInv' /\ AckInv'
  <2>1. /\ run = "down" /\ run' = "up" /\ sio_init /\ acked' = acked
        /\ card' = [s \in Ports |-> memcard_init_slot(s, out[s])]
        /\ file' = [s \in Ports |-> memcard_create(s, out[s])]
        /\ lossy' = {s \in Enabled : IF Creates(s) THEN out[s] # "ok" ELSE s \in lossy}
    BY <1>4, Zenon DEF PowerOn
  <2>2. ASSUME NEW s \in Ports
        PROVE  /\ SlotKept(s, card'[s], file'[s], acked'[s], run')
               /\ s \notin lossy' => NotLost(s, card'[s], file'[s], acked'[s], run')
    <3>1. /\ card'[s].image = IF file[s] \in Images THEN file[s] ELSE Blank
          /\ card'[s].present = (s \in Enabled /\ (file[s] \in Images \/ (file[s] = Absent /\ out[s] = "ok")))
          /\ card'[s].dirty = FALSE
          /\ ~Creates(s) => file'[s] = file[s]
          /\ Creates(s) => file'[s] = WrittenFile(Blank, file[s], out[s])
      BY <2>1, Zenon DEF memcard_init_slot, memcard_create
    <3>2. /\ SlotKept(s, card[s], file[s], acked[s], "down")
          /\ s \notin lossy => NotLost(s, card[s], file[s], acked[s], "down")
      BY <2>1, Zenon DEF AckInv
    <3>3. Absent \notin Images /\ Short \notin Images /\ Blank \in Images /\ Absent # Short
      BY CardAssumption, Zenon
    <3>6. CASE Creates(s)
      <4>1. /\ file'[s] \in {Absent, Short, Blank} /\ (out[s] = "ok" => file'[s] = Blank)
            /\ s \notin lossy' => out[s] = "ok"
        <5>1. out[s] \in {"ok", "no_open", "short", "close_error"}
          BY CardAssumption, Zenon
        <5> QED BY <2>1, <3>1, <3>6, <5>1, Zenon DEF WrittenFile, Creates
      <4>2. file[s] = Absent /\ s \in Enabled
        BY <3>6, Zenon DEF Creates
      <4> QED BY <2>1, <3>1, <3>2, <3>3, <4>1, <4>2, Zenon DEF SlotKept, NotLost
    <3>7. CASE ~Creates(s)
      <4>1. s \in Enabled => file[s] # Absent /\ (s \notin lossy' => s \notin lossy)
        BY <2>1, <3>7, Zenon DEF Creates
      <4> QED BY <2>1, <3>1, <3>2, <3>3, <3>7, <4>1, Zenon DEF SlotKept, NotLost
    <3>4. SlotKept(s, card'[s], file'[s], acked'[s], run')
      BY <3>6, <3>7, Zenon
    <3>5. s \notin lossy' => NotLost(s, card'[s], file'[s], acked'[s], run')
      BY <3>6, <3>7, Zenon
    <3> QED BY <3>4, <3>5, Zenon
  <2>3. AckInv'
    BY <2>1, <2>2, Zenon DEF AckInv
  <2> QED BY <1>1, <2>1, <2>3, Zenon
<1>5. ASSUME NEW out \in [Ports -> Outcomes], Shutdown(out) \/ AtExit(out) PROVE PortInv' /\ AckInv'
  <2>1. /\ run # "down" /\ FlushAll(out) /\ sio_init /\ acked' = acked
    BY <1>5, Zenon DEF Shutdown, AtExit
  <2>2. ASSUME NEW s \in Ports
        PROVE  /\ SlotKept(s, card'[s], file'[s], acked'[s], run')
               /\ s \notin lossy' => NotLost(s, card'[s], file'[s], acked'[s], run')
    <3>1. /\ card'[s] = FlushedCard(card[s], out[s]) /\ file'[s] = FlushedFile(card[s], file[s], out[s])
          /\ ~card[s].dirty => out[s] = "ok"
          /\ s \notin lossy' => s \notin lossy \/ (card[s].dirty /\ out[s] = "ok")
      BY <2>1, Zenon DEF FlushAll
    <3>2. IsCard(card[s]) /\ out[s] \in Outcomes
      BY Zenon DEF CardInv, DiskInv, CardsOK
    <3>3. /\ SlotKept(s, card[s], file[s], acked[s], run)
          /\ s \notin lossy => NotLost(s, card[s], file[s], acked[s], run)
      BY Zenon DEF AckInv
    <3> QED BY <2>1, <3>1, <3>2, <3>3, FlushKeeps
  <2>3. AckInv'
    BY <2>1, <2>2, Zenon DEF AckInv
  <2> QED BY <1>1, <2>1, <2>3, Zenon
<1>6. CASE Crash
  <2>1. \A s \in Ports : card'[s] = NoCard
    BY <1>6, Zenon DEF Crash
  <2>2. AckInv'
    BY <1>6, <2>1, CardAssumption, Zenon DEF Crash, AckInv, SlotKept, NotLost, NoCard
  <2> QED BY <1>1, <1>6, <2>2, Zenon DEF Crash
<1>7. ASSUME NEW s \in Enabled, NEW out \in Outcomes, memcard_format_file(s, out) PROVE PortInv' /\ AckInv'
  <2>1. /\ run = "down" /\ UNCHANGED <<card, run, bus, mc, mc_slots>> /\ s \in Ports
        /\ file' = [file EXCEPT ![s] = WrittenFile(Blank, @, out)]
        /\ acked' = IF out = "no_open" THEN acked ELSE [acked EXCEPT ![s] = Blank]
        /\ DOMAIN acked' = Ports
    BY <1>7, CardAssumption, Zenon DEF memcard_format_file, AckInv
  <2>2. PortInv'
    BY <2>1, Zenon DEF PortInv
  <2>3. /\ out \in {"ok", "no_open", "short", "close_error"} /\ Blank \in Images
        /\ Absent \notin Images /\ Absent # Short
    BY CardAssumption, Zenon
  <2>4. /\ out = "no_open" => file'[s] = file[s] /\ acked'[s] = acked[s] /\ lossy' = lossy
        /\ out = "ok" => file'[s] = Blank /\ acked'[s] = Blank /\ lossy' = lossy \ {s}
        /\ out \in {"short", "close_error"} =>
             file'[s] \in {Short, Blank} /\ acked'[s] = Blank /\ lossy' = lossy \cup {s}
    <3>1. file'[s] = WrittenFile(Blank, file[s], out) /\ (out # "no_open" => acked'[s] = Blank)
      BY <2>1, Zenon DEF CardInv, DiskInv, CardsOK, AckInv
    <3>2. lossy' = CASE out = "no_open" -> lossy
                     [] out = "ok" -> lossy \ {s}
                     [] out \in {"short", "close_error"} -> lossy \cup {s}
      BY <1>7, Zenon DEF memcard_format_file
    <3>3. CASE out = "no_open"
      BY <2>1, <3>1, <3>2, <3>3, Zenon DEF WrittenFile
    <3>4. CASE out = "ok"
      BY <3>1, <3>2, <3>4, Zenon DEF WrittenFile
    <3>5. CASE out \in {"short", "close_error"}
      BY <3>1, <3>2, <3>5, Zenon DEF WrittenFile
    <3> QED BY <2>3, <3>3, <3>4, <3>5, Zenon
  <2>5. ASSUME NEW q \in Ports
        PROVE  /\ SlotKept(q, card'[q], file'[q], acked'[q], run')
               /\ q \notin lossy' => NotLost(q, card'[q], file'[q], acked'[q], run')
    <3>1. /\ SlotKept(q, card[q], file[q], acked[q], "down")
          /\ q \notin lossy => NotLost(q, card[q], file[q], acked[q], "down")
      BY <2>1, Zenon DEF AckInv
    <3>2. CASE q # s
      <4>1. file'[q] = file[q] /\ acked'[q] = acked[q] /\ (q \notin lossy' => q \notin lossy)
        BY <2>1, <2>3, <2>4, <3>2, Zenon DEF CardInv, DiskInv, CardsOK, AckInv
      <4> QED BY <2>1, <3>1, <4>1, Zenon
    <3>3. CASE q = s /\ out = "no_open"
      BY <2>1, <2>4, <3>1, <3>3, Zenon
    <3>4. CASE q = s /\ out = "ok"
      BY <2>1, <2>3, <2>4, <3>1, <3>4, Zenon DEF SlotKept, NotLost
    <3>5. CASE q = s /\ out \in {"short", "close_error"}
      BY <2>1, <2>3, <2>4, <3>1, <3>5, Zenon DEF SlotKept
    <3> QED BY <2>3, <3>2, <3>3, <3>4, <3>5, Zenon
  <2>6. AckInv'
    BY <2>1, <2>5, Zenon DEF AckInv
  <2> QED BY <2>2, <2>6, Zenon
<1>8. CASE UNCHANGED cardVars
  BY <1>8, Zenon DEF cardVars, PortInv, AckInv
<1> QED BY <1>2, <1>3, <1>4, <1>5, <1>6, <1>7, <1>8, Zenon DEF CardNext

\* They are in step initially.
LEMMA PortStart == CardInit => PortInv /\ AckInv
<1> SUFFICES ASSUME CardInit PROVE PortInv /\ AckInv
  BY Zenon
<1>1. PortInv
  BY FreshPort DEF CardInit, PortInv, Bus, Ports
<1>2. AckInv
  BY CardAssumption, Zenon DEF CardInit, AckInv, SlotKept, NotLost, NoCard
<1> QED BY <1>1, <1>2, Zenon

\* A slot whose last flush worked, and whose file was made without an error, has, in this run
\* of the program and in every later one, the card as its last accepted write left it: for
\* every card size, any use of the port, and any failed open, short write, failed close or
\* death of the process, in a flush or while the file is made.
THEOREM GoodAlwaysSurvives == CardSpec => []GoodSurvives
<1>1. AckInv => GoodSurvives
  BY CardAssumption, Zenon DEF AckInv, NotLost, GoodSurvives
<1> QED BY <1>1, CardStart, CardStep, PortStart, PortStep, PTL DEF CardSpec

\* How many bytes n the guest has sent in each state of a transaction that may end in a write.
Place(m, n) ==
  /\ m.state = "IDLE" => n = 0
  /\ m.state = "CMD" => n = 1
  /\ m.state = "ID1" => n = 2
  /\ m.state = "ID2" => n = 3
  /\ m.state = "ADDR_MSB" => n = 4
  /\ m.state = "ADDR_LSB" => n = 5
  /\ m.state = "WRITE_DATA" => n = 6 + m.idx /\ m.idx < LEN
  /\ m.state = "WRITE_CHK" => n = 6 + LEN
  /\ m.state = "WRITE_ACK1" => n = 7 + LEN
  /\ m.state = "WRITE_ACK2" => n = 8 + LEN
  /\ m.state = "WRITE_END" => n = 9 + LEN

\* What the card holds of the transcript q: the address, and the data so far.
Heard(m, q) ==
  /\ m.state = "ADDR_LSB" => q[5] = m.msb
  /\ m.state \in {"WRITE_DATA", "WRITE_CHK"} \cup Ending => q[5] = m.msb /\ q[6] = m.lsb
  /\ m.state = "WRITE_DATA" => \A i \in 1..m.idx : m.data[i] = q[6 + i]
  /\ m.state \in {"WRITE_CHK"} \cup Ending => \A i \in 1..LEN : m.data[i] = q[6 + i]

\* A write that will end in 'G' is in the image c already, and its checksum was right.
Kept(m, q, c) ==
  m.state \in Ending /\ m.chk = Good =>
    sector(m) < SECTORS /\ c.image[sector(m)] = m.data /\ q[LEN + 7] = Checksum(m)

SentInv ==
  /\ sent \in Seq(Nat) /\ Place(mc, Len(sent)) /\ Heard(mc, sent)
  /\ Kept(mc, sent, card[bus.slot])
  /\ mc.state = "WRITE_END" => rx # Good

\* The entries of a sequence one longer.
LEMMA AppendParts ==
  ASSUME NEW q \in Seq(Nat), NEW x \in Nat, NEW r, r = Append(q, x)
  PROVE  /\ r \in Seq(Nat) /\ Len(q) \in Nat /\ Len(r) = Len(q) + 1 /\ r[Len(q) + 1] = x
         /\ \A i \in 1..Len(q) : r[i] = q[i]
  OBVIOUS

\* Small numbers and their successors.
LEMMA OneMore ==
  \A k, l : k \in Nat /\ l = k + 1 =>
    (k = 0 => l = 1) /\ (k = 1 => l = 2) /\ (k = 2 => l = 3) /\ (k = 3 => l = 4)
  OBVIOUS

\* Sector and checksum depend on the address and the data only.
LEMMA SectorSame ==
  ASSUME NEW m, NEW n, n.msb = m.msb, n.lsb = m.lsb, n.data = m.data
  PROVE  sector(n) = sector(m) /\ Checksum(n) = Checksum(m)
  BY Zenon DEF sector, Checksum

\* One byte more of the transaction: where it is, and what the card has heard.
LEMMA HeardMoves ==
  ASSUME NEW m, IsMc(m), NEW s, NEW tx \in Nat, NEW a, IsMc(a.mc), Moves(m, s, tx, a), NEW q \in Seq(Nat),
         Place(m, Len(q)), Heard(m, q), a.mc.state # "IDLE", NEW r, r = Append(q, tx)
  PROVE  Place(a.mc, Len(r)) /\ Heard(a.mc, r)
<1>1. /\ Len(q) \in Nat /\ Len(r) = Len(q) + 1 /\ r[Len(q) + 1] = tx
      /\ \A i \in 1..Len(q) : r[i] = q[i]
  BY AppendParts, SMTT(60)
<1>2. LEN \in Nat /\ LEN > 0
  BY CardAssumption
<1>3. m.idx \in Nat /\ m.data \in [1..LEN -> Bits] /\ m.state \in States
  BY Zenon DEF IsMc, Data
<1>4. CASE m.state \in Addressing
  <2>1. CASE m.state \in {"IDLE", "CMD", "ID1", "ID2"}
    <3>1. \/ m.state = "IDLE" /\ a.mc.state = "CMD" /\ Len(q) = 0
          \/ m.state = "CMD" /\ a.mc.state = "ID1" /\ Len(q) = 1
          \/ m.state = "ID1" /\ a.mc.state = "ID2" /\ Len(q) = 2
          \/ m.state = "ID2" /\ a.mc.state = "ADDR_MSB" /\ Len(q) = 3
          \/ a.mc.state \in Answering
      BY <2>1, Zenon DEF Moves, Place
    <3>2. \/ a.mc.state = "CMD" /\ Len(r) = 1
          \/ a.mc.state = "ID1" /\ Len(r) = 2
          \/ a.mc.state = "ID2" /\ Len(r) = 3
          \/ a.mc.state = "ADDR_MSB" /\ Len(r) = 4
          \/ a.mc.state \in Answering
      <4>1. /\ Len(q) = 0 => Len(r) = 1
            /\ Len(q) = 1 => Len(r) = 2
            /\ Len(q) = 2 => Len(r) = 3
            /\ Len(q) = 3 => Len(r) = 4
        BY <1>1, OneMore, ZenonT(60)
      <4> HIDE DEF Answering
      <4> QED BY <3>1, <4>1, Zenon
    <3>3. Place(a.mc, Len(r)) /\ Heard(a.mc, r)
      BY <3>2, Zenon DEF Place, Heard, Answering, Ending
    <3> QED BY <3>3, Zenon
  <2>2. CASE m.state = "ADDR_MSB"
    <3>1. a.mc.state = "ADDR_LSB" /\ a.mc.msb = tx /\ Len(q) = 4
      BY <2>2, Zenon DEF Moves, Place
    <3>2. Place(a.mc, Len(r))
      BY <1>1, <3>1 DEF Place
    <3>3. Heard(a.mc, r)
      BY <1>1, <3>1 DEF Heard, Ending
    <3> QED BY <3>2, <3>3, Zenon
  <2>3. CASE m.state = "ADDR_LSB"
    <3>1. /\ Len(q) = 5 /\ q[5] = m.msb
          /\ \/ a.mc.state \in Answering
             \/ a.mc.state = "WRITE_DATA" /\ a.mc.msb = m.msb /\ a.mc.lsb = tx /\ a.mc.idx = 0
      BY <2>3, Zenon DEF Moves, Place, Heard
    <3>2. r[5] = m.msb /\ r[6] = tx /\ Len(r) = 6
      BY <1>1, <3>1
    <3>3. Place(a.mc, Len(r))
      BY <1>2, <3>1, <3>2 DEF Place, Answering
    <3>4. Heard(a.mc, r)
      BY <3>1, <3>2 DEF Heard, Answering, Ending
    <3> QED BY <3>3, <3>4, Zenon
  <2> QED BY <1>4, <2>1, <2>2, <2>3, Zenon DEF Addressing
<1>5. CASE m.state \in Answering
  BY <1>5, Zenon DEF Moves, Place, Heard, Answering, Ending
<1>6. CASE m.state = "WRITE_DATA"
  <2>1. /\ a.mc.msb = m.msb /\ a.mc.lsb = m.lsb /\ a.mc.idx = m.idx + 1
        /\ a.mc.data = [m.data EXCEPT ![m.idx + 1] = tx]
        /\ a.mc.state = IF m.idx + 1 >= LEN THEN "WRITE_CHK" ELSE "WRITE_DATA"
    BY <1>6, Zenon DEF Moves
  <2>2. /\ Len(q) = 6 + m.idx /\ m.idx < LEN /\ q[5] = m.msb /\ q[6] = m.lsb
        /\ \A i \in 1..m.idx : m.data[i] = q[6 + i]
    BY <1>6, Zenon DEF Place, Heard
  <2>3. r[5] = m.msb /\ r[6] = m.lsb
    BY <1>1, <1>3, <2>2, SMTT(60)
  <2>4. \A i \in 1..(m.idx + 1) : a.mc.data[i] = r[6 + i]
    <3> SUFFICES ASSUME NEW i \in 1..(m.idx + 1) PROVE a.mc.data[i] = r[6 + i]
      BY Zenon
    <3>1. CASE i = m.idx + 1
      <4>1. i \in 1..LEN /\ 6 + i = Len(q) + 1
        <5>1. \A k, l \in Nat : k < l => k + 1 \in 1..l /\ 6 + (k + 1) = (6 + k) + 1
          OBVIOUS
        <5> QED BY <1>2, <1>3, <2>2, <3>1, <5>1, Zenon
      <4>2. a.mc.data[i] = tx
        BY <1>3, <2>1, <3>1, <4>1, Zenon
      <4> QED BY <1>1, <4>1, <4>2, Zenon
    <3>2. CASE i # m.idx + 1
      <4>1. i \in 1..m.idx /\ i \in 1..LEN /\ 6 + i \in 1..Len(q) /\ m.idx + 1 \in 1..LEN
        <5>1. \A k, l \in Nat : \A j \in 1..(k + 1) :
                k < l /\ j # k + 1 => /\ j \in 1..k /\ j \in 1..l /\ 6 + j \in 1..(6 + k)
                                      /\ k + 1 \in 1..l
          OBVIOUS
        <5> QED BY <1>2, <1>3, <2>2, <3>2, <5>1, Zenon
      <4> QED BY <1>1, <1>3, <2>1, <2>2, <3>2, <4>1, Zenon
    <3> QED BY <3>1, <3>2, Zenon
  <2>5. m.idx + 1 >= LEN => m.idx + 1 = LEN
    BY <1>2, <1>3, <2>2, SMTT(60)
  <2>6. Place(a.mc, Len(r))
    <3>1. Len(r) = 6 + a.mc.idx /\ (m.idx + 1 >= LEN => Len(r) = 6 + LEN)
          /\ (~(m.idx + 1 >= LEN) => a.mc.idx < LEN)
      <4>1. \A k, l \in Nat : k < l => /\ (6 + k) + 1 = 6 + (k + 1)
                                       /\ k + 1 >= l => (6 + k) + 1 = 6 + l
                                       /\ ~(k + 1 >= l) => k + 1 < l
        OBVIOUS
      <4>2. Len(r) = (6 + m.idx) + 1 /\ a.mc.idx = m.idx + 1
        BY <1>1, <2>1, <2>2, Zenon
      <4> QED BY <1>2, <1>3, <2>2, <4>1, <4>2, Zenon
    <3> QED BY <2>1, <3>1, Zenon DEF Place
  <2>7. Heard(a.mc, r)
    BY <2>1, <2>3, <2>4, <2>5, Zenon DEF Heard, Ending
  <2> QED BY <2>6, <2>7, Zenon
<1>7. CASE m.state \in {"WRITE_CHK", "WRITE_ACK1", "WRITE_ACK2"}
  <2>1. /\ a.mc.msb = m.msb /\ a.mc.lsb = m.lsb /\ a.mc.data = m.data
        /\ m.state = "WRITE_CHK" => a.mc.state = "WRITE_ACK1"
        /\ m.state = "WRITE_ACK1" => a.mc.state = "WRITE_ACK2"
        /\ m.state = "WRITE_ACK2" => a.mc.state = "WRITE_END"
    BY <1>7, Zenon DEF Moves, Same
  <2>2. /\ Len(q) \in {6 + LEN, 7 + LEN, 8 + LEN} /\ q[5] = m.msb /\ q[6] = m.lsb
        /\ \A i \in 1..LEN : m.data[i] = q[6 + i]
    BY <1>7, Zenon DEF Place, Heard, Ending
  <2>3. r[5] = m.msb /\ r[6] = m.lsb /\ \A i \in 1..LEN : m.data[i] = r[6 + i]
    <3>1. 5 \in 1..Len(q) /\ 6 \in 1..Len(q) /\ \A i \in 1..LEN : 6 + i \in 1..Len(q)
      <4>1. \A l, n \in Nat : n \in {6 + l, 7 + l, 8 + l} =>
              5 \in 1..n /\ 6 \in 1..n /\ \A i \in 1..l : 6 + i \in 1..n
        OBVIOUS
      <4> QED BY <1>1, <1>2, <2>2, <4>1, Zenon
    <3> QED BY <1>1, <2>2, <3>1, Zenon
  <2>4. Place(a.mc, Len(r))
    BY <1>1, <1>2, <1>7, <2>1 DEF Place
  <2> QED BY <1>7, <2>1, <2>3, <2>4, Zenon DEF Heard, Ending
<1>8. CASE m.state = "WRITE_END"
  BY <1>8, Zenon DEF Moves
<1> QED BY <1>3, <1>4, <1>5, <1>6, <1>7, <1>8, Zenon DEF States, Ending

\* A byte keeps a promised 'G' good: the card c becomes d.
LEMMA KeptMoves ==
  ASSUME NEW m, IsMc(m), NEW s, NEW tx \in Nat, NEW a, Moves(m, s, tx, a), NEW q \in Seq(Nat),
         Place(m, Len(q)), NEW r, r = Append(q, tx), NEW c, NEW d, Kept(m, q, c),
         m.state = "WRITE_CHK" /\ Accepts(m, tx) => d.image[sector(m)] = m.data,
         m.state # "WRITE_CHK" => d = c
  PROVE  Kept(a.mc, r, d) /\ (a.mc.state = "WRITE_END" => a.rx # Good)
<1>1. /\ Len(q) \in Nat /\ r[Len(q) + 1] = tx /\ \A i \in 1..Len(q) : r[i] = q[i]
  BY AppendParts
<1>2. LEN \in Nat /\ LEN > 0
  BY CardAssumption
<1>3. m.state \in States
  BY Zenon DEF IsMc
<1>4. a.mc.state \in Ending => m.state \in {"WRITE_CHK", "WRITE_ACK1", "WRITE_ACK2"}
  BY <1>3, Zenon DEF Moves, States, Addressing, Answering, Ending
<1>5. a.mc.state = "WRITE_END" => a.rx # Good
  BY <1>3, SMTT(60) DEF Moves, States, Addressing, Answering, Ending, Good
<1>6. ASSUME m.state = "WRITE_CHK" PROVE Kept(a.mc, r, d)
  <2>1. /\ a.mc.msb = m.msb /\ a.mc.lsb = m.lsb /\ a.mc.data = m.data
        /\ a.mc.chk = Good => Accepts(m, tx)
    BY <1>6, Zenon DEF Moves
  <2>2. sector(a.mc) = sector(m) /\ Checksum(a.mc) = Checksum(m)
    BY <2>1, SectorSame, Zenon
  <2>3. r[LEN + 7] = tx
    BY <1>1, <1>2, <1>6, SMTT(60) DEF Place
  <2> QED BY <1>6, <2>1, <2>2, <2>3, Zenon DEF Kept, Accepts
<1>7. ASSUME m.state \in {"WRITE_ACK1", "WRITE_ACK2"} PROVE Kept(a.mc, r, d)
  <2>1. a.mc.msb = m.msb /\ a.mc.lsb = m.lsb /\ a.mc.data = m.data /\ a.mc.chk = m.chk
    BY <1>7, Zenon DEF Moves, Same
  <2>2. sector(a.mc) = sector(m) /\ Checksum(a.mc) = Checksum(m)
    BY <2>1, SectorSame, Zenon
  <2>3. r[LEN + 7] = q[LEN + 7]
    BY <1>1, <1>2, <1>7 DEF Place
  <2> QED BY <1>7, <2>1, <2>2, <2>3, Zenon DEF Kept, Ending
<1> QED BY <1>4, <1>5, <1>6, <1>7, Zenon DEF Kept

\* An idle port has an empty transcript to answer for.
LEMMA IdleSent ==
  ASSUME NEW m, m.state = "IDLE", NEW c PROVE Place(m, 0) /\ Heard(m, << >>) /\ Kept(m, << >>, c)
  BY Zenon DEF Place, Heard, Kept, Ending

\* A byte keeps the record of the bytes sent in step with the protocol state.
LEMMA ByteSent ==
  ASSUME CardInv, PortInv, AckInv, SentInv, NEW tx \in TxBytes(mc), NEW out \in Outcomes, Byte(tx, out)
  PROVE  SentInv'
<1>1. /\ run = "up" /\ run' = run /\ tx \in Nat
      /\ mc.state \in {"ADDR_MSB", "ADDR_LSB", "WRITE_DATA"} => tx \in Bits
  BY ByteCases, Zenon
<1>2. ASSUME NEW b, NEW m, Continues(b, m) \/ Begins(b, m), ToCard(b, m, tx, out) PROVE SentInv'
  <2>1. /\ b \in Bus /\ IsMc(m) /\ IsMc(mc') /\ bus'.slot = b.slot
        /\ IF m.state = "WRITE_CHK" /\ Accepts(m, tx)
           THEN card'[b.slot].image[sector(m)] = m.data
           ELSE UNCHANGED card
        /\ sent' = IF mc'.state = "IDLE" THEN <<>> ELSE Append(sent, tx)
    BY <1>1, <1>2, CardByteFacts, ZenonT(60)
  <2>2. PICK a : a.mc = mc' /\ a.rx = rx' /\ Moves(m, b.slot, tx, a)
    BY <1>1, <1>2, CardByteFacts, Zenon
  <2>3. Place(m, Len(sent)) /\ Heard(m, sent) /\ Kept(m, sent, card[b.slot]) /\ sent \in Seq(Nat)
    <3>1. CASE Continues(b, m)
      BY <3>1, Zenon DEF Continues, SentInv
    <3>2. CASE Begins(b, m)
      <4>1. m.state = "IDLE" /\ mc.state = "IDLE"
        BY <3>2, Zenon DEF Begins
      <4>2. Len(sent) = 0 /\ sent \in Seq(Nat)
        BY <4>1, Zenon DEF SentInv, Place
      <4>3. sent = << >>
        BY <4>2
      <4> QED BY <4>1, <4>2, <4>3, IdleSent, Zenon
    <3> QED BY <1>2, <3>1, <3>2, Zenon
  <2>4. CASE mc'.state = "IDLE"
    <3>1. sent' = << >> /\ Len(sent') = 0 /\ sent' \in Seq(Nat)
      BY <2>1, <2>4
    <3> QED BY <2>4, <3>1, IdleSent, Zenon DEF SentInv
  <2>5. CASE mc'.state # "IDLE"
    <3>1. sent' = Append(sent, tx) /\ sent' \in Seq(Nat)
      BY <1>1, <2>1, <2>3, <2>5, SMTT(60)
    <3>2. Place(mc', Len(sent')) /\ Heard(mc', sent')
      BY <1>1, <2>1, <2>2, <2>3, <2>5, <3>1, HeardMoves, Zenon
    <3>3. IF m.state = "WRITE_CHK" /\ Accepts(m, tx)
          THEN card'[b.slot].image[sector(m)] = m.data
          ELSE card'[b.slot] = card[b.slot]
      BY <2>1, Zenon
    <3>4. Kept(mc', sent', card'[b.slot]) /\ (mc'.state = "WRITE_END" => rx' # Good)
      <4>1. PICK r, d, c, q : r = sent' /\ d = card'[b.slot] /\ c = card[b.slot] /\ q = sent
        BY Zenon
      <4>2. /\ IsMc(m) /\ tx \in Nat /\ Moves(m, b.slot, tx, a) /\ r = Append(q, tx)
            /\ q \in Seq(Nat) /\ Place(m, Len(q)) /\ Kept(m, q, c)
        BY <1>1, <2>1, <2>2, <2>3, <3>1, <4>1, Zenon
      <4>3. /\ m.state = "WRITE_CHK" /\ Accepts(m, tx) => d.image[sector(m)] = m.data
            /\ m.state # "WRITE_CHK" => d = c
        BY <3>3, <4>1, Zenon
      <4>4. Kept(a.mc, r, d) /\ (a.mc.state = "WRITE_END" => a.rx # Good)
        BY <4>2, <4>3, KeptMoves, Zenon
      <4> QED BY <2>2, <4>1, <4>4, Zenon
    <3> QED BY <2>1, <3>1, <3>2, <3>4, Zenon DEF SentInv
  <2> QED BY <2>4, <2>5, Zenon
<1>3. ASSUME mc.state = "IDLE", mc'.state = "IDLE", UNCHANGED sent PROVE SentInv'
  <2>1. sent = << >> /\ Len(sent') = 0 /\ sent' \in Seq(Nat)
    <3>1. Len(sent) = 0 /\ sent \in Seq(Nat)
      BY <1>3, Zenon DEF SentInv, Place
    <3> QED BY <1>3, <3>1
  <2> QED BY <1>3, <2>1, IdleSent, Zenon DEF SentInv
<1> QED BY <1>2, <1>3, ByteCases, Zenon

\* So does every step of the card.
LEMMA SentStep == CardInv /\ PortInv /\ AckInv /\ SentInv /\ [CardNext]_cardVars => SentInv'
<1> SUFFICES ASSUME CardInv, PortInv, AckInv, SentInv, [CardNext]_cardVars PROVE SentInv'
  BY Zenon
<1>1. ASSUME sent' = << >>, mc'.state = "IDLE" PROVE SentInv'
  <2>1. Len(sent') = 0 /\ sent' \in Seq(Nat)
    BY <1>1
  <2> QED BY <1>1, <2>1, IdleSent, Zenon DEF SentInv
<1>2. sio_init => SentInv'
  BY <1>1, FreshPort, Zenon DEF sio_init
<1>3. ASSUME NEW tx \in TxBytes(mc), NEW out \in Outcomes, Byte(tx, out) PROVE SentInv'
  BY <1>3, ByteSent, Zenon
<1>4. ASSUME NEW sel \in BOOLEAN, NEW reset \in BOOLEAN, NEW slot \in Ports, WriteCtrl(sel, slot, reset)
      PROVE  SentInv'
  <2>1. UNCHANGED <<card, rx>> /\ sent' = IF mc'.state = "IDLE" THEN <<>> ELSE sent
    BY <1>4, Zenon DEF WriteCtrl
  <2>2. bus'.slot = bus.slot /\ (mc'.state = "IDLE" \/ UNCHANGED mc)
    BY <1>4, CtrlCases, Zenon
  <2>3. CASE mc'.state # "IDLE"
    BY <2>1, <2>2, <2>3, Zenon DEF SentInv
  <2> QED BY <1>1, <2>1, <2>3, Zenon
<1>5. ASSUME NEW out \in [Ports -> Outcomes], PowerOn(out) PROVE SentInv'
  BY <1>2, <1>5, Zenon DEF PowerOn
<1>6. ASSUME NEW out \in [Ports -> Outcomes], Shutdown(out) \/ AtExit(out) PROVE SentInv'
  BY <1>2, <1>6, Zenon DEF Shutdown, AtExit
<1>7. CASE Crash
  BY <1>2, <1>7, Zenon DEF Crash
<1>8. ASSUME NEW s \in Enabled, NEW out \in Outcomes, memcard_format_file(s, out) PROVE SentInv'
  BY <1>8, Zenon DEF memcard_format_file, SentInv
<1>9. CASE UNCHANGED cardVars
  BY <1>9, Zenon DEF cardVars, SentInv
<1> QED BY <1>3, <1>4, <1>5, <1>6, <1>7, <1>8, <1>9, Zenon DEF CardNext

\* A disciplined guest's open transaction is with the slot SLOT names.
SlotInv ==
  /\ bus.active # "none" => bus.SELECT /\ bus.selected = bus.SLOT
  /\ mc.state # "IDLE" => bus.slot = bus.SLOT

\* Under the discipline every step keeps the open transaction with that slot.
LEMMA SlotStep ==
  Disciplined /\ CardInv /\ PortInv /\ AckInv /\ SlotInv /\ [CardNext]_cardVars => SlotInv'
<1> SUFFICES ASSUME Disciplined, CardInv, PortInv, AckInv, SlotInv, [CardNext]_cardVars PROVE SlotInv'
  BY Zenon
<1>1. sio_init => SlotInv'
  BY FreshPort DEF sio_init, SlotInv
<1>2. ASSUME NEW tx \in TxBytes(mc), NEW out \in Outcomes, Byte(tx, out) PROVE SlotInv'
  <2>1. /\ run = "up" /\ run' = run /\ bus.SELECT
        /\ mc.state \in {"ADDR_MSB", "ADDR_LSB", "WRITE_DATA"} => tx \in Bits
    BY <1>2, ByteCases, Zenon
  <2>2. ASSUME NEW b, NEW m, Continues(b, m) \/ Begins(b, m), ToCard(b, m, tx, out) PROVE SlotInv'
    <3>1. /\ bus'.slot = b.slot /\ bus'.selected = b.selected
          /\ bus'.SLOT = b.SLOT /\ bus'.SELECT = b.SELECT
      BY <2>1, <2>2, CardByteFacts, Zenon
    <3>2. b.SELECT = bus.SELECT /\ b.SLOT = bus.SLOT /\ b.selected = bus.SLOT /\ b.slot = bus.SLOT
      BY <2>2, Zenon DEF Continues, Begins, Linked, SlotInv, PortInv
    <3> QED BY <2>1, <3>1, <3>2, Zenon DEF SlotInv
  <2>3. ASSUME mc'.state = "IDLE", NEW b, Linked(b), NEW act, bus' = [b EXCEPT !.active = act] PROVE SlotInv'
    <3>1. bus'.SELECT = bus.SELECT /\ bus'.SLOT = bus.SLOT /\ bus'.selected = bus.SLOT
      BY <2>3, Zenon DEF Linked, SlotInv, Bus
    <3> QED BY <2>1, <2>3, <3>1, Zenon DEF SlotInv
  <2> QED BY <1>2, <2>2, <2>3, ByteCases, Zenon
<1>3. ASSUME NEW sel \in BOOLEAN, NEW reset \in BOOLEAN, NEW slot \in Ports, WriteCtrl(sel, slot, reset)
      PROVE  SlotInv'
  <2>1. slot = bus.SLOT \/ ~sel \/ ~bus.SELECT
    BY <1>3, Zenon DEF WriteCtrl
  <2> DEFINE quits == reset \/ (bus.SELECT /\ ~sel)
  <2>2. /\ bus'.slot = bus.slot /\ bus'.selected = bus.selected
        /\ bus'.SELECT = (sel /\ ~reset) /\ bus'.SLOT = IF reset THEN 0 ELSE slot
        /\ quits => mc'.state = "IDLE" /\ bus'.active = "none"
        /\ ~quits => UNCHANGED <<mc, mc_slots>> /\ bus'.active = bus.active
    BY <1>3, CtrlCases, Zenon
  <2>3. CASE quits
    BY <2>2, <2>3, Zenon DEF SlotInv
  <2>4. CASE ~quits
    <3>1. ~reset /\ bus'.SLOT = slot /\ bus'.active = bus.active /\ mc' = mc
      BY <2>2, <2>4, Zenon
    <3>2. bus.active # "none" => bus.SELECT /\ sel /\ slot = bus.SLOT
      BY <2>1, <2>4, Zenon DEF SlotInv
    <3>3. mc.state # "IDLE" => bus.active # "none"
      BY Zenon DEF PortInv
    <3>4. bus.active # "none" => bus'.SELECT
      BY <2>2, <3>1, <3>2, Zenon
    <3> QED BY <2>2, <3>1, <3>2, <3>3, <3>4, Zenon DEF SlotInv
  <2> QED BY <2>3, <2>4, Zenon
<1>4. ASSUME NEW out \in [Ports -> Outcomes], PowerOn(out) PROVE SlotInv'
  BY <1>1, <1>4, Zenon DEF PowerOn
<1>5. ASSUME NEW out \in [Ports -> Outcomes], Shutdown(out) \/ AtExit(out) PROVE SlotInv'
  BY <1>1, <1>5, Zenon DEF Shutdown, AtExit
<1>6. CASE Crash
  BY <1>1, <1>6, Zenon DEF Crash
<1>7. ASSUME NEW s \in Enabled, NEW out \in Outcomes, memcard_format_file(s, out) PROVE SlotInv'
  BY <1>7, Zenon DEF memcard_format_file, SlotInv
<1>8. CASE UNCHANGED cardVars
  BY <1>8, Zenon DEF cardVars, SlotInv
<1> QED BY <1>2, <1>3, <1>4, <1>5, <1>6, <1>7, <1>8, Zenon DEF CardNext

\* A write that ends answers what its checksum byte decided, and nothing else moves a port
\* from MC_WRITE_END to MC_IDLE with 'G' in the receive register.
LEMMA EndsGood ==
  ASSUME CardInv, PortInv, AckInv, SentInv, [CardNext]_cardVars,
         mc.state = "WRITE_END", mc'.state = "IDLE", rx' = Good
  PROVE  mc.chk = Good
<1>1. ~sio_init
  BY DEF sio_init, Good
<1>2. ASSUME NEW tx \in TxBytes(mc), NEW out \in Outcomes, Byte(tx, out) PROVE mc.chk = Good
  <2>1. /\ run = "up" /\ run' = run
        /\ mc.state \in {"ADDR_MSB", "ADDR_LSB", "WRITE_DATA"} => tx \in Bits
    BY <1>2, ByteCases, Zenon
  <2>2. PICK b, m : Continues(b, m) /\ ToCard(b, m, tx, out)
    BY <1>2, ByteCases, Zenon DEF Begins
  <2>3. PICK a : a.rx = rx' /\ Moves(m, b.slot, tx, a)
    BY <2>1, <2>2, CardByteFacts, Zenon
  <2> QED BY <2>2, <2>3, Zenon DEF Moves, Continues
<1>3. ASSUME NEW sel \in BOOLEAN, NEW reset \in BOOLEAN, NEW slot \in Ports, WriteCtrl(sel, slot, reset)
      PROVE  FALSE
  BY <1>3, Zenon DEF WriteCtrl, SentInv
<1>4. ASSUME NEW out \in [Ports -> Outcomes], PowerOn(out) PROVE FALSE
  BY <1>1, <1>4, Zenon DEF PowerOn
<1>5. ASSUME NEW out \in [Ports -> Outcomes], Shutdown(out) \/ AtExit(out) PROVE FALSE
  BY <1>1, <1>5, Zenon DEF Shutdown, AtExit
<1>6. ~Crash
  BY <1>1, Zenon DEF Crash
<1>7. ASSUME NEW s \in Enabled, NEW out \in Outcomes, memcard_format_file(s, out) PROVE FALSE
  BY <1>7, Zenon DEF memcard_format_file
<1>8. ~UNCHANGED cardVars
  BY Zenon DEF cardVars
<1> QED BY <1>2, <1>3, <1>4, <1>5, <1>6, <1>7, <1>8, Zenon DEF CardNext

\* The step that answers Good stored the frame that was sent, with its checksum right.
LEMMA GoodStored ==
  ASSUME Disciplined, CardInv, PortInv, AckInv, SentInv, SlotInv, [CardNext]_cardVars,
         mc.state = "WRITE_END", mc'.state = "IDLE", rx' = Good,
         NEW data, data = [i \in 1..LEN |-> sent[6 + i]]
  PROVE  /\ Len(sent) = LEN + 9
         /\ card[bus.SLOT].image[sent[5] * BYTE + sent[6]] = data
         /\ sent[LEN + 7] = (sent[5] + sent[6] + SumFunction(data)) % BYTE
<1>1. mc.chk = Good
  BY EndsGood, Zenon
<1>2. /\ sent[5] = mc.msb /\ sent[6] = mc.lsb /\ \A i \in 1..LEN : mc.data[i] = sent[6 + i]
      /\ Len(sent) = 9 + LEN
      /\ card[bus.slot].image[sector(mc)] = mc.data /\ sent[LEN + 7] = Checksum(mc)
  BY <1>1, Zenon DEF SentInv, Place, Heard, Kept, Ending
<1>3. bus.slot = bus.SLOT
  BY Zenon DEF SlotInv
<1>4. data = mc.data
  BY <1>2, Zenon DEF PortInv, IsMc, Data
<1>5. LEN \in Nat
  BY CardAssumption, Zenon
<1>6. Len(sent) = LEN + 9
  BY <1>2, <1>5
<1> QED BY <1>2, <1>3, <1>4, <1>6, Zenon DEF sector, Checksum

\* Both hold initially.
LEMMA SentStart == CardInit => SentInv /\ SlotInv
<1> SUFFICES ASSUME CardInit PROVE SentInv /\ SlotInv
  BY Zenon
<1>1. sent = << >> /\ Len(sent) = 0 /\ sent \in Seq(Nat) /\ mc.state = "IDLE" /\ bus.active = "none"
  BY FreshPort DEF CardInit
<1> QED BY <1>1, IdleSent, Zenon DEF SentInv, SlotInv

\* Whenever the card ends a write with 'G', the sector the guest addressed, in the slot SLOT
\* names, holds exactly the bytes the guest sent, and their checksum was right: for every
\* sector size and count, provided the guest moves SLOT only while deselected and sends
\* only while selected.
THEOREM GoodAlwaysMeansStored == Disciplined /\ CardSpec => GoodMeansStored
<1> DEFINE All == CardInv /\ PortInv /\ AckInv /\ SentInv /\ SlotInv
<1> SUFFICES ASSUME Disciplined PROVE CardSpec => GoodMeansStored
  BY Zenon
<1>1. CardInit => All
  BY CardStart, PortStart, SentStart, Zenon
<1>2. All /\ [CardNext]_cardVars => All'
  BY CardStep, PortStep, SentStep, SlotStep, Zenon
<1>3. All /\ [CardNext]_cardVars =>
        [LET data == [i \in 1..LEN |-> sent[6 + i]]
             sec == sent[5] * BYTE + sent[6]
         IN mc.state = "WRITE_END" /\ mc'.state = "IDLE" /\ rx' = Good =>
              /\ Len(sent) = LEN + 9
              /\ card[bus.SLOT].image[sec] = data
              /\ sent[LEN + 7] = (sent[5] + sent[6] + SumFunction(data)) % BYTE]_cardVars
  BY GoodStored, Zenon
<1> QED BY <1>1, <1>2, <1>3, PTL DEF CardSpec, GoodMeansStored

-----------------------------------------------------------------------------
(* Save states.  The invariant speaks of the files: one without a missing     *)
(* section is what the last save that reported success captured.              *)

Complete(f) == \A i \in Sections : f.sec[i] # Missing
Holds(f, v) == f.build = v.build /\ \A i \in Sections : f.sec[i] = v.machine[i]

SaveInv ==
  /\ machine \in [Parts -> Nat] /\ stamp \in Nat
  /\ pending \in [save : Slots \cup {NoSlot}, load : Slots \cup {NoSlot}]
  /\ \A s \in Slots : Complete(disk[s]) => Holds(disk[s], saved[s])
  /\ DOMAIN disk = Slots /\ DOMAIN saved = Slots
  /\ \A s \in Slots : disk[s].sec \in [Sections -> Nat \cup {Missing}]
  /\ LoadRestoresLastSave

\* A file whose sections are all applied has no missing section.
LEMMA RequiredComplete == ASSUME NEW f, AllRequired(f) PROVE Complete(f)
  BY SaveAssumption DEF AllRequired, Applied, Complete, Sections

\* Each outcome of boot_state_save, for the slot it writes: a complete file holds the machine.
LEMMA SaveOutcome ==
  ASSUME SaveInv, NEW s \in Slots, NEW pc, NEW r \in boot_state_save(s, pc),
         NEW sv, sv = IF r.ok = 1 THEN [saved EXCEPT ![s] = [machine |-> machine, build |-> build]] ELSE saved
  PROVE  /\ DOMAIN r.disk = Slots /\ DOMAIN sv = Slots
         /\ \A q \in Slots : r.disk[q].sec \in [Sections -> Nat \cup {Missing}]
         /\ \A q \in Slots : Complete(r.disk[q]) => Holds(r.disk[q], sv[q])
<1>0. machine \in [Parts -> Nat] /\ Sections \subseteq Parts /\ N \in Sections
      /\ Missing \notin Nat /\ DOMAIN disk = Slots /\ DOMAIN saved = Slots
  BY SaveAssumption DEF SaveInv, Parts, Sections
<1>. DEFINE W(k) == Written(k, pc)
<1>1. \A k : W(k).sec \in [Sections -> Nat \cup {Missing}] /\ (~ N <= k => ~Complete(W(k)))
  BY <1>0, Zenon DEF Written, Complete
<1>2. Holds(W(N), [machine |-> machine, build |-> build])
  BY <1>0, SaveAssumption DEF Written, Holds, Sections
<1>3. NoFile.sec \in [Sections -> Nat \cup {Missing}] /\ ~Complete(NoFile)
  BY <1>0, Zenon DEF NoFile, Complete
<1>4. ~ N <= N - 1
  BY SaveAssumption
<1>5. ~Complete(W(N - 1))
  BY <1>1, <1>4, Zenon
<1>. HIDE DEF W
<1>6. \/ r.disk = disk /\ sv = saved
      \/ r.disk = [disk EXCEPT ![s] = NoFile] /\ sv = saved
      \/ /\ r.disk = [disk EXCEPT ![s] = W(N)] \/ r.disk = [disk EXCEPT ![s] = W(N - 1)]
         /\ sv = [saved EXCEPT ![s] = [machine |-> machine, build |-> build]]
  <2>. DEFINE D1 == [disk EXCEPT ![s] = NoFile]
              D2 == [disk EXCEPT ![s] = W(N)]
              D3 == [disk EXCEPT ![s] = W(N - 1)]
              S == [saved EXCEPT ![s] = [machine |-> machine, build |-> build]]
  <2>1. \/ r = [disk |-> disk, ok |-> 0] \/ r = [disk |-> D1, ok |-> 0]
        \/ r = [disk |-> D2, ok |-> 1] \/ r = [disk |-> D3, ok |-> 1]
    BY Zenon DEF boot_state_save, W
  <2>2. sv = IF r.ok = 1 THEN S ELSE saved
    BY Zenon
  <2>3. \/ (r.disk = disk \/ r.disk = D1) /\ sv = saved
        \/ (r.disk = D2 \/ r.disk = D3) /\ sv = S
    <3>. HIDE DEF D1, D2, D3, S
    <3>. QED
      BY <2>1, <2>2
  <2>. QED
    BY <2>3, Zenon
<1>7. CASE r.disk = disk /\ sv = saved
  BY <1>0, <1>7, Zenon DEF SaveInv
<1>8. CASE r.disk = [disk EXCEPT ![s] = NoFile] /\ sv = saved
  BY <1>0, <1>3, <1>8, Zenon DEF SaveInv
<1>9. CASE /\ r.disk = [disk EXCEPT ![s] = W(N)]
           /\ sv = [saved EXCEPT ![s] = [machine |-> machine, build |-> build]]
  <2>1. /\ DOMAIN r.disk = Slots /\ DOMAIN sv = Slots
        /\ \A q \in Slots : q # s => r.disk[q] = disk[q] /\ sv[q] = saved[q]
        /\ r.disk[s] = W(N) /\ sv[s] = [machine |-> machine, build |-> build]
    BY <1>0, <1>9, Zenon
  <2>2. \A q \in Slots : r.disk[q].sec \in [Sections -> Nat \cup {Missing}]
    BY <1>1, <2>1, Zenon DEF SaveInv
  <2>3. \A q \in Slots : Complete(r.disk[q]) => Holds(r.disk[q], sv[q])
    <3>1. Holds(r.disk[s], sv[s])
      BY <1>2, <2>1, Zenon
    <3>2. \A q \in Slots : q # s => (Complete(r.disk[q]) => Holds(r.disk[q], sv[q]))
      BY <2>1, Zenon DEF SaveInv
    <3>. QED
      BY <3>1, <3>2, Zenon
  <2>. QED
    BY <2>1, <2>2, <2>3, Zenon
<1>10. CASE /\ r.disk = [disk EXCEPT ![s] = W(N - 1)]
            /\ sv = [saved EXCEPT ![s] = [machine |-> machine, build |-> build]]
  BY <1>0, <1>1, <1>5, <1>10, Zenon DEF SaveInv
<1>. QED
  BY <1>6, <1>7, <1>8, <1>9, <1>10, Zenon

\* What a load does to the machine: its values stay stamps, and success means the file.
LEMMA LoadOutcome ==
  ASSUME SaveInv, NEW d, NEW l \in Slots, d[l].sec \in [Sections -> Nat \cup {Missing}],
         boot_state_load(d, l)
  PROVE  /\ machine' \in [Parts -> Nat]
         /\ last'.slot = l
         /\ last'.op = "loaded" => Complete(d[l]) /\ Holds(d[l], [machine |-> machine', build |-> build])
<1>. DEFINE f == d[l]
            ok == KeyMatches(f) /\ AllRequired(f)
            taken == IF KeyMatches(f) THEN Applied(f) ELSE {}
<1>1. /\ machine' = [p \in Parts |-> IF p \in taken THEN f.sec[p] ELSE machine[p]]
      /\ last' = [op |-> IF ok THEN "loaded" ELSE "failed", slot |-> l]
  BY Zenon DEF boot_state_load
<1>2. \A p \in taken : p \in Sections /\ f.sec[p] # Missing
  <2>1. \A p \in Sections : p \in 1..p
    BY SaveAssumption DEF Sections
  <2>. QED
    BY <2>1, Zenon DEF Applied
<1>3. machine' \in [Parts -> Nat]
  BY <1>1, <1>2, Zenon DEF SaveInv
<1>4. ASSUME ok PROVE Complete(f) /\ Holds(f, [machine |-> machine', build |-> build])
  <2>1. taken = Sections /\ Complete(f)
    BY <1>4, RequiredComplete, Zenon DEF AllRequired
  <2>. QED
    BY <1>1, <1>4, <2>1, Zenon DEF Holds, Parts, KeyMatches
<1>5. last'.op = "loaded" => ok
  BY <1>1, Zenon
<1>. QED
  BY <1>1, <1>3, <1>4, <1>5, Zenon

\* Requests, execution, polls with every outcome of their file operations, and restarts in
\* the middle of a save preserve the invariant.
LEMMA SaveStep == SaveInv /\ [Next]_vars => SaveInv'
<1>. SUFFICES ASSUME SaveInv, [Next]_vars PROVE SaveInv'
  BY Zenon
<1>0. NoSlot \notin Slots
  BY SaveAssumption, Zenon
<1>1. ASSUME NEW s \in Slots, savestate_request_save(s) \/ savestate_request_load(s) PROVE SaveInv'
  BY <1>1, Zenon DEF SaveInv, savestate_request_save, savestate_request_load, LoadRestoresLastSave
<1>2. CASE Run
  <2>1. machine' \in [Parts -> Nat] /\ stamp' \in Nat /\ last'.op # "loaded"
    <3>1. stamp \in Nat
      BY Zenon DEF SaveInv
    <3>2. stamp + 1 \in Nat
      BY <3>1
    <3>3. last'.op # "loaded"
      BY <1>2, Zenon DEF Run, Idle
    <3>. QED
      BY <1>2, <3>2, <3>3, Zenon DEF Run
  <2>. QED
    BY <1>2, <2>1, Zenon DEF Run, SaveInv, LoadRestoresLastSave
<1>3. ASSUME NEW pc \in {0, at}, savestate_poll(pc) PROVE SaveInv'
  <2>. DEFINE s == pending.save
              l == pending.load
  <2>1. s \in Slots \cup {NoSlot} /\ l \in Slots \cup {NoSlot}
    BY Zenon DEF SaveInv
  <2>2. PICK r \in IF s = NoSlot THEN {[disk |-> disk, ok |-> 0]} ELSE boot_state_save(s, pc) :
          /\ disk' = r.disk
          /\ saved' = IF r.ok = 1 THEN [saved EXCEPT ![s] = [machine |-> machine, build |-> build]] ELSE saved
          /\ \/ l # NoSlot /\ boot_state_load(r.disk, l)
             \/ l = NoSlot /\ last' = [op |-> IF r.ok = 1 THEN "saved" ELSE "failed", slot |-> s]
                /\ UNCHANGED <<machine, clk, at, torn>>
    BY <1>3, Zenon DEF savestate_poll
  <2>3. /\ DOMAIN disk' = Slots /\ DOMAIN saved' = Slots
        /\ \A q \in Slots : disk'[q].sec \in [Sections -> Nat \cup {Missing}]
        /\ \A q \in Slots : Complete(disk'[q]) => Holds(disk'[q], saved'[q])
    <3>1. CASE s = NoSlot
      <4>0. r = [disk |-> disk, ok |-> 0]
        BY <3>1, Zenon
      <4>1. r.disk = disk /\ r.ok # 1
        <5>1. r.disk = disk /\ r.ok = 0
          BY <4>0, Zenon
        <5>. QED
          BY <5>1
      <4>. QED
        BY <2>2, <4>1, Zenon DEF SaveInv
    <3>2. CASE s \in Slots
      <4>1. s # NoSlot
        BY <3>2, SaveAssumption, Zenon
      <4>. QED
        BY <1>0, <2>2, <3>2, <4>1, SaveOutcome, ZenonT(60)
    <3>. QED
      BY <2>1, <3>1, <3>2, Zenon
  <2>4. stamp' \in Nat /\ pending' \in [save : Slots \cup {NoSlot}, load : Slots \cup {NoSlot}]
    BY <1>3, Zenon DEF savestate_poll, SaveInv
  <2>5. machine' \in [Parts -> Nat] /\ LoadRestoresLastSave'
    <3>1. CASE l = NoSlot
      <4>1. /\ last' = [op |-> IF r.ok = 1 THEN "saved" ELSE "failed", slot |-> s]
            /\ machine' = machine
        BY <2>2, <3>1, Zenon
      <4>2. last'.op # "loaded"
        BY <4>1, Zenon
      <4>. QED
        BY <4>1, <4>2, Zenon DEF SaveInv, LoadRestoresLastSave
    <3>2. CASE l \in Slots
      <4>1. boot_state_load(r.disk, l) /\ r.disk[l].sec \in [Sections -> Nat \cup {Missing}]
        BY <1>0, <2>2, <2>3, <3>2, Zenon
      <4>2. /\ machine' \in [Parts -> Nat] /\ last'.slot = l
            /\ last'.op = "loaded" => Complete(r.disk[l]) /\ Holds(r.disk[l], [machine |-> machine', build |-> build])
        BY <3>2, <4>1, LoadOutcome, Zenon
      <4>3. last'.op = "loaded" => /\ saved'[l].build = build
                                   /\ \A i \in Sections : machine'[i] = saved'[l].machine[i]
        <5>1. ASSUME last'.op = "loaded" PROVE Holds(disk'[l], [machine |-> machine', build |-> build])
              /\ Holds(disk'[l], saved'[l])
          BY <2>2, <2>3, <3>2, <4>2, <5>1, Zenon
        <5> QED BY <5>1, Zenon DEF Holds
      <4>4. build' = build
        BY <1>3, Zenon DEF savestate_poll
      <4>. QED
        BY <4>2, <4>3, <4>4, Zenon DEF LoadRestoresLastSave
    <3>. QED
      BY <2>1, <3>1, <3>2, Zenon
  <2>. QED
    BY <2>3, <2>4, <2>5, Zenon DEF SaveInv, Complete, Holds
<1>4. ASSUME NEW b \in Builds, Restart(b) PROVE SaveInv'
  <2>1. /\ machine' \in [Parts -> Nat] /\ stamp' \in Nat /\ last'.op # "loaded" /\ saved' = saved
        /\ pending' \in [save : Slots \cup {NoSlot}, load : Slots \cup {NoSlot}]
    <3>0. stamp \in Nat
      BY Zenon DEF SaveInv
    <3>1. stamp + 1 \in Nat
      BY <3>0
    <3>2. last'.op # "loaded"
      BY <1>4, Zenon DEF Restart, Idle
    <3>3. pending' \in [save : Slots \cup {NoSlot}, load : Slots \cup {NoSlot}]
      BY <1>4, Zenon DEF Restart
    <3> QED BY <1>4, <3>1, <3>2, <3>3, Zenon DEF Restart
  <2>2. /\ DOMAIN disk' = Slots
        /\ \A q \in Slots : disk'[q].sec \in [Sections -> Nat \cup {Missing}]
        /\ \A q \in Slots : Complete(disk'[q]) => Holds(disk'[q], saved[q])
    <3>1. CASE UNCHANGED disk
      BY <3>1, Zenon DEF SaveInv
    <3>2. ASSUME pending.save # NoSlot, NEW k \in 0..N - 1,
                 disk' = [disk EXCEPT ![pending.save] = Written(k, at)]
          PROVE  <2>2!1 /\ <2>2!2 /\ <2>2!3
      <4>1. N \in Sections /\ Sections \subseteq Parts /\ ~ N <= k
        BY SaveAssumption DEF Sections, Parts
      <4>2. Written(k, at).sec \in [Sections -> Nat \cup {Missing}] /\ ~Complete(Written(k, at))
        BY <4>1, Zenon DEF Written, Complete, SaveInv
      <4>. HIDE DEF Written
      <4>. QED
        BY <3>2, <4>2, Zenon DEF SaveInv
    <3>. QED
      BY <1>4, <3>1, <3>2, Zenon DEF Restart
  <2>. QED
    BY <2>1, <2>2, Zenon DEF SaveInv, Complete, Holds, LoadRestoresLastSave
<1>5. CASE UNCHANGED vars
  BY <1>5, Zenon DEF vars, SaveInv, Complete, Holds, LoadRestoresLastSave
<1>. QED
  BY <1>1, <1>2, <1>3, <1>4, <1>5, Zenon DEF Next

\* The invariant of the save states holds initially.
LEMMA SaveStart == Init => SaveInv
<1>. SUFFICES ASSUME Init PROVE SaveInv
  BY Zenon
<1>1. NoFile.sec \in [Sections -> Nat \cup {Missing}] /\ ~Complete(NoFile)
  BY SaveAssumption, Zenon DEF NoFile, Complete, Sections
<1>. QED
  BY <1>1, Zenon DEF Init, SaveInv, LoadRestoresLastSave, Idle

\* For every number of sections, slots, builds and interruptions: when boot_state_load
\* returns 1, every section of the machine is the one the last successful save captured,
\* and this build made that save.
THEOREM LoadAlwaysRestores == Spec => []LoadRestoresLastSave
<1>1. SaveInv => LoadRestoresLastSave
  BY Zenon DEF SaveInv
<1>. QED
  BY <1>1, SaveStart, SaveStep, PTL DEF Spec

\* The clocks, here and in the files, are counts of cycles.
Clocks == [now : Nat, synced : Nat, next : Nat, dev : Nat, gte : Nat]
Coherent(k) == k.synced <= k.now /\ k.now - k.synced < Cap /\ k.next <= k.synced + Cap

ClockInv ==
  /\ clk \in Clocks /\ torn \in BOOLEAN
  /\ DOMAIN disk = Slots /\ \A s \in Slots : disk[s].clock \in Nat /\ disk[s].dev \in Nat
  /\ torn \/ Coherent(clk)

\* Advancing by at least one cycle reaches the deadline or stays short of it.
LEMMA AdvanceCoherent ==
  ASSUME NEW k \in Clocks, NEW cycles \in Nat \ {0}, NEW next \in 1..Cap
  PROVE  LET a == psx_advance_cycles(k, cycles, next)
         IN a \in Clocks /\ (Coherent(k) => Coherent(a))
<1> DEFINE now == k.now + cycles
           due == k.next = 0 \/ now >= k.next
           a == psx_advance_cycles(k, cycles, next)
<1>1. /\ k.now \in Nat /\ k.synced \in Nat /\ k.next \in Nat /\ k.dev \in Nat /\ k.gte \in Nat
      /\ k = [now |-> k.now, synced |-> k.synced, next |-> k.next, dev |-> k.dev, gte |-> k.gte]
      /\ now \in Nat /\ Cap \in Nat \ {0} /\ next \in Nat
  BY SaveAssumption DEF Clocks
<1>2. ASSUME due PROVE a = [now |-> now, next |-> now + next, gte |-> k.gte,
                            synced |-> IF k.synced < now THEN now ELSE k.synced,
                            dev |-> IF k.synced < now THEN k.dev + (now - k.synced) ELSE k.dev]
  BY <1>1, <1>2, Zenon DEF psx_advance_cycles
<1>3. ASSUME ~due PROVE a = [now |-> now, synced |-> k.synced, next |-> k.next, dev |-> k.dev, gte |-> k.gte]
  BY <1>1, <1>3, Zenon DEF psx_advance_cycles
<1>4. CASE due
  BY <1>1, <1>2, <1>4 DEF Clocks, Coherent
<1>5. CASE ~due
  BY <1>1, <1>3, <1>5 DEF Clocks, Coherent
<1> QED BY <1>4, <1>5, Zenon

\* So does a GTE command, waiting or not.
LEMMA GteCoherent ==
  ASSUME NEW k \in Clocks, NEW next \in 1..Cap
  PROVE  LET a == psx_gte_set(k, next) IN a \in Clocks /\ (Coherent(k) => Coherent(a))
<1> DEFINE w == IF k.gte > k.now THEN psx_advance_cycles(k, k.gte - k.now, next) ELSE k
<1>1. w \in Clocks /\ (Coherent(k) => Coherent(w))
  <2>1. k.gte > k.now => k.gte - k.now \in Nat \ {0}
    BY DEF Clocks
  <2> QED BY <2>1, AdvanceCoherent, Zenon
<1>2. psx_gte_set(k, next) = [w EXCEPT !.gte = w.now + GteLatency]
  BY Zenon DEF psx_gte_set
<1> HIDE DEF w
<1>3. w.now + GteLatency \in Nat
  BY <1>1, SaveAssumption DEF Clocks
<1>4. \A g \in Nat : [w EXCEPT !.gte = g] \in Clocks /\ (Coherent(w) => Coherent([w EXCEPT !.gte = g]))
  BY <1>1, Zenon DEF Clocks, Coherent
<1> QED BY <1>1, <1>2, <1>3, <1>4, Zenon

\* A load re-anchors the clock, leaves it alone, or is torn.
LEMMA LoadCoherent ==
  ASSUME ClockInv, NEW d, NEW l, d[l].clock \in Nat, d[l].dev \in Nat, boot_state_load(d, l)
  PROVE  clk' \in Clocks /\ torn' \in BOOLEAN /\ (torn' \/ Coherent(clk'))
<1> DEFINE f == d[l]
           taken == IF KeyMatches(f) THEN Applied(f) ELSE {}
           ok == KeyMatches(f) /\ AllRequired(f)
           now == IF ClockSec \in taken THEN f.clock ELSE clk.now
           dev == IF DevSec \in taken THEN f.dev ELSE clk.dev
           k == [clk EXCEPT !.now = now, !.dev = dev]
<1>1. /\ clk' = IF ok THEN psx_cycles_resync_after_restore(k) ELSE k
      /\ torn' = IF ok THEN FALSE ELSE torn \/ taken # {}
  BY Zenon DEF boot_state_load
<1>2. now \in Nat /\ dev \in Nat /\ Cap \in Nat \ {0}
  BY SaveAssumption, Zenon DEF ClockInv, Clocks
<1>3. taken = {} => now = clk.now /\ dev = clk.dev
  BY Zenon
<1> HIDE DEF taken, ok, now, dev
<1>4. k \in Clocks /\ k.now = now /\ (now = clk.now /\ dev = clk.dev => k = clk)
  BY <1>2, Zenon DEF ClockInv, Clocks
<1>5. CASE ok
  <2>1. psx_cycles_resync_after_restore(k) = [k EXCEPT !.synced = k.now, !.next = 0]
    BY Zenon DEF psx_cycles_resync_after_restore
  <2> HIDE DEF k
  <2>2. clk' = [k EXCEPT !.synced = k.now, !.next = 0] /\ torn' = FALSE
    BY <1>1, <1>5, <2>1, Zenon
  <2>3. clk' \in Clocks /\ clk'.synced = clk'.now /\ clk'.next = 0
    BY <1>4, <2>2, Zenon DEF Clocks
  <2>4. Coherent(clk')
    BY <1>2, <2>3 DEF Clocks, Coherent
  <2> QED BY <2>2, <2>3, <2>4, Zenon
<1>6. CASE ~ok
  <2> HIDE DEF k
  <2>1. torn' = (torn \/ taken # {}) /\ clk' = k
    BY <1>1, <1>6, Zenon
  <2>2. CASE torn \/ taken # {}
    BY <1>4, <2>1, <2>2, Zenon
  <2>3. CASE ~torn /\ taken = {}
    BY <1>3, <1>4, <2>1, <2>3, Zenon DEF ClockInv
  <2> QED BY <2>2, <2>3, Zenon DEF ClockInv
<1> QED BY <1>5, <1>6, Zenon

\* Every file a save or a crash leaves has a clock.
LEMMA FileClocks ==
  ASSUME ClockInv, NEW s \in Slots
  PROVE  /\ NoFile.clock \in Nat /\ NoFile.dev \in Nat
         /\ \A k, pc : Written(k, pc).clock \in Nat /\ Written(k, pc).dev \in Nat
         /\ \A f : f.clock \in Nat /\ f.dev \in Nat =>
              LET d == [disk EXCEPT ![s] = f]
              IN DOMAIN d = Slots /\ \A q \in Slots : d[q].clock \in Nat /\ d[q].dev \in Nat
BY Zenon DEF NoFile, Written, ClockInv, Clocks

\* What boot_state_save leaves on disk: the old files, no file, or one cut at some section.
LEMMA SavedDisk ==
  ASSUME NEW s, NEW pc, NEW r \in boot_state_save(s, pc)
  PROVE  \/ r.disk = disk \/ r.disk = [disk EXCEPT ![s] = NoFile]
         \/ \E k : r.disk = [disk EXCEPT ![s] = Written(k, pc)]
<1> DEFINE E == [disk EXCEPT ![s] = NoFile]
           D(k) == [disk EXCEPT ![s] = Written(k, pc)]
<1>1. \/ r = [disk |-> disk, ok |-> 0] \/ r = [disk |-> E, ok |-> 0]
      \/ r = [disk |-> D(N), ok |-> 1] \/ r = [disk |-> D(N - 1), ok |-> 1]
  BY Zenon DEF boot_state_save
<1>2. r.disk = disk \/ r.disk = E \/ r.disk = D(N) \/ r.disk = D(N - 1)
  <2> HIDE DEF E, D
  <2> QED BY <1>1
<1> QED BY <1>2, Zenon

\* Every step keeps the clocks coherent.
LEMMA ClockStep == ClockInv /\ SaveInv /\ [Next]_vars => ClockInv'
<1> SUFFICES ASSUME ClockInv, SaveInv, [Next]_vars PROVE ClockInv'
  BY Zenon
<1> DEFINE Dated(d) == DOMAIN d = Slots /\ \A q \in Slots : d[q].clock \in Nat /\ d[q].dev \in Nat
<1>1. ASSUME NEW s \in Slots, savestate_request_save(s) \/ savestate_request_load(s) PROVE ClockInv'
  BY <1>1, Zenon DEF ClockInv, Coherent, savestate_request_save, savestate_request_load
<1>2. CASE Run
  <2>1. PICK next \in 1..Cap : clk' = psx_advance_cycles(clk, 1, next) \/ clk' = psx_gte_set(clk, next)
    BY <1>2, Zenon DEF Run
  <2>2. clk' \in Clocks /\ (Coherent(clk) => Coherent(clk'))
    BY <2>1, AdvanceCoherent, GteCoherent DEF ClockInv
  <2>3. UNCHANGED <<disk, torn>>
    BY <1>2, Zenon DEF Run
  <2> QED BY <2>2, <2>3, Zenon DEF ClockInv, Coherent
<1>3. ASSUME NEW pc \in {0, at}, savestate_poll(pc) PROVE ClockInv'
  <2> DEFINE s == pending.save
             l == pending.load
  <2>1. s \in Slots \cup {NoSlot} /\ l \in Slots \cup {NoSlot} /\ NoSlot \notin Slots
    BY SaveAssumption, Zenon DEF SaveInv
  <2>2. PICK r \in IF s = NoSlot THEN {[disk |-> disk, ok |-> 0]} ELSE boot_state_save(s, pc) :
          /\ disk' = r.disk
          /\ \/ l # NoSlot /\ boot_state_load(r.disk, l)
             \/ l = NoSlot /\ UNCHANGED <<machine, clk, at, torn>>
    BY <1>3, Zenon DEF savestate_poll
  <2>3. Dated(r.disk)
    <3>1. CASE s = NoSlot
      <4>1. r = [disk |-> disk, ok |-> 0]
        BY <3>1, Zenon
      <4>2. r.disk = disk
        BY <4>1, Zenon
      <4> QED BY <4>2, Zenon DEF ClockInv
    <3>2. CASE s \in Slots
      <4>1. \/ r.disk = disk \/ r.disk = [disk EXCEPT ![s] = NoFile]
            \/ \E k : r.disk = [disk EXCEPT ![s] = Written(k, pc)]
        <5>1. r \in boot_state_save(s, pc)
          BY <2>1, <3>2, Zenon
        <5> HIDE DEF s
        <5> QED BY <5>1, SavedDisk
      <4>2. CASE r.disk = disk
        BY <4>2, Zenon DEF ClockInv
      <4>3. CASE r.disk = [disk EXCEPT ![s] = NoFile]
        BY <3>2, <4>3, FileClocks, Zenon
      <4>4. ASSUME NEW k, r.disk = [disk EXCEPT ![s] = Written(k, pc)] PROVE Dated(r.disk)
        BY <3>2, <4>4, FileClocks, Zenon
      <4> QED BY <4>1, <4>2, <4>3, <4>4, Zenon
    <3> QED BY <2>1, <3>1, <3>2, Zenon
  <2>4. clk' \in Clocks /\ torn' \in BOOLEAN /\ (torn' \/ Coherent(clk'))
    <3>1. CASE l = NoSlot
      BY <2>2, <3>1, Zenon DEF ClockInv
    <3>2. CASE l \in Slots
      BY <2>1, <2>2, <2>3, <3>2, LoadCoherent, Zenon
    <3> QED BY <2>1, <3>1, <3>2, Zenon
  <2> QED BY <2>2, <2>3, <2>4, Zenon DEF ClockInv, Coherent
<1>4. ASSUME NEW b \in Builds, Restart(b) PROVE ClockInv'
  <2>1. Dated(disk')
    <3>1. pending.save \in Slots \cup {NoSlot}
      BY Zenon DEF SaveInv
    <3>2. disk' = disk \/ (pending.save # NoSlot /\ \E k : disk' = [disk EXCEPT ![pending.save] = Written(k, at)])
      BY <1>4, Zenon DEF Restart
    <3> QED BY <3>1, <3>2, FileClocks, Zenon DEF ClockInv
  <2>2. clk' = Boot /\ torn' = FALSE
    BY <1>4, Zenon DEF Restart
  <2>3. Boot \in Clocks /\ Coherent(Boot)
    BY SaveAssumption DEF Boot, Clocks, Coherent
  <2> QED BY <2>1, <2>2, <2>3, Zenon DEF ClockInv, Coherent
<1>5. CASE UNCHANGED vars
  BY <1>5, Zenon DEF vars, ClockInv, Coherent
<1> QED BY <1>1, <1>2, <1>3, <1>4, <1>5, Zenon DEF Next

\* Across any saves, loads and restarts, as long as no incomplete restore was applied, the
\* devices are at most PSX_DEADLINE_HARD_CAP cycles behind the guest clock and the next
\* deadline is within reach, whatever the cap and the length of a GTE command.
THEOREM ClockAlwaysCoherent == Spec => []ClockCoherent
<1>1. Init => SaveInv /\ ClockInv
  <2> SUFFICES ASSUME Init PROVE ClockInv
    BY SaveStart, Zenon
  <2>1. Boot \in Clocks /\ Coherent(Boot)
    BY SaveAssumption DEF Boot, Clocks, Coherent
  <2> QED BY <2>1, Zenon DEF Init, ClockInv, NoFile
<1>2. SaveInv /\ ClockInv /\ [Next]_vars => SaveInv' /\ ClockInv'
  BY SaveStep, ClockStep, Zenon
<1>3. ClockInv => ClockCoherent
  BY Zenon DEF ClockInv, Coherent, ClockCoherent
<1> QED BY <1>1, <1>2, <1>3, PTL DEF Spec

=============================================================================
