----------------------------- MODULE CdromProofs -----------------------------
(***************************************************************************)
(* For every set of commands and every choice of the delays: the           *)
(* controller's responses are presented once, its countdowns are never     *)
(* overdue, its queue never waits for nothing, time replaces nothing the   *)
(* guest has not acknowledged, its distance to an interrupt is never too   *)
(* long, and a driver whose handler is shorter than the presentation delay *)
(* loses no interrupt.                                                     *)
(***************************************************************************)
EXTENDS CdromDriver, TLAPS

\* The inductive invariant of one controller.  A response presented once keeps its latch
\* until it is acknowledged; without that, PresentedOnce is not inductive.
CdGood(c) ==
  /\ c \in CdromController
  /\ c.presented <= 1
  /\ c.presented = 1 => c.latched \/ c.irq_flag = NoInt
  /\ c.reading => c.read_delay \in 1..ReadDelay
  /\ c.pending # NoCmd => c.pending_delay \in 1..PendDelay

CdInv == CdGood(cd) /\ QueuedWaits

Ints == {INT1, INT2, INT3, INT5}

\* The responses are non-empty sets of bits of the response code.
LEMMA IntFacts == \A i \in Ints : i \in Flags /\ i # NoInt
BY Zenon DEF Flags, Ints, INT1, INT2, INT3, INT5, NoInt

\* A controller stays one when one of its fields gets a value of the field's type.
LEMMA CdFields ==
  \A c \in CdromController :
    /\ \A v \in Flags : [c EXCEPT !.irq_flag = v] \in CdromController
    /\ \A v \in BOOLEAN : [c EXCEPT !.latched = v] \in CdromController
    /\ \A v \in Nat : [c EXCEPT !.present_delay = v] \in CdromController
    /\ \A v \in Nat : [c EXCEPT !.presented = v] \in CdromController
    /\ \A v \in BOOLEAN : [c EXCEPT !.i_stat = v] \in CdromController
    /\ \A v \in Queued : [c EXCEPT !.queued = v] \in CdromController
    /\ \A v \in Pending : [c EXCEPT !.pending = v] \in CdromController
    /\ \A v \in Int : [c EXCEPT !.pending_delay = v] \in CdromController
    /\ \A v \in BOOLEAN : [c EXCEPT !.reading = v] \in CdromController
    /\ \A v \in Int : [c EXCEPT !.read_delay = v] \in CdromController
    /\ \A v \in BOOLEAN : [c EXCEPT !.bfrd = v] \in CdromController
    /\ \A v \in BOOLEAN : [c EXCEPT !.available = v] \in CdromController
    /\ \A v \in ReadPos : [c EXCEPT !.read_pos = v] \in CdromController
    /\ \A v \in Sectors : [c EXCEPT !.sector = v] \in CdromController
    /\ \A v \in DriveStat : [c EXCEPT !.stat = v] \in CdromController
    /\ \A v \in Enables : [c EXCEPT !.irq_enable = v] \in CdromController
BY DEF CdromController

\* The groups of fields the functions of cdrom.c assign together.
LEMMA Groups ==
  ASSUME NEW c \in CdromController
  PROVE  /\ \A i \in Flags, d \in Nat :
              [c EXCEPT !.irq_flag = i, !.latched = FALSE, !.present_delay = d,
                        !.presented = 0] \in CdromController
         /\ [c EXCEPT !.reading = FALSE, !.read_delay = 0] \in CdromController
         /\ \A d \in Int, st \in DriveStat :
              [c EXCEPT !.read_delay = d, !.reading = TRUE, !.stat = st] \in CdromController
         /\ \A p \in Pending, d \in Int :
              [c EXCEPT !.pending = p, !.pending_delay = d] \in CdromController
<1>1. ASSUME NEW i \in Flags, NEW d \in Nat
      PROVE  [c EXCEPT !.irq_flag = i, !.latched = FALSE, !.present_delay = d,
                       !.presented = 0] \in CdromController
  <2>. DEFINE c1 == [c EXCEPT !.irq_flag = i]
              c2 == [c1 EXCEPT !.latched = FALSE]
              c3 == [c2 EXCEPT !.present_delay = d]
  <2>1. c1 \in CdromController BY CdFields, Zenon
  <2>. HIDE DEF c1
  <2>2. c2 \in CdromController BY <2>1, CdFields, Zenon
  <2>. HIDE DEF c2
  <2>3. c3 \in CdromController BY <2>2, CdFields, Zenon
  <2>. HIDE DEF c3
  <2>4. [c3 EXCEPT !.presented = 0] \in CdromController BY <2>3, CdFields, Zenon
  <2>. QED BY <2>4, Zenon DEF c1, c2, c3
<1>2. [c EXCEPT !.reading = FALSE, !.read_delay = 0] \in CdromController
  <2>. DEFINE c1 == [c EXCEPT !.reading = FALSE]
  <2>1. c1 \in CdromController BY CdFields, Zenon
  <2>. HIDE DEF c1
  <2>2. [c1 EXCEPT !.read_delay = 0] \in CdromController BY <2>1, CdFields
  <2>. QED BY <2>2, Zenon DEF c1
<1>3. ASSUME NEW d \in Int, NEW st \in DriveStat
      PROVE  [c EXCEPT !.read_delay = d, !.reading = TRUE, !.stat = st] \in CdromController
  <2>. DEFINE c1 == [c EXCEPT !.read_delay = d]
              c2 == [c1 EXCEPT !.reading = TRUE]
  <2>1. c1 \in CdromController BY CdFields, Zenon
  <2>. HIDE DEF c1
  <2>2. c2 \in CdromController BY <2>1, CdFields, Zenon
  <2>. HIDE DEF c2
  <2>3. [c2 EXCEPT !.stat = st] \in CdromController BY <2>2, CdFields, Zenon
  <2>. QED BY <2>3, Zenon DEF c1, c2
<1>4. ASSUME NEW p \in Pending, NEW d \in Int
      PROVE  [c EXCEPT !.pending = p, !.pending_delay = d] \in CdromController
  <2>. DEFINE c1 == [c EXCEPT !.pending = p]
  <2>1. c1 \in CdromController BY CdFields, Zenon
  <2>. HIDE DEF c1
  <2>2. [c1 EXCEPT !.pending_delay = d] \in CdromController BY <2>1, CdFields, Zenon
  <2>. QED BY <2>2, Zenon DEF c1
<1>. QED
  BY <1>1, <1>2, <1>3, <1>4, Zenon

\* A new response (set_irq) is well formed, unpresented and unacknowledged.
LEMMA SetIrqGood ==
  ASSUME NEW c, CdGood(c), NEW i \in Ints
  PROVE  CdGood(set_irq(c, i)) /\ set_irq(c, i).irq_flag = i /\ set_irq(c, i).queued = c.queued
<1>. DEFINE d == set_irq(c, i)
<1>1. i \in Flags /\ PRESENT_DELAY \in Nat
  BY IntFacts, CdromAssumption, Zenon
<1>2. d = [c EXCEPT !.irq_flag = i, !.latched = FALSE, !.present_delay = PRESENT_DELAY,
                    !.presented = 0]
  BY Zenon DEF set_irq
<1>3. d \in CdromController
  <2>1. c \in CdromController
    BY Zenon DEF CdGood
  <2>2. [c EXCEPT !.irq_flag = i, !.latched = FALSE, !.present_delay = PRESENT_DELAY,
                  !.presented = 0] \in CdromController
    BY <1>1, <2>1, Groups, Zenon
  <2>. QED
    BY <1>2, <2>2, Zenon
<1>4. /\ d.irq_flag = i /\ d.presented = 0 /\ d.queued = c.queued
      /\ d.reading = c.reading /\ d.read_delay = c.read_delay
      /\ d.pending = c.pending /\ d.pending_delay = c.pending_delay
  BY <1>2, Zenon DEF CdGood, CdromController
<1>. QED
  BY <1>3, <1>4 DEF CdGood

\* Presenting (present_cdrom_irq) raises a response only if its latch is open.
LEMMA PresentGood ==
  ASSUME NEW c, CdGood(c)
  PROVE  LET p == present_cdrom_irq(c) IN
         CdGood(p) /\ p.irq_flag = c.irq_flag /\ p.queued = c.queued
<1>1. CASE c.present_delay = 0 /\ Visible(c) /\ ~c.latched
  <2>. DEFINE d == [c EXCEPT !.i_stat = TRUE, !.latched = TRUE, !.presented = 1]
  <2>1. c.presented = 0
    BY <1>1 DEF CdGood, CdromController, Visible
  <2>2. present_cdrom_irq(c) = d
    BY <1>1, <2>1 DEF CdGood, CdromController, present_cdrom_irq
  <2>3. d \in CdromController
    BY CdFields, Zenon DEF CdGood
  <2>4. /\ d.irq_flag = c.irq_flag /\ d.presented = 1 /\ d.latched /\ d.queued = c.queued
        /\ d.reading = c.reading /\ d.read_delay = c.read_delay
        /\ d.pending = c.pending /\ d.pending_delay = c.pending_delay
    BY Zenon DEF CdGood, CdromController
  <2>. QED
    BY <2>2, <2>3, <2>4 DEF CdGood
<1>2. CASE ~(c.present_delay = 0 /\ Visible(c) /\ ~c.latched)
  BY <1>2, Zenon DEF present_cdrom_irq
<1>. QED
  BY <1>1, <1>2, Zenon

\* Answering with a response leaves it unacknowledged.
LEMMA RespondGood ==
  ASSUME NEW c, CdGood(c), NEW i \in Ints
  PROVE  LET r == Respond(c, i) IN CdGood(r) /\ r.irq_flag # NoInt /\ r.queued = c.queued
BY SetIrqGood, PresentGood, IntFacts DEF Respond

\* Changing the drive's status, and starting or stopping the sector stream, keeps the
\* controller well formed.
LEMMA StreamGood ==
  ASSUME NEW c, CdGood(c)
  PROVE  /\ \A v \in DriveStat : LET d == [c EXCEPT !.stat = v] IN CdGood(d) /\ d.queued = c.queued
         /\ CdGood(stop_read_stream(c)) /\ stop_read_stream(c).queued = c.queued
         /\ CdGood(start_read_stream(c)) /\ start_read_stream(c).queued = c.queued
<1>1. ASSUME NEW v \in DriveStat
      PROVE  LET d == [c EXCEPT !.stat = v] IN CdGood(d) /\ d.queued = c.queued
  <2>. DEFINE d == [c EXCEPT !.stat = v]
  <2>1. d \in CdromController
    BY CdFields, Zenon DEF CdGood
  <2>2. /\ d.irq_flag = c.irq_flag /\ d.presented = c.presented /\ d.latched = c.latched
        /\ d.queued = c.queued /\ d.reading = c.reading /\ d.read_delay = c.read_delay
        /\ d.pending = c.pending /\ d.pending_delay = c.pending_delay
    BY Zenon DEF CdGood, CdromController
  <2>. QED
    BY <2>1, <2>2, Zenon DEF CdGood
<1>2. CdGood(stop_read_stream(c)) /\ stop_read_stream(c).queued = c.queued
  <2>. DEFINE d == [c EXCEPT !.reading = FALSE, !.read_delay = 0]
  <2>1. d \in CdromController
    BY Groups, Zenon DEF CdGood
  <2>2. /\ d.irq_flag = c.irq_flag /\ d.presented = c.presented /\ d.latched = c.latched
        /\ d.queued = c.queued /\ d.reading = FALSE
        /\ d.pending = c.pending /\ d.pending_delay = c.pending_delay
    BY Zenon DEF CdGood, CdromController
  <2>. QED
    BY <2>1, <2>2, Zenon DEF CdGood, stop_read_stream
<1>3. CdGood(start_read_stream(c)) /\ start_read_stream(c).queued = c.queued
  <2>. DEFINE b == [c EXCEPT !.read_pos = 0, !.available = FALSE, !.bfrd = FALSE]
              d == [b EXCEPT !.read_delay = ReadDelay, !.reading = TRUE,
                             !.stat = b.stat \cup {"READ"}]
  <2>1. 0 \in ReadPos /\ ReadDelay \in Nat \ {0}
    BY CdromAssumption DEF ReadPos
  <2>2. b \in CdromController
    BY <2>1, CdFields, Zenon DEF CdGood
  <2>3. b.stat \cup {"READ"} \in DriveStat
    BY <2>2, Zenon DEF CdromController, DriveStat
  <2>4. d \in CdromController
    <3>1. ReadDelay \in Int
      BY <2>1
    <3>. HIDE DEF b
    <3>. QED
      BY <3>1, <2>2, <2>3, Groups, Zenon
  <2>5. /\ d.irq_flag = c.irq_flag /\ d.presented = c.presented /\ d.latched = c.latched
        /\ d.queued = c.queued /\ d.reading = TRUE /\ d.read_delay = ReadDelay
        /\ d.pending = c.pending /\ d.pending_delay = c.pending_delay
    BY Zenon DEF CdGood, CdromController
  <2>6. start_read_stream(c) = d
    BY Zenon DEF start_read_stream, clear_sector_buffer
  <2>. QED
    BY <2>1, <2>4, <2>5, <2>6 DEF CdGood
<1>. QED
  BY <1>1, <1>2, <1>3, Zenon

\* The state change of a command keeps the controller well formed.
LEMMA EffectGood ==
  ASSUME NEW c, CdGood(c), NEW cmd
  PROVE  CdGood(Effect(c, cmd)) /\ Effect(c, cmd).queued = c.queued
<1>. DEFINE s == stop_read_stream(c)
<1>1. CdGood(s) /\ s.queued = c.queued
  BY StreamGood, Zenon
<1>2. ASSUME NEW d, CdGood(d)
      PROVE  /\ d.stat \cup {"MOTOR"} \in DriveStat /\ d.stat \cup {"SEEK"} \in DriveStat
             /\ d.stat \ {"READ", "PLAY", "SEEK"} \in DriveStat /\ d.stat \ {"READ"} \in DriveStat
             /\ (IF HasDisc THEN {"MOTOR"} ELSE {}) \in DriveStat
             /\ (d.stat \ {"SEEK", "READ"}) \cup {"MOTOR", "PLAY"} \in DriveStat
  <2>1. d.stat \in DriveStat
    BY <1>2, Zenon DEF CdGood, CdromController
  <2>. QED
    BY <2>1, Zenon DEF DriveStat
<1>3. CASE cmd = "ReadN"
  BY <1>3, StreamGood, Zenon DEF Effect
<1>4. CASE cmd \in {"Stop", "Pause", "Init"}
  <2>. HIDE DEF s
  <2>1. \E v \in DriveStat : Effect(c, cmd) = [s EXCEPT !.stat = v]
    BY <1>1, <1>2, <1>4, Zenon DEF Effect, s
  <2>. QED
    BY <2>1, <1>1, StreamGood, ZenonT(60)
<1>5. CASE cmd \in {"Play", "SeekL"}
  <2>1. \E v \in DriveStat : Effect(c, cmd) = [c EXCEPT !.stat = v]
    BY <1>2, <1>5, Zenon DEF Effect
  <2>. QED
    BY <2>1, StreamGood, ZenonT(60)
<1>6. CASE cmd = "GetStat"
  <2>1. Effect(c, cmd) = c \/ \E v \in DriveStat : Effect(c, cmd) = [c EXCEPT !.stat = v]
    BY <1>2, <1>6, CdromAssumption, Zenon DEF Effect
  <2>. QED
    BY <2>1, StreamGood, Zenon
<1>7. CASE cmd \notin {"ReadN", "Stop", "Pause", "Init", "Play", "SeekL", "GetStat"}
  <2>1. Effect(c, cmd) = c
    BY <1>7, Zenon DEF Effect
  <2>. QED
    BY <2>1, Zenon
<1>. QED
  BY <1>3, <1>4, <1>5, <1>6, <1>7, Zenon

\* A command that executes (exec_command) leaves a response to acknowledge.
LEMMA ExecGood ==
  ASSUME NEW c, CdGood(c), NEW cmd
  PROVE  LET e == exec_command(c, cmd) IN CdGood(e) /\ e.irq_flag # NoInt /\ e.queued = c.queued
<1>. DEFINE e == Effect(c, cmd)
            q == [e EXCEPT !.pending = cmd, !.pending_delay = PendDelay]
            p == IF cmd \in TwoPhase THEN q ELSE e
<1>1. CdGood(e) /\ e.queued = c.queued
  BY EffectGood, Zenon
<1>. HIDE DEF e
<1>2. ASSUME cmd \in TwoPhase PROVE CdGood(q) /\ q.queued = c.queued
  <2>1. cmd \in Pending /\ PendDelay \in Nat \ {0}
    BY <1>2, CdromAssumption, Zenon DEF Pending
  <2>2. q \in CdromController
    <3>1. e \in CdromController /\ PendDelay \in Int
      BY <1>1, <2>1 DEF CdGood
    <3>. QED
      BY <2>1, <3>1, Groups, Zenon
  <2>3. /\ q.irq_flag = e.irq_flag /\ q.presented = e.presented /\ q.latched = e.latched
        /\ q.queued = e.queued /\ q.reading = e.reading /\ q.read_delay = e.read_delay
        /\ q.pending_delay = PendDelay
    BY <1>1, Zenon DEF CdGood, CdromController
  <2>. QED
    BY <1>1, <1>2, <2>1, <2>2, <2>3 DEF CdGood
<1>3. CdGood(p) /\ p.queued = c.queued
  BY <1>1, <1>2, Zenon
<1>. HIDE DEF p
<1>4. INT5 \in Ints /\ INT3 \in Ints
  BY Zenon DEF Ints
<1>5. exec_command(c, cmd) = IF Rejected(c, cmd) THEN Respond(c, INT5) ELSE Respond(p, INT3)
  BY Zenon DEF exec_command, p, e
<1>. QED
  BY <1>3, <1>4, <1>5, RespondGood, Zenon
\* A queued command that starts leaves the queue empty behind its own response; one that
\* waits stays behind the response it waits for.
LEMMA TryQueuedGood ==
  ASSUME NEW c, CdGood(c)
  PROVE  LET q == try_execute_queued_command(c) IN
         /\ CdGood(q) /\ (q.queued # NoCmd => q.irq_flag # NoInt)
         /\ c.irq_flag # NoInt => q = c
<1>1. CASE c.queued = NoCmd \/ c.irq_flag # NoInt
  BY <1>1, Zenon DEF try_execute_queued_command
<1>2. CASE ~(c.queued = NoCmd \/ c.irq_flag # NoInt)
  <2>. DEFINE d == [c EXCEPT !.queued = NoCmd]
  <2>1. NoCmd \in Queued /\ c \in CdromController
    BY Zenon DEF Queued, CdGood
  <2>2. d \in CdromController
    BY <2>1, CdFields, Zenon
  <2>3. /\ d.irq_flag = c.irq_flag /\ d.presented = c.presented /\ d.latched = c.latched
        /\ d.queued = NoCmd /\ d.reading = c.reading /\ d.read_delay = c.read_delay
        /\ d.pending = c.pending /\ d.pending_delay = c.pending_delay
    BY <2>1, Zenon DEF CdromController
  <2>4. CdGood(d)
    BY <2>2, <2>3, Zenon DEF CdGood
  <2>. HIDE DEF d
  <2>5. try_execute_queued_command(c) = exec_command(d, c.queued)
    BY <1>2, Zenon DEF try_execute_queued_command, d
  <2>. QED
    BY <1>2, <2>4, <2>5, ExecGood
<1>. QED
  BY <1>1, <1>2, Zenon

\* The second response (process_pending) is answered only when no response is held, and
\* its countdown runs only then.
LEMMA PendingGood ==
  ASSUME NEW c, CdGood(c), c.queued # NoCmd => c.irq_flag # NoInt, NEW n \in Nat \ {0}
  PROVE  LET p == process_pending(c, n) IN
         CdGood(p) /\ (p.queued # NoCmd => p.irq_flag # NoInt)
<1>. DEFINE left == c.pending_delay - n
            due == [c EXCEPT !.pending = NoCmd, !.pending_delay = 0]
            int == IF c.pending = "GetID" /\ ~HasDisc THEN INT5 ELSE INT2
<1>1. c \in CdromController /\ c.pending_delay \in Int
  BY Zenon DEF CdGood, CdromController
<1>2. CASE c.pending = NoCmd \/ c.irq_flag # NoInt
  BY <1>2, Zenon DEF process_pending
<1>3. CASE ~(c.pending = NoCmd \/ c.irq_flag # NoInt) /\ left > 0
  <2>. DEFINE d == [c EXCEPT !.pending_delay = left]
  <2>1. d \in CdromController
    BY <1>1, CdFields
  <2>2. /\ d.irq_flag = c.irq_flag /\ d.presented = c.presented /\ d.latched = c.latched
        /\ d.queued = c.queued /\ d.reading = c.reading /\ d.read_delay = c.read_delay
        /\ d.pending = c.pending /\ d.pending_delay = left
    BY <1>1, Zenon DEF CdromController
  <2>3. left \in 1..PendDelay
    BY <1>1, <1>3, CdromAssumption DEF CdGood
  <2>4. process_pending(c, n) = d
    BY <1>3, Zenon DEF process_pending
  <2>. QED
    BY <2>1, <2>2, <2>3, <2>4, Zenon DEF CdGood
<1>4. CASE ~(c.pending = NoCmd \/ c.irq_flag # NoInt) /\ ~(left > 0)
  <2>1. NoCmd \in Pending /\ 0 \in Int
    BY DEF Pending
  <2>2. due \in CdromController
    BY <1>1, <2>1, Groups, Zenon
  <2>3. /\ due.irq_flag = c.irq_flag /\ due.presented = c.presented /\ due.latched = c.latched
        /\ due.queued = c.queued /\ due.reading = c.reading /\ due.read_delay = c.read_delay
        /\ due.pending = NoCmd
    BY <1>1, Zenon DEF CdromController
  <2>4. CdGood(due)
    BY <2>2, <2>3, Zenon DEF CdGood
  <2>. HIDE DEF due
  <2>5. CdGood(Completed(due, c.pending)) /\ Completed(due, c.pending).queued = c.queued
    <3>1. due.stat \cup {"MOTOR"} \in DriveStat /\ {} \in DriveStat
          /\ due.stat \ {"READ"} \in DriveStat /\ due.stat \ {"SEEK"} \in DriveStat
      BY <2>2, Zenon DEF CdromController, DriveStat
    <3>2. Completed(due, c.pending) = due
          \/ \E v \in DriveStat : Completed(due, c.pending) = [due EXCEPT !.stat = v]
      BY <3>1, Zenon DEF Completed
    <3>. QED
      BY <2>3, <2>4, <3>2, StreamGood, ZenonT(60)
  <2>6. process_pending(c, n) = Respond(Completed(due, c.pending), int)
    BY <1>4, Zenon DEF process_pending, due
  <2>7. int \in Ints
    BY Zenon DEF Ints
  <2>. QED
    BY <2>5, <2>6, <2>7, RespondGood, Zenon
<1>. QED
  BY <1>2, <1>3, <1>4, Zenon
\* A sector delivered or not, the countdown to the next one is again within its period.
LEMMA ReadStreamGood ==
  ASSUME NEW c, CdGood(c), c.queued # NoCmd => c.irq_flag # NoInt, NEW n \in Nat \ {0},
         NEW data \in BOOLEAN, NEW dma \in BOOLEAN
  PROVE  LET r == process_read_stream(c, n, data, dma) IN
         CdGood(r) /\ (r.queued # NoCmd => r.irq_flag # NoInt)
<1>. DEFINE left == c.read_delay - n
            next == IF left + ReadDelay <= 0 THEN ReadDelay ELSE left + ReadDelay
            b == read_sector_at(c, data)
            got == IF c.irq_flag = NoInt THEN deliver_read_sector(c, data)
                   ELSE read_sector_at(c, data)
            held == \/ ~c.reading
                    \/ c.irq_flag # NoInt /\ ~dma
                    \/ c.available /\ c.irq_flag # NoInt
<1>1. c \in CdromController /\ c.read_delay \in Int
  BY Zenon DEF CdGood, CdromController
<1>2. ASSUME NEW d, CdGood(d), NEW v \in 1..ReadDelay
      PROVE  LET e == [d EXCEPT !.read_delay = v] IN
             CdGood(e) /\ e.queued = d.queued /\ e.irq_flag = d.irq_flag
  <2>. DEFINE e == [d EXCEPT !.read_delay = v]
  <2>1. d \in CdromController /\ v \in Int
    BY <1>2 DEF CdGood
  <2>2. e \in CdromController
    BY <2>1, CdFields, Zenon
  <2>3. /\ e.irq_flag = d.irq_flag /\ e.presented = d.presented /\ e.latched = d.latched
        /\ e.queued = d.queued /\ e.reading = d.reading /\ e.read_delay = v
        /\ e.pending = d.pending /\ e.pending_delay = d.pending_delay
    BY <2>1, Zenon DEF CdromController
  <2>. QED
    BY <1>2, <2>2, <2>3, Zenon DEF CdGood
<1>3. CASE held
  BY <1>3, Zenon DEF process_read_stream
<1>4. CASE ~held /\ left > 0
  <2>1. left \in 1..ReadDelay
    BY <1>1, <1>4, CdromAssumption DEF CdGood
  <2>2. process_read_stream(c, n, data, dma) = [c EXCEPT !.read_delay = left]
    BY <1>4, Zenon DEF process_read_stream
  <2>. HIDE DEF left
  <2>. QED
    BY <1>2, <2>1, <2>2, ZenonT(60)
<1>5. CASE ~held /\ ~(left > 0)
  <2>1. next \in 1..ReadDelay
    BY <1>1, <1>5, CdromAssumption
  <2>2. CdGood(b) /\ b.queued = c.queued /\ b.irq_flag = c.irq_flag
    <3>. DEFINE b1 == [c EXCEPT !.sector = 1 - c.sector]
                b2 == [b1 EXCEPT !.read_pos = 0]
                b3 == [b2 EXCEPT !.available = data]
    <3>1. 1 - c.sector \in Sectors /\ 0 \in ReadPos
      BY <1>1, CdromAssumption DEF CdromController, Sectors, ReadPos
    <3>2. b1 \in CdromController
      BY <1>1, <3>1, CdFields, Zenon
    <3>3. b2 \in CdromController
      <4>. HIDE DEF b1
      <4>. QED BY <3>1, <3>2, CdFields, Zenon
    <3>4. b3 \in CdromController
      <4>. HIDE DEF b2
      <4>. QED BY <3>3, CdFields, Zenon
    <3>5. b = b3
      BY Zenon DEF read_sector_at
    <3>6. /\ b3.irq_flag = c.irq_flag /\ b3.presented = c.presented /\ b3.latched = c.latched
          /\ b3.queued = c.queued /\ b3.reading = c.reading /\ b3.read_delay = c.read_delay
          /\ b3.pending = c.pending /\ b3.pending_delay = c.pending_delay
      BY <1>1, Zenon DEF CdromController
    <3>. HIDE DEF b3
    <3>. QED
      BY <3>4, <3>5, <3>6, Zenon DEF CdGood
  <2>3. INT1 \in Ints
    BY Zenon DEF Ints
  <2>4. got = b \/ got = Respond(b, INT1)
    BY Zenon DEF deliver_read_sector
  <2>. HIDE DEF b
  <2>5. CdGood(got) /\ (got.queued # NoCmd => got.irq_flag # NoInt)
    <3>. HIDE DEF got
    <3>. QED
      BY <2>2, <2>3, <2>4, RespondGood, Zenon
  <2>6. process_read_stream(c, n, data, dma) = [got EXCEPT !.read_delay = next]
    BY <1>5, Zenon DEF process_read_stream
  <2>. HIDE DEF got, next
  <2>. QED
    BY <1>2, <2>1, <2>5, <2>6, ZenonT(60)
<1>. QED
  BY <1>3, <1>4, <1>5, Zenon

\* Time passing (cdrom_advance) keeps the invariant.
LEMMA CdAdvanceGood ==
  ASSUME NEW c, CdGood(c), c.queued # NoCmd => c.irq_flag # NoInt, NEW n \in Nat \ {0},
         NEW data \in BOOLEAN, NEW dma \in BOOLEAN
  PROVE  LET a == cdrom_advance(c, n, data, dma) IN
         CdGood(a) /\ (a.queued # NoCmd => a.irq_flag # NoInt)
<1>. DEFINE g == Aged(c, n)
            c1 == present_cdrom_irq(g)
            c2 == try_execute_queued_command(c1)
            c3 == process_pending(c2, n)
            c4 == process_read_stream(c3, n, data, dma)
<1>1. CdGood(g) /\ g.queued = c.queued /\ g.irq_flag = c.irq_flag
  <2>. DEFINE v == IF n > c.present_delay THEN 0 ELSE c.present_delay - n
              d == [c EXCEPT !.present_delay = v]
  <2>1. c \in CdromController /\ v \in Nat
    BY DEF CdGood, CdromController
  <2>. HIDE DEF v
  <2>2. d \in CdromController
    BY <2>1, CdFields, Zenon
  <2>3. /\ d.irq_flag = c.irq_flag /\ d.presented = c.presented /\ d.latched = c.latched
        /\ d.queued = c.queued /\ d.reading = c.reading /\ d.read_delay = c.read_delay
        /\ d.pending = c.pending /\ d.pending_delay = c.pending_delay
    BY <2>1, Zenon DEF CdromController
  <2>4. g = d
    BY Zenon DEF Aged, v
  <2>. HIDE DEF d, g
  <2>. QED
    BY <2>2, <2>3, <2>4, Zenon DEF CdGood
<1>. HIDE DEF g
<1>2. CdGood(c1) /\ c1.queued = c.queued /\ c1.irq_flag = c.irq_flag
  BY <1>1, PresentGood, Zenon
<1>. HIDE DEF c1
<1>3. CdGood(c2) /\ (c2.queued # NoCmd => c2.irq_flag # NoInt)
  BY <1>2, TryQueuedGood, Zenon
<1>. HIDE DEF c2
<1>4. CdGood(c3) /\ (c3.queued # NoCmd => c3.irq_flag # NoInt)
  BY <1>3, PendingGood, Zenon
<1>. HIDE DEF c3
<1>5. CdGood(c4) /\ (c4.queued # NoCmd => c4.irq_flag # NoInt)
  BY <1>4, ReadStreamGood, Zenon
<1>. HIDE DEF c4
<1>6. cdrom_advance(c, n, data, dma) = present_cdrom_irq(c4)
  BY Zenon DEF cdrom_advance, c1, c2, c3, c4, g
<1>. QED
  BY <1>5, <1>6, PresentGood, Zenon
-----------------------------------------------------------------------------
\* The controller starts idle.
LEMMA CdInitInv == CdromInit => CdInv
<1>. SUFFICES ASSUME CdromInit PROVE CdInv
  BY Zenon
<1>1. cd \in CdromController
  <2>1. /\ {} \in Flags /\ 1..5 \in Enables /\ NoCmd \in Queued /\ NoCmd \in Pending
        /\ 0 \in ReadPos /\ 0 \in Sectors /\ (IF HasDisc THEN {"MOTOR"} ELSE {}) \in DriveStat
    BY CdromAssumption DEF Flags, Enables, Queued, Pending, ReadPos, Sectors, DriveStat
  <2>. QED
    BY <2>1 DEF CdromInit, cdrom_init, CdromController, NoInt
<1>. QED
  BY <1>1 DEF CdInv, CdGood, QueuedWaits, CdromInit, cdrom_init

\* Every operation of the controller keeps the invariant.
LEMMA CdNextInv == CdInv /\ [CdromNext]_cdVars => CdInv'
<1>. SUFFICES ASSUME CdInv, [CdromNext]_cdVars PROVE CdInv'
  BY Zenon
<1>. USE DEF CdInv
<1>1. CdGood(cd) /\ cd \in CdromController /\ (cd.queued # NoCmd => cd.irq_flag # NoInt)
  BY Zenon DEF CdGood, QueuedWaits
<1>2. ASSUME NEW d, d \in CdromController, cd' = d,
             d.irq_flag = cd.irq_flag, d.presented = cd.presented, d.latched = cd.latched,
             d.queued = cd.queued, d.reading = cd.reading, d.read_delay = cd.read_delay,
             d.pending = cd.pending, d.pending_delay = cd.pending_delay
      PROVE  CdInv'
  BY <1>1, <1>2, Zenon DEF CdGood, QueuedWaits
<1>3. ASSUME NEW n \in 1..MaxCdromStep, NEW data \in BOOLEAN, NEW dma \in BOOLEAN,
             AdvanceCdrom(n, data, dma)
      PROVE  CdInv'
  <2>1. n \in Nat \ {0}
    BY CdromAssumption
  <2>2. CdGood(cd') /\ (cd'.queued # NoCmd => cd'.irq_flag # NoInt)
    BY <1>1, <1>3, <2>1, CdAdvanceGood, Zenon DEF AdvanceCdrom
  <2>. QED
    BY <2>2, Zenon DEF CdGood, QueuedWaits
<1>4. ASSUME NEW cmd \in Cmds, WriteCommand(cmd) PROVE CdInv'
  <2>1. CASE cd.irq_flag = NoInt
    <3>1. cd' = exec_command(cd, cmd)
      BY <1>4, <2>1, Zenon DEF WriteCommand, queue_or_exec_command
    <3>2. CdGood(cd') /\ cd'.irq_flag # NoInt
      BY <1>1, <3>1, ExecGood, Zenon
    <3>. QED
      BY <3>2, Zenon DEF CdGood, QueuedWaits
  <2>2. CASE cd.irq_flag # NoInt
    <3>1. cd' = [cd EXCEPT !.queued = cmd]
      BY <1>4, <2>2, Zenon DEF WriteCommand, queue_or_exec_command
    <3>2. cd' \in CdromController
      <4>1. cmd \in Queued
        BY Zenon DEF Queued
      <4>. QED
        BY <1>1, <3>1, <4>1, CdFields, Zenon
    <3>3. /\ cd'.irq_flag = cd.irq_flag /\ cd'.presented = cd.presented
          /\ cd'.latched = cd.latched /\ cd'.reading = cd.reading
          /\ cd'.read_delay = cd.read_delay
          /\ cd'.pending = cd.pending /\ cd'.pending_delay = cd.pending_delay
      BY <1>1, <3>1, Zenon DEF CdromController
    <3>. QED
      BY <1>1, <2>2, <3>2, <3>3, Zenon DEF CdGood, QueuedWaits
  <2>. QED
    BY <2>1, <2>2, Zenon
<1>5. ASSUME NEW bits, AckController(bits) PROVE CdInv'
  <2>. DEFINE f == cd.irq_flag \ bits
              l == IF cd.irq_flag # NoInt /\ f = NoInt THEN FALSE ELSE cd.latched
              a1 == [cd EXCEPT !.irq_flag = f]
              a == [a1 EXCEPT !.latched = l]
  <2>1. f \in Flags /\ l \in BOOLEAN
    BY <1>1, Zenon DEF CdromController, Flags
  <2>. HIDE DEF f
  <2>2. a1 \in CdromController
    BY <1>1, <2>1, CdFields, Zenon
  <2>3. a \in CdromController
    <3>. HIDE DEF a1, l
    <3>. QED
      BY <2>1, <2>2, CdFields, Zenon
  <2>4. /\ a.irq_flag = f /\ a.presented = cd.presented /\ a.latched = l
        /\ a.queued = cd.queued /\ a.reading = cd.reading /\ a.read_delay = cd.read_delay
        /\ a.pending = cd.pending /\ a.pending_delay = cd.pending_delay
    <3>. HIDE DEF l
    <3>. QED
      BY <1>1, Zenon DEF CdromController
  <2>5. cd' = try_execute_queued_command(a)
    BY <1>5, Zenon DEF AckController, f
  <2>6. cd.irq_flag = NoInt => f = NoInt
    BY Zenon DEF f, NoInt
  <2>7. CdGood(a)
    <3>. HIDE DEF a
    <3>. QED
      BY <1>1, <2>3, <2>4, <2>6, Zenon DEF CdGood
  <2>. HIDE DEF a
  <2>8. CdGood(cd') /\ (cd'.queued # NoCmd => cd'.irq_flag # NoInt)
    BY <2>5, <2>7, TryQueuedGood, Zenon
  <2>. QED
    BY <2>8, Zenon DEF CdGood, QueuedWaits
<1>6. ASSUME NEW e \in {{}, 1..5}, WriteEnable(e) PROVE CdInv'
  <2>1. e \in Enables
    BY Zenon DEF Enables
  <2>2. [cd EXCEPT !.irq_enable = e] \in CdromController
    BY <1>1, <2>1, CdFields, Zenon
  <2>. QED
    BY <1>1, <1>6, <2>2, <1>2 DEF WriteEnable, CdromController
<1>7. ASSUME NEW b \in BOOLEAN, WriteRequest(b) PROVE CdInv'
  <2>. DEFINE v == IF b THEN cd.read_pos ELSE 0
              d1 == [cd EXCEPT !.bfrd = b]
              d == [d1 EXCEPT !.read_pos = v]
  <2>1. v \in ReadPos
    BY <1>1, CdromAssumption DEF CdromController, ReadPos
  <2>2. d1 \in CdromController
    BY <1>1, CdFields, Zenon
  <2>3. d \in CdromController
    <3>. HIDE DEF d1, v
    <3>. QED
      BY <2>1, <2>2, CdFields, Zenon
  <2>4. cd' = d
    BY <1>1, <1>7, Zenon DEF WriteRequest, CdromController
  <2>5. /\ d.irq_flag = cd.irq_flag /\ d.presented = cd.presented /\ d.latched = cd.latched
        /\ d.queued = cd.queued /\ d.reading = cd.reading /\ d.read_delay = cd.read_delay
        /\ d.pending = cd.pending /\ d.pending_delay = cd.pending_delay
    BY <1>1, Zenon DEF CdromController
  <2>. HIDE DEF d
  <2>. QED
    BY <2>3, <2>4, <2>5, <1>2, Zenon
<1>8. ASSUME ReadWord PROVE CdInv'
  <2>. DEFINE v == cd.read_pos + 1
              w == v < SectorWords
              d1 == [cd EXCEPT !.read_pos = v]
              d == [d1 EXCEPT !.available = w]
  <2>1. v \in ReadPos /\ w \in BOOLEAN
    BY <1>1, <1>8, CdromAssumption DEF CdromController, ReadPos, ReadWord, data_fifo_ready
  <2>2. d1 \in CdromController
    BY <1>1, <2>1, CdFields, Zenon
  <2>3. d \in CdromController
    <3>. HIDE DEF d1, w
    <3>. QED
      BY <2>1, <2>2, CdFields, Zenon
  <2>4. cd' = d
    BY <1>1, <1>8, Zenon DEF ReadWord, cdrom_dma_read, CdromController
  <2>5. /\ d.irq_flag = cd.irq_flag /\ d.presented = cd.presented /\ d.latched = cd.latched
        /\ d.queued = cd.queued /\ d.reading = cd.reading /\ d.read_delay = cd.read_delay
        /\ d.pending = cd.pending /\ d.pending_delay = cd.pending_delay
    BY <1>1, Zenon DEF CdromController
  <2>. HIDE DEF d
  <2>. QED
    BY <2>3, <2>4, <2>5, <1>2, Zenon
<1>9. ASSUME CdromIntcAck PROVE CdInv'
  <2>. DEFINE d == [cd EXCEPT !.i_stat = FALSE]
  <2>1. d \in CdromController
    BY <1>1, CdFields, Zenon
  <2>2. cd' = d
    BY <1>9, Zenon DEF CdromIntcAck
  <2>3. /\ d.irq_flag = cd.irq_flag /\ d.presented = cd.presented /\ d.latched = cd.latched
        /\ d.queued = cd.queued /\ d.reading = cd.reading /\ d.read_delay = cd.read_delay
        /\ d.pending = cd.pending /\ d.pending_delay = cd.pending_delay
    BY <1>1, Zenon DEF CdromController
  <2>. HIDE DEF d
  <2>. QED
    BY <2>1, <2>2, <2>3, <1>2, Zenon
<1>10. ASSUME UNCHANGED cdVars PROVE CdInv'
  BY <1>10, Zenon DEF cdVars, CdGood, QueuedWaits
<1>. QED
  BY <1>3, <1>4, <1>5, <1>6, <1>7, <1>8, <1>9, <1>10, Zenon DEF CdromNext

\* Every response of the controller reaches the interrupt controller at most once.
THEOREM PresentedAtMostOnce == CdromSpec => []PresentedOnce
<1>1. CdInv => PresentedOnce
  BY Zenon DEF CdInv, CdGood, PresentedOnce
<1>. QED
  BY <1>1, CdInitInv, CdNextInv, PTL DEF CdromSpec

\* The controller stays well formed, no countdown is ever overdue, and a queued command
\* always waits behind an unacknowledged response.
THEOREM CountdownsAndQueue == CdromSpec => [](CdromTypeOK /\ NoTimeDebt /\ QueuedWaits)
<1>1. CdInv => CdromTypeOK /\ NoTimeDebt /\ QueuedWaits
  BY Zenon DEF CdInv, CdGood, CdromTypeOK, NoTimeDebt
<1>. QED
  BY <1>1, CdInitInv, CdNextInv, PTL DEF CdromSpec

-----------------------------------------------------------------------------
(* What the functions do to the response the guest sees *)

\* d holds the response c holds, or one that has just been set (set_irq).
SameResponse(c, d) ==
  /\ d.irq_flag = c.irq_flag /\ d.irq_enable = c.irq_enable /\ d.latched = c.latched
  /\ d.present_delay = c.present_delay /\ d.i_stat = c.i_stat
NewResponse(c, d) ==
  d.irq_flag # NoInt /\ ~d.latched /\ d.present_delay = PRESENT_DELAY /\ d.i_stat = c.i_stat

\* One function after another.
LEMMA ResponseSteps ==
  ASSUME NEW c, NEW d, NEW e, SameResponse(c, d) \/ NewResponse(c, d),
         SameResponse(d, e) \/ NewResponse(d, e)
  PROVE  SameResponse(c, e) \/ NewResponse(c, e)
  BY Zenon DEF SameResponse, NewResponse

\* A response is a new one.
LEMMA RespondNew ==
  ASSUME NEW c, CdGood(c), NEW i \in Ints, NEW r, r = Respond(c, i)
  PROVE  NewResponse(c, r)
<1>1. PICK s : s = set_irq(c, i)
  BY Zenon
<1>2. /\ s.irq_flag = i /\ s.latched = FALSE /\ s.present_delay = PRESENT_DELAY
      /\ s.i_stat = c.i_stat
  BY <1>1, Zenon DEF set_irq, CdGood, CdromController
<1>3. PRESENT_DELAY # 0 /\ i # NoInt
  BY CdromAssumption, IntFacts, Zenon
<1>4. ~(s.present_delay = 0 /\ Visible(s) /\ ~s.latched)
  BY <1>2, <1>3, Zenon
<1>5. r = s
  BY <1>1, <1>4, Zenon DEF Respond, present_cdrom_irq
<1>6. ~s.latched
  BY <1>2, Zenon
<1> QED BY <1>2, <1>3, <1>5, <1>6, Zenon DEF NewResponse

\* Starting and stopping the sector stream leaves the response alone;
LEMMA StreamSame ==
  ASSUME NEW c, CdGood(c)
  PROVE  /\ \A v : SameResponse(c, [c EXCEPT !.stat = v])
         /\ SameResponse(c, stop_read_stream(c)) /\ SameResponse(c, start_read_stream(c))
<1>1. \A v : SameResponse(c, [c EXCEPT !.stat = v])
  BY Zenon DEF SameResponse, CdGood, CdromController
<1>2. SameResponse(c, stop_read_stream(c))
  BY Zenon DEF SameResponse, stop_read_stream, CdGood, CdromController
<1>3. SameResponse(c, start_read_stream(c))
  BY Zenon DEF SameResponse, start_read_stream, clear_sector_buffer, CdGood, CdromController
<1> QED BY <1>1, <1>2, <1>3, Zenon

\* so does what a command does to the drive.
LEMMA EffectSame ==
  ASSUME NEW c, CdGood(c), NEW cmd
  PROVE  SameResponse(c, Effect(c, cmd))
<1>1. PICK s : s = stop_read_stream(c)
  BY Zenon
<1>2. CdGood(s) /\ SameResponse(c, s)
  BY <1>1, StreamGood, StreamSame, Zenon
<1>3. CASE cmd = "ReadN"
  BY <1>3, StreamSame, Zenon DEF Effect
<1>4. CASE cmd \in {"Stop", "Pause", "Init"}
  <2>1. \E v : Effect(c, cmd) = [s EXCEPT !.stat = v]
    BY <1>1, <1>4, Zenon DEF Effect
  <2>2. SameResponse(s, Effect(c, cmd))
    BY <1>2, <2>1, StreamSame, ZenonT(60)
  <2> QED BY <1>2, <2>2, Zenon DEF SameResponse
<1>5. CASE cmd \in {"Play", "SeekL", "GetStat"}
  <2>1. Effect(c, cmd) = c \/ \E v : Effect(c, cmd) = [c EXCEPT !.stat = v]
    BY <1>5, CdromAssumption, Zenon DEF Effect
  <2>2. SameResponse(c, c) /\ \A v : SameResponse(c, [c EXCEPT !.stat = v])
    <3>1. SameResponse(c, c)
      BY Zenon DEF SameResponse
    <3> QED BY <3>1, StreamSame, Zenon
  <2> QED BY <2>1, <2>2, Zenon
<1>6. CASE cmd \notin {"ReadN", "Stop", "Pause", "Init", "Play", "SeekL", "GetStat"}
  <2>1. Effect(c, cmd) = c
    BY <1>6, Zenon DEF Effect
  <2> QED BY <2>1, Zenon DEF SameResponse
<1> QED BY <1>3, <1>4, <1>5, <1>6, Zenon

\* A command answers with a new response.
LEMMA ExecNew ==
  ASSUME NEW c, CdGood(c), NEW cmd, NEW x, x = exec_command(c, cmd)
  PROVE  NewResponse(c, x)
<1>1. PICK e : e = Effect(c, cmd)
  BY Zenon
<1>2. CdGood(e) /\ SameResponse(c, e)
  BY <1>1, EffectGood, EffectSame, Zenon
<1>3. PICK p : p = IF cmd \in TwoPhase THEN [e EXCEPT !.pending = cmd, !.pending_delay = PendDelay] ELSE e
  BY Zenon
<1>4. SameResponse(e, p)
  BY <1>2, <1>3, Zenon DEF SameResponse, CdGood, CdromController
<1>5. CdGood(p)
  <2>1. CASE cmd \in TwoPhase
    <3>1. cmd \in Pending /\ PendDelay \in Nat \ {0} /\ PendDelay \in Int
      BY <2>1, CdromAssumption DEF Pending
    <3>2. p = [e EXCEPT !.pending = cmd, !.pending_delay = PendDelay] /\ e \in CdromController
      BY <1>2, <1>3, <2>1, Zenon DEF CdGood
    <3>3. p \in CdromController
      BY <3>1, <3>2, Groups, Zenon
    <3>4. /\ p.irq_flag = e.irq_flag /\ p.presented = e.presented /\ p.latched = e.latched
          /\ p.reading = e.reading /\ p.read_delay = e.read_delay /\ p.pending_delay = PendDelay
      BY <3>2, Zenon DEF CdromController
    <3> QED BY <1>2, <3>1, <3>3, <3>4 DEF CdGood
  <2>2. CASE cmd \notin TwoPhase
    BY <1>2, <1>3, <2>2, Zenon
  <2> QED BY <2>1, <2>2, Zenon
<1>6. INT5 \in Ints /\ INT3 \in Ints
  BY Zenon DEF Ints
<1>7. x = Respond(c, INT5) \/ x = Respond(p, INT3)
  BY <1>1, <1>3, Zenon DEF exec_command
<1>8. NewResponse(c, x) \/ NewResponse(p, x)
  BY <1>5, <1>6, <1>7, RespondNew, Zenon
<1> QED BY <1>2, <1>4, <1>8, Zenon DEF SameResponse, NewResponse

\* A queued command either waits or answers anew,
LEMMA TryQueuedStep ==
  ASSUME NEW c, CdGood(c), NEW x, x = try_execute_queued_command(c)
  PROVE  SameResponse(c, x) \/ NewResponse(c, x)
<1>1. CASE c.queued = NoCmd \/ c.irq_flag # NoInt
  BY <1>1, Zenon DEF try_execute_queued_command, SameResponse
<1>2. CASE ~(c.queued = NoCmd \/ c.irq_flag # NoInt)
  <2>1. PICK d, cmd : d = [c EXCEPT !.queued = NoCmd] /\ cmd = c.queued
    BY Zenon
  <2>2. NoCmd \in Queued /\ c \in CdromController
    BY Zenon DEF Queued, CdGood
  <2>3. d \in CdromController
    BY <2>1, <2>2, CdFields, Zenon
  <2>4. /\ d.irq_flag = c.irq_flag /\ d.presented = c.presented /\ d.latched = c.latched
        /\ d.reading = c.reading /\ d.read_delay = c.read_delay
        /\ d.pending = c.pending /\ d.pending_delay = c.pending_delay /\ d.i_stat = c.i_stat
    BY <2>1, <2>2, Zenon DEF CdromController
  <2>5. CdGood(d)
    BY <2>3, <2>4, Zenon DEF CdGood
  <2>6. x = exec_command(d, cmd)
    BY <1>2, <2>1, Zenon DEF try_execute_queued_command
  <2>7. NewResponse(d, x)
    BY <2>5, <2>6, ExecNew, Zenon
  <2> QED BY <2>4, <2>7, Zenon DEF NewResponse
<1> QED BY <1>1, <1>2, Zenon

\* a delayed response either waits or is presented anew,
LEMMA PendingStep ==
  ASSUME NEW c, CdGood(c), NEW n \in Nat \ {0}, NEW x, x = process_pending(c, n)
  PROVE  SameResponse(c, x) \/ NewResponse(c, x)
<1>1. PICK left, due, int :
        /\ left = c.pending_delay - n
        /\ due = [c EXCEPT !.pending = NoCmd, !.pending_delay = 0]
        /\ int = IF c.pending = "GetID" /\ ~HasDisc THEN INT5 ELSE INT2
  BY Zenon
<1>2. x = IF c.pending = NoCmd \/ c.irq_flag # NoInt THEN c
          ELSE IF left > 0 THEN [c EXCEPT !.pending_delay = left]
          ELSE Respond(Completed(due, c.pending), int)
  BY <1>1, Zenon DEF process_pending
<1>3. CASE c.pending = NoCmd \/ c.irq_flag # NoInt
  BY <1>2, <1>3, Zenon DEF SameResponse
<1>4. CASE ~(c.pending = NoCmd \/ c.irq_flag # NoInt) /\ left > 0
  BY <1>2, <1>4, Zenon DEF SameResponse, CdGood, CdromController
<1>5. CASE ~(c.pending = NoCmd \/ c.irq_flag # NoInt) /\ ~(left > 0)
  <2>1. c \in CdromController /\ NoCmd \in Pending /\ 0 \in Int
    BY DEF Pending, CdGood
  <2>2. due \in CdromController
    BY <1>1, <2>1, Groups, Zenon
  <2>3. /\ due.irq_flag = c.irq_flag /\ due.presented = c.presented /\ due.latched = c.latched
        /\ due.reading = c.reading /\ due.read_delay = c.read_delay /\ due.pending = NoCmd
        /\ due.i_stat = c.i_stat
    BY <1>1, <2>1, Zenon DEF CdromController
  <2>4. CdGood(due)
    BY <2>2, <2>3, Zenon DEF CdGood
  <2>5. PICK f : f = Completed(due, c.pending)
    BY Zenon
  <2>6. f = due \/ \E v \in DriveStat : f = [due EXCEPT !.stat = v]
    <3>1. due.stat \cup {"MOTOR"} \in DriveStat /\ {} \in DriveStat
          /\ due.stat \ {"READ"} \in DriveStat /\ due.stat \ {"SEEK"} \in DriveStat
      BY <2>2, Zenon DEF CdromController, DriveStat
    <3> QED BY <2>5, <3>1, Zenon DEF Completed
  <2>7. CdGood(f) /\ f.i_stat = due.i_stat
    <3>1. CASE f = due
      BY <2>4, <3>1, Zenon
    <3>2. CASE \E v \in DriveStat : f = [due EXCEPT !.stat = v]
      <4>1. PICK v \in DriveStat : f = [due EXCEPT !.stat = v]
        BY <3>2, Zenon
      <4>2. CdGood(f)
        BY <2>4, <4>1, StreamGood, Zenon
      <4>3. f.i_stat = due.i_stat
        BY <2>2, <4>1, Zenon DEF CdromController
      <4> QED BY <4>2, <4>3, Zenon
    <3> QED BY <2>6, <3>1, <3>2, Zenon
  <2>8. x = Respond(f, int) /\ int \in Ints
    BY <1>1, <1>2, <1>5, <2>5, Zenon DEF Ints
  <2>9. NewResponse(f, x)
    BY <2>7, <2>8, RespondNew, Zenon
  <2> QED BY <2>3, <2>7, <2>9, Zenon DEF NewResponse
<1> QED BY <1>3, <1>4, <1>5, Zenon

\* and the sector stream either leaves the response or presents a new one.
LEMMA ReadStreamStep ==
  ASSUME NEW c, CdGood(c), NEW n \in Nat \ {0}, NEW data \in BOOLEAN, NEW dma,
         NEW x, x = process_read_stream(c, n, data, dma)
  PROVE  SameResponse(c, x) \/ NewResponse(c, x)
<1>1. PICK left, next, b :
        /\ left = c.read_delay - n
        /\ next = IF left + ReadDelay <= 0 THEN ReadDelay ELSE left + ReadDelay
        /\ b = read_sector_at(c, data)
  BY Zenon
<1>2. PICK got : got = IF c.irq_flag = NoInt /\ data THEN Respond(b, INT1) ELSE b
  BY Zenon
<1>3. \/ x = c
      \/ x = [c EXCEPT !.read_delay = left]
      \/ x = [got EXCEPT !.read_delay = next]
  BY <1>1, <1>2, Zenon DEF process_read_stream, deliver_read_sector
<1>4. CdGood(b) /\ SameResponse(c, b)
  <2>1. c \in CdromController
    BY Zenon DEF CdGood
  <2>2. 1 - c.sector \in Sectors /\ 0 \in ReadPos
    BY <2>1, CdromAssumption DEF CdromController, Sectors, ReadPos
  <2>3. PICK b1, b2 : b1 = [c EXCEPT !.sector = 1 - c.sector] /\ b2 = [b1 EXCEPT !.read_pos = 0]
    BY Zenon
  <2>4. b = [b2 EXCEPT !.available = data]
    BY <1>1, <2>3, Zenon DEF read_sector_at
  <2>5. b1 \in CdromController
    BY <2>1, <2>2, <2>3, CdFields, Zenon
  <2>6. b2 \in CdromController
    BY <2>2, <2>3, <2>5, CdFields, Zenon
  <2>7. b \in CdromController
    BY <2>4, <2>6, CdFields, Zenon
  <2>8. /\ b.irq_flag = c.irq_flag /\ b.presented = c.presented /\ b.latched = c.latched
        /\ b.reading = c.reading /\ b.read_delay = c.read_delay
        /\ b.pending = c.pending /\ b.pending_delay = c.pending_delay
        /\ b.irq_enable = c.irq_enable /\ b.present_delay = c.present_delay /\ b.i_stat = c.i_stat
    BY <1>1, <2>1, Zenon DEF read_sector_at, CdromController
  <2> QED BY <2>7, <2>8, Zenon DEF CdGood, SameResponse
<1>5. CdGood(got) /\ (SameResponse(b, got) \/ NewResponse(b, got))
  <2>1. CASE c.irq_flag = NoInt /\ data
    <3>1. got = Respond(b, INT1) /\ INT1 \in Ints
      BY <1>2, <2>1, Zenon DEF Ints
    <3>2. CdGood(got)
      BY <1>4, <3>1, RespondGood, Zenon
    <3>3. NewResponse(b, got)
      BY <1>4, <3>1, RespondNew, Zenon
    <3> QED BY <3>2, <3>3, Zenon
  <2>2. CASE ~(c.irq_flag = NoInt /\ data)
    BY <1>2, <1>4, <2>2, Zenon DEF SameResponse
  <2> QED BY <2>1, <2>2, Zenon
<1>6. \A v, d : CdGood(d) => SameResponse(d, [d EXCEPT !.read_delay = v])
  BY Zenon DEF CdGood, CdromController, SameResponse
<1>7. SameResponse(c, got) \/ NewResponse(c, got)
  BY <1>4, <1>5, ResponseSteps, Zenon
<1>8. CASE x = c
  BY <1>8, Zenon DEF SameResponse
<1>9. CASE x = [c EXCEPT !.read_delay = left]
  BY <1>6, <1>9, Zenon
<1>10. CASE x = [got EXCEPT !.read_delay = next]
  <2>1. SameResponse(got, x)
    BY <1>5, <1>6, <1>10, Zenon
  <2> QED BY <1>7, <2>1, ResponseSteps, Zenon
<1> QED BY <1>3, <1>8, <1>9, <1>10, Zenon

\* Whether present_cdrom_irq raises the interrupt.
CdDue(c) == c.present_delay = 0 /\ Visible(c) /\ ~c.latched

\* present_cdrom_irq does nothing before the response is due, and raises the IRQ when it is.
LEMMA PresentStep ==
  ASSUME NEW c, CdGood(c), NEW p, p = present_cdrom_irq(c)
  PROVE  /\ ~CdDue(c) => p = c
         /\ CdDue(c) => p.i_stat
<1>1. ~CdDue(c) => p = c
  BY Zenon DEF present_cdrom_irq, CdDue
<1>2. ASSUME CdDue(c) PROVE p.i_stat
  <2>1. p.i_stat = TRUE
    BY <1>2, Zenon DEF present_cdrom_irq, CdDue, CdGood, CdromController
  <2> QED BY <2>1, Zenon
<1> QED BY <1>1, <1>2, Zenon

\* cdrom_advance: the response ages by n cycles (g), may be raised (b), may be joined or
\* replaced (d), and may be raised.
LEMMA AdvanceStep ==
  ASSUME NEW c, CdGood(c), c.queued # NoCmd => c.irq_flag # NoInt, NEW n \in Nat \ {0},
         NEW data \in BOOLEAN, NEW dma \in BOOLEAN, NEW a, a = cdrom_advance(c, n, data, dma)
  PROVE  \E g, b, d :
           /\ CdGood(g) /\ g.irq_flag = c.irq_flag /\ g.irq_enable = c.irq_enable
           /\ g.latched = c.latched /\ g.i_stat = c.i_stat
           /\ g.present_delay = IF n > c.present_delay THEN 0 ELSE c.present_delay - n
           /\ b = present_cdrom_irq(g)
           /\ CdGood(d) /\ (SameResponse(b, d) \/ NewResponse(b, d))
           /\ a = present_cdrom_irq(d)
<1>1. PICK v : v = IF n > c.present_delay THEN 0 ELSE c.present_delay - n
  BY Zenon
<1>2. PICK g : g = [c EXCEPT !.present_delay = v]
  BY Zenon
<1>3. c \in CdromController /\ v \in Nat
  BY <1>1 DEF CdGood, CdromController
<1>4. g \in CdromController
  BY <1>2, <1>3, CdFields, Zenon
<1>5. /\ g.irq_flag = c.irq_flag /\ g.presented = c.presented /\ g.latched = c.latched
      /\ g.queued = c.queued /\ g.reading = c.reading /\ g.read_delay = c.read_delay
      /\ g.pending = c.pending /\ g.pending_delay = c.pending_delay
      /\ g.irq_enable = c.irq_enable /\ g.i_stat = c.i_stat /\ g.present_delay = v
  BY <1>2, <1>3, Zenon DEF CdromController
<1>6. CdGood(g)
  BY <1>4, <1>5, Zenon DEF CdGood
<1>7. PICK b : b = present_cdrom_irq(g)
  BY Zenon
<1>8. CdGood(b)
  BY <1>6, <1>7, PresentGood, Zenon
<1>9. PICK q : q = try_execute_queued_command(b)
  BY Zenon
<1>10. CdGood(q) /\ (q.queued # NoCmd => q.irq_flag # NoInt) /\ (SameResponse(b, q) \/ NewResponse(b, q))
  BY <1>8, <1>9, TryQueuedGood, TryQueuedStep, Zenon
<1>11. PICK r : r = process_pending(q, n)
  BY Zenon
<1>12. CdGood(r) /\ (r.queued # NoCmd => r.irq_flag # NoInt) /\ (SameResponse(q, r) \/ NewResponse(q, r))
  BY <1>10, <1>11, PendingGood, PendingStep, Zenon
<1>13. PICK d : d = process_read_stream(r, n, data, dma)
  BY Zenon
<1>14. CdGood(d) /\ (SameResponse(r, d) \/ NewResponse(r, d))
  BY <1>12, <1>13, ReadStreamGood, ReadStreamStep, Zenon
<1>15. SameResponse(b, d) \/ NewResponse(b, d)
  <2>1. SameResponse(b, r) \/ NewResponse(b, r)
    BY <1>10, <1>12, ResponseSteps, Zenon
  <2> QED BY <1>14, <2>1, ResponseSteps, Zenon
<1>16. g = Aged(c, n)
  BY <1>1, <1>2, Zenon DEF Aged
<1>17. a = present_cdrom_irq(d)
  BY <1>7, <1>9, <1>11, <1>13, <1>16, Zenon DEF cdrom_advance
<1> QED BY <1>1, <1>5, <1>6, <1>7, <1>14, <1>15, <1>17, Zenon

\* A response that was raised and not acknowledged is pending in I_STAT.
Caught(c) == Visible(c) /\ c.latched => c.i_stat

\* An advance keeps every raised response pending in I_STAT.
LEMMA CaughtAdvance ==
  ASSUME NEW c, CdGood(c), c.queued # NoCmd => c.irq_flag # NoInt, Caught(c), NEW n \in Nat \ {0},
         NEW data \in BOOLEAN, NEW dma \in BOOLEAN, NEW a, a = cdrom_advance(c, n, data, dma)
  PROVE  Caught(a)
<1>1. PICK g, b, d :
        /\ CdGood(g) /\ g.irq_flag = c.irq_flag /\ g.irq_enable = c.irq_enable
        /\ g.latched = c.latched /\ g.i_stat = c.i_stat
        /\ b = present_cdrom_irq(g)
        /\ CdGood(d) /\ (SameResponse(b, d) \/ NewResponse(b, d))
        /\ a = present_cdrom_irq(d)
  BY AdvanceStep
<1>2. Caught(g)
  BY <1>1, Zenon DEF Caught, Visible
<1>3. Caught(b)
  BY <1>1, <1>2, PresentStep, Zenon DEF Caught
<1>4. Caught(d)
  BY <1>1, <1>3, Zenon DEF Caught, Visible, SameResponse, NewResponse
<1> QED BY <1>1, <1>4, PresentStep, Zenon DEF Caught

\* A response set inside the handler is too young to be raised before the handler ends.
Fresh(c, t) == c.irq_flag # NoInt => ~c.latched /\ PRESENT_DELAY <= c.present_delay + t

\* An advance within the handler raises no response the handler has set.
LEMMA FreshAdvance ==
  ASSUME NEW c, CdGood(c), c.queued # NoCmd => c.irq_flag # NoInt, NEW t \in Nat, Fresh(c, t),
         NEW n \in Nat \ {0}, t + n <= IsrCycles,
         NEW data \in BOOLEAN, NEW dma \in BOOLEAN, NEW a, a = cdrom_advance(c, n, data, dma)
  PROVE  Fresh(a, t + n)
<1>1. PICK g, b, d :
        /\ CdGood(g) /\ g.irq_flag = c.irq_flag /\ g.latched = c.latched
        /\ g.present_delay = IF n > c.present_delay THEN 0 ELSE c.present_delay - n
        /\ b = present_cdrom_irq(g)
        /\ CdGood(d) /\ (SameResponse(b, d) \/ NewResponse(b, d))
        /\ a = present_cdrom_irq(d)
  BY AdvanceStep
<1>2. /\ c.present_delay \in Nat /\ PRESENT_DELAY \in Nat /\ PRESENT_DELAY > 0
      /\ IsrCycles \in Nat /\ IsrCycles < PRESENT_DELAY
  BY CdromAssumption, DriverAssumption DEF CdGood, CdromController
<1>3. Fresh(g, t + n) /\ (g.irq_flag # NoInt => g.present_delay > 0)
  BY <1>1, <1>2 DEF Fresh
<1>4. b = g
  BY <1>1, <1>3, PresentStep DEF CdDue, Visible
<1>5. Fresh(d, t + n) /\ (d.irq_flag # NoInt => d.present_delay > 0)
  BY <1>1, <1>2, <1>3, <1>4 DEF Fresh, SameResponse, NewResponse
<1>6. a = d
  BY <1>1, <1>5, PresentStep DEF CdDue, Visible
<1> QED BY <1>5, <1>6, Zenon

-----------------------------------------------------------------------------
(* The guest's driver *)

DriverInv ==
  /\ CdInv
  /\ isr_time \in Nat
  /\ drv = "program" => Caught(cd)
  /\ drv \in {"next", "intc"} => Fresh(cd, isr_time)

\* The handler's acknowledgement clears the whole response, so what stands after it was
\* set by the queued command it let start.
LEMMA AckStep ==
  ASSUME CdInv, AckController({1, 2, 4})
  PROVE  cd'.irq_flag = NoInt \/ NewResponse(cd, cd')
<1>1. CdGood(cd) /\ cd \in CdromController
  BY Zenon DEF CdInv, CdGood
<1>2. PICK f, l : /\ f = cd.irq_flag \ {1, 2, 4}
                  /\ l = IF cd.irq_flag # NoInt /\ f = NoInt THEN FALSE ELSE cd.latched
  BY Zenon
<1>3. f = NoInt
  BY <1>1, <1>2, Zenon DEF CdromController, Flags, NoInt
<1>4. f \in Flags /\ l \in BOOLEAN
  BY <1>1, <1>2, <1>3, Zenon DEF CdromController, Flags, NoInt
<1>5. PICK h, a : h = [cd EXCEPT !.irq_flag = f] /\ a = [h EXCEPT !.latched = l]
  BY Zenon
<1>6. h \in CdromController
  BY <1>1, <1>4, <1>5, CdFields, Zenon
<1>7. a \in CdromController
  BY <1>4, <1>5, <1>6, CdFields, Zenon
<1>8. /\ a.irq_flag = NoInt /\ a.presented = cd.presented
      /\ a.reading = cd.reading /\ a.read_delay = cd.read_delay
      /\ a.pending = cd.pending /\ a.pending_delay = cd.pending_delay /\ a.i_stat = cd.i_stat
  BY <1>1, <1>3, <1>5, Zenon DEF CdromController
<1>9. CdGood(a)
  BY <1>1, <1>7, <1>8, Zenon DEF CdGood
<1>10. cd' = try_execute_queued_command(a)
  BY <1>2, <1>5, Zenon DEF AckController
<1>11. PICK x : x = cd'
  BY Zenon
<1>12. SameResponse(a, x) \/ NewResponse(a, x)
  BY <1>9, <1>10, <1>11, TryQueuedStep, Zenon
<1>13. x.irq_flag = NoInt \/ NewResponse(cd, x)
  BY <1>8, <1>12, Zenon DEF SameResponse, NewResponse
<1> QED BY <1>11, <1>13, Zenon

\* A command either waits in the queue or is answered by a response of its own.
LEMMA WriteStep ==
  ASSUME CdInv, NEW cmd, WriteCommand(cmd)
  PROVE  SameResponse(cd, cd') \/ NewResponse(cd, cd')
<1>1. CdGood(cd) /\ cd \in CdromController
  BY Zenon DEF CdInv, CdGood
<1>2. PICK c, x : c = cd /\ x = cd'
  BY Zenon
<1>3. CASE cd.irq_flag = NoInt
  <2>1. x = exec_command(c, cmd)
    BY <1>2, <1>3, Zenon DEF WriteCommand, queue_or_exec_command
  <2>2. NewResponse(c, x)
    BY <1>1, <1>2, <2>1, ExecNew, Zenon
  <2> QED BY <1>2, <2>2, Zenon
<1>4. CASE cd.irq_flag # NoInt
  <2>1. cd' = [cd EXCEPT !.queued = cmd]
    BY <1>4, Zenon DEF WriteCommand, queue_or_exec_command
  <2> QED BY <1>1, <2>1, Zenon DEF SameResponse, CdromController
<1> QED BY <1>3, <1>4, Zenon

\* The invariant of the drive and its handler holds initially
LEMMA DriverInitInv == DriverInit => DriverInv
<1>1. CdromInit => CdInv
  BY CdInitInv, Zenon
<1>2. CdromInit => Caught(cd)
  BY DEF CdromInit, cdrom_init, Caught, Visible
<1> QED BY <1>1, <1>2 DEF DriverInit, DriverInv

\* and is kept by every step.
LEMMA DriverStep == DriverInv /\ [DriverNext]_dvars => DriverInv'
<1>0. SUFFICES ASSUME DriverInv, [DriverNext]_dvars PROVE DriverInv'
  BY Zenon
<1>1. /\ CdInv /\ CdGood(cd) /\ cd \in CdromController /\ (cd.queued # NoCmd => cd.irq_flag # NoInt)
      /\ isr_time \in Nat
  BY <1>0, Zenon DEF DriverInv, CdInv, CdGood, QueuedWaits
<1>2. ASSUME NEW n \in 1..MaxCdromStep, Time(n)
      PROVE  DriverInv'
  <2>1. n \in Nat \ {0} /\ TRUE \in BOOLEAN /\ FALSE \in BOOLEAN
    BY CdromAssumption
  <2>2. PICK c, t, x : c = cd /\ t = isr_time /\ x = cd'
    BY Zenon
  <2>3. x = cdrom_advance(c, n, TRUE, FALSE)
    BY <1>2, <2>2, Zenon DEF Time, AdvanceCdrom
  <2>4. CdInv'
    <3>1. AdvanceCdrom(n, TRUE, FALSE)
      BY <1>2, Zenon DEF Time
    <3>2. CdromNext
      BY <2>1, <3>1, Zenon DEF CdromNext
    <3> QED BY <1>1, <3>2, CdNextInv, Zenon
  <2>5. drv' = drv /\ isr_time' = (IF drv = "program" THEN 0 ELSE isr_time + n) /\ isr_time' \in Nat
    BY <1>1, <1>2, <2>1 DEF Time
  <2>6. ASSUME drv = "program" PROVE Caught(cd')
    <3>1. Caught(c)
      BY <1>0, <2>2, <2>6, Zenon DEF DriverInv
    <3>2. Caught(x)
      BY <1>1, <2>1, <2>2, <2>3, <3>1, CaughtAdvance, Zenon
    <3> QED BY <2>2, <3>2, Zenon
  <2>7. ASSUME drv \in {"next", "intc"} PROVE Fresh(cd', isr_time')
    <3>1. Fresh(c, t) /\ t \in Nat /\ t + n <= IsrCycles
      BY <1>0, <1>1, <1>2, <2>2, <2>7, Zenon DEF DriverInv, Time
    <3>2. Fresh(x, t + n)
      BY <1>1, <2>1, <2>2, <2>3, <3>1, FreshAdvance, Zenon
    <3> QED BY <2>2, <2>5, <2>7, <3>2, Zenon
  <2> QED BY <2>4, <2>5, <2>6, <2>7, Zenon DEF DriverInv
<1>3. ASSUME NEW cmd \in Cmds, WriteCommand(cmd), isr_time' = isr_time,
             \/ drv = "program" /\ drv' = "program"
             \/ drv = "next" /\ drv' = "intc"
      PROVE  DriverInv'
  <2>1. CdInv'
    <3>1. CdromNext
      BY <1>3, Zenon DEF CdromNext
    <3> QED BY <1>1, <3>1, CdNextInv, Zenon
  <2>2. SameResponse(cd, cd') \/ NewResponse(cd, cd')
    BY <1>1, <1>3, WriteStep, Zenon
  <2>3. drv = "program" => Caught(cd')
    BY <1>0, <2>2, Zenon DEF DriverInv, Caught, Visible, SameResponse, NewResponse
  <2>4. drv = "next" => Fresh(cd', isr_time')
    <3>1. PRESENT_DELAY \in Nat
      BY CdromAssumption, Zenon
    <3> QED BY <1>0, <1>1, <1>3, <2>2, <3>1 DEF DriverInv, Fresh, SameResponse, NewResponse
  <2> QED BY <1>1, <1>3, <2>1, <2>3, <2>4, Zenon DEF DriverInv
<1>4. CASE EnterHandler
  <2>1. cd' = cd /\ drv' = "ack" /\ isr_time' = 0
    BY <1>4, Zenon DEF EnterHandler
  <2>2. CdInv'
    BY <1>1, <2>1, CdNextInv, Zenon DEF cdVars
  <2> QED BY <2>1, <2>2, Zenon DEF DriverInv
<1>5. CASE HandlerAck
  <2>1. AckController({1, 2, 4}) /\ drv' = "next" /\ isr_time' = isr_time
    BY <1>5, Zenon DEF HandlerAck
  <2>2. CdInv'
    <3>1. CdromNext
      BY <2>1, Zenon DEF CdromNext
    <3> QED BY <1>1, <3>1, CdNextInv, Zenon
  <2>3. cd'.irq_flag = NoInt \/ NewResponse(cd, cd')
    BY <1>1, <2>1, AckStep, Zenon
  <2>4. Fresh(cd', isr_time')
    <3>1. PRESENT_DELAY \in Nat
      BY CdromAssumption, Zenon
    <3> QED BY <1>1, <2>1, <2>3, <3>1 DEF Fresh, NewResponse
  <2> QED BY <1>1, <2>1, <2>2, <2>4, Zenon DEF DriverInv
<1>6. CASE HandlerSkip
  <2>1. cd' = cd /\ drv = "next" /\ drv' = "intc" /\ isr_time' = isr_time
    BY <1>6, Zenon DEF HandlerSkip
  <2>2. CdInv'
    BY <1>1, <2>1, CdNextInv, Zenon DEF cdVars
  <2>3. Fresh(cd', isr_time')
    BY <1>0, <2>1, Zenon DEF DriverInv
  <2> QED BY <1>1, <2>1, <2>2, <2>3, Zenon DEF DriverInv
<1>7. CASE HandlerReturn
  <2>1. cd' = [cd EXCEPT !.i_stat = FALSE] /\ drv = "intc" /\ drv' = "program" /\ isr_time' = isr_time
    BY <1>7, Zenon DEF HandlerReturn
  <2>2. cd' \in CdromController
    BY <1>1, <2>1, CdFields, Zenon
  <2>3. /\ cd'.irq_flag = cd.irq_flag /\ cd'.presented = cd.presented /\ cd'.latched = cd.latched
        /\ cd'.queued = cd.queued /\ cd'.reading = cd.reading /\ cd'.read_delay = cd.read_delay
        /\ cd'.pending = cd.pending /\ cd'.pending_delay = cd.pending_delay
    BY <1>1, <2>1, Zenon DEF CdromController
  <2>4. CdInv'
    BY <1>1, <2>2, <2>3, Zenon DEF CdInv, CdGood, QueuedWaits
  <2>5. Caught(cd')
    BY <1>0, <2>1, <2>3, Zenon DEF DriverInv, Fresh, Caught, Visible
  <2> QED BY <1>1, <2>1, <2>4, <2>5, Zenon DEF DriverInv
<1>8. CASE UNCHANGED dvars
  <2>1. cd' = cd /\ drv' = drv /\ isr_time' = isr_time
    BY <1>8, Zenon DEF dvars
  <2>2. CdInv'
    BY <1>1, <2>1, CdNextInv, Zenon DEF cdVars
  <2> QED BY <1>0, <2>1, <2>2, Zenon DEF DriverInv
<1>9. ASSUME NEW cmd \in Cmds, Issue(cmd) \/ HandlerIssue(cmd) PROVE DriverInv'
  BY <1>3, <1>9, Zenon DEF Issue, HandlerIssue
<1> QED BY <1>0, <1>2, <1>4, <1>5, <1>6, <1>7, <1>8, <1>9, Zenon DEF DriverNext, HandlerStep

\* The lost interrupt of cdrom.c's presentation-delay comment: a handler that acknowledges
\* the controller, issues the next command and clears I_STAT last loses no response, for
\* every delay, provided it runs for less than the presentation delay.
THEOREM NoInterruptEverLost == DriverSpec => []NoLostInterrupt
<1>1. DriverInv => NoLostInterrupt
  BY Zenon DEF DriverInv, Caught, NoLostInterrupt
<1> QED BY <1>1, DriverInitInv, DriverStep, PTL DEF DriverSpec

-----------------------------------------------------------------------------
(* Time against an unacknowledged response *)

\* d holds the response of c and the sector the guest has not finished reading.
Held(c, d) ==
  /\ d.irq_flag = c.irq_flag
  /\ c.available => d.available /\ d.sector = c.sector /\ d.read_pos = c.read_pos

\* Presenting the IRQ holds the response.
LEMMA PresentHeld ==
  ASSUME NEW c, CdGood(c), NEW p, p = present_cdrom_irq(c)
  PROVE  Held(c, p)
  BY Zenon DEF present_cdrom_irq, Held, CdGood, CdromController

\* The sector stream holds a response the guest has not acknowledged;
LEMMA ReadStreamHeld ==
  ASSUME NEW c, CdGood(c), c.irq_flag # NoInt, NEW n, NEW data, NEW dma,
         NEW x, x = process_read_stream(c, n, data, dma)
  PROVE  Held(c, x)
<1>1. CASE c.available
  BY <1>1, Zenon DEF process_read_stream, Held
<1>2. CASE ~c.available
  <2>1. PICK left, next, b :
          /\ left = c.read_delay - n
          /\ next = IF left + ReadDelay <= 0 THEN ReadDelay ELSE left + ReadDelay
          /\ b = read_sector_at(c, data)
    BY Zenon
  <2>2. \/ x = c
        \/ x = [c EXCEPT !.read_delay = left]
        \/ x = [b EXCEPT !.read_delay = next]
    BY <2>1, Zenon DEF process_read_stream
  <2>3. /\ DOMAIN c = DOMAIN b /\ "irq_flag" \in DOMAIN c /\ "read_delay" \in DOMAIN c
        /\ b.irq_flag = c.irq_flag
    BY <2>1, Zenon DEF read_sector_at, CdGood, CdromController
  <2>4. x.irq_flag = c.irq_flag
    BY <2>2, <2>3, Zenon
  <2> QED BY <1>2, <2>4, Zenon DEF Held
<1> QED BY <1>1, <1>2, Zenon

\* so does a whole advance.
LEMMA AdvanceHeld ==
  ASSUME NEW c, CdGood(c), c.irq_flag # NoInt, NEW n \in Nat \ {0},
         NEW data \in BOOLEAN, NEW dma \in BOOLEAN, NEW a, a = cdrom_advance(c, n, data, dma)
  PROVE  Held(c, a)
<1>1. PICK v : v = IF n > c.present_delay THEN 0 ELSE c.present_delay - n
  BY Zenon
<1>2. PICK g : g = [c EXCEPT !.present_delay = v]
  BY Zenon
<1>3. c \in CdromController /\ v \in Nat
  BY <1>1 DEF CdGood, CdromController
<1>4. g \in CdromController
  BY <1>2, <1>3, CdFields, Zenon
<1>5. /\ g.irq_flag = c.irq_flag /\ g.presented = c.presented /\ g.latched = c.latched
      /\ g.queued = c.queued /\ g.reading = c.reading /\ g.read_delay = c.read_delay
      /\ g.pending = c.pending /\ g.pending_delay = c.pending_delay
      /\ g.available = c.available /\ g.sector = c.sector /\ g.read_pos = c.read_pos
  BY <1>2, <1>3, Zenon DEF CdromController
<1>6. CdGood(g) /\ Held(c, g)
  BY <1>4, <1>5, Zenon DEF CdGood, Held
<1>7. PICK b, d : b = present_cdrom_irq(g) /\ d = process_read_stream(b, n, data, dma)
  BY Zenon
<1>8. CdGood(b) /\ Held(g, b) /\ b.irq_flag # NoInt
  BY <1>5, <1>6, <1>7, PresentGood, PresentHeld, Zenon
<1>9. try_execute_queued_command(b) = b /\ process_pending(b, n) = b
  BY <1>8, Zenon DEF try_execute_queued_command, process_pending
<1>10. g = Aged(c, n)
  BY <1>1, <1>2, Zenon DEF Aged
<1>11. a = present_cdrom_irq(d)
  <2>1. a = LET p == present_cdrom_irq(g)
            IN present_cdrom_irq(process_read_stream(process_pending(try_execute_queued_command(p), n),
                                                     n, data, dma))
    BY <1>10, Zenon DEF cdrom_advance
  <2> QED BY <1>7, <1>9, <2>1, Zenon
<1>12. CdGood(d) /\ Held(b, d)
  BY <1>7, <1>8, ReadStreamGood, ReadStreamHeld, Zenon
<1>13. Held(d, a)
  BY <1>11, <1>12, PresentHeld, Zenon
<1> QED BY <1>6, <1>8, <1>12, <1>13, Zenon DEF Held

\* However long time passes and whether or not a DMA drains the buffer, cdrom_advance
\* replaces neither an unacknowledged response nor the sector the guest is reading.
THEOREM AlwaysHeldUntilAck == CdromSpec => []HeldUntilAck
<1>1. CdInv => HeldUntilAck
  <2>1. SUFFICES ASSUME CdInv, cd.irq_flag # NoInt, NEW n \in 1..MaxCdromStep,
                        NEW data \in BOOLEAN, NEW dma \in BOOLEAN
                 PROVE  LET c == cdrom_advance(cd, n, data, dma)
                        IN /\ c.irq_flag = cd.irq_flag
                           /\ cd.available => c.sector = cd.sector /\ c.read_pos = cd.read_pos
    BY Zenon DEF HeldUntilAck
  <2>2. PICK c, a : c = cd /\ a = cdrom_advance(c, n, data, dma)
    BY Zenon
  <2>3. CdGood(c) /\ c.irq_flag # NoInt /\ n \in Nat \ {0}
    BY <2>1, <2>2, CdromAssumption DEF CdInv
  <2>4. Held(c, a)
    BY <2>1, <2>2, <2>3, AdvanceHeld, Zenon
  <2> QED BY <2>2, <2>4, Zenon DEF Held
<1> QED BY <1>1, CdInitInv, CdNextInv, PTL DEF CdromSpec

\* A set of at most four numbers has a least one.
LEMMA LeastOfFour ==
  ASSUME NEW w \in Int, NEW x \in Int, NEW y \in Int, NEW z \in Int,
         NEW S, S \subseteq {w, x, y, z}, S # {}
  PROVE  \E k \in S : \A j \in S : k <= j
<1>1. S \subseteq Int
  BY Zenon
<1>2. ASSUME w \in S PROVE \E k \in S : \A j \in S : k <= j
  <2>1. PICK a \in S : a <= w /\ (x \in S => a <= x)
    BY <1>1, <1>2
  <2>2. PICK b \in S : b <= a /\ (y \in S => b <= y)
    BY <1>1, <2>1
  <2>3. PICK c \in S : c <= b /\ (z \in S => c <= z)
    BY <1>1, <2>2
  <2>4. c <= w /\ (x \in S => c <= x) /\ (y \in S => c <= y) /\ (z \in S => c <= z)
    BY <1>1, <2>1, <2>2, <2>3
  <2> QED BY <2>3, <2>4, Zenon
<1>3. ASSUME w \notin S, x \in S PROVE \E k \in S : \A j \in S : k <= j
  <2>1. PICK b \in S : b <= x /\ (y \in S => b <= y)
    BY <1>1, <1>3
  <2>2. PICK c \in S : c <= b /\ (z \in S => c <= z)
    BY <1>1, <2>1
  <2>3. c <= x /\ (y \in S => c <= y) /\ (z \in S => c <= z)
    BY <1>1, <2>1, <2>2
  <2> QED BY <1>3, <2>2, <2>3, Zenon
<1>4. ASSUME w \notin S, x \notin S PROVE \E k \in S : \A j \in S : k <= j
  <2>1. S \subseteq {y, z}
    BY <1>4, Zenon
  <2>2. CASE y \in S
    <3>1. PICK c \in S : c <= y /\ (z \in S => c <= z)
      BY <1>1, <2>2
    <3> QED BY <2>1, <3>1, Zenon
  <2>3. CASE y \notin S
    <3>1. S = {z}
      BY <2>1, <2>3, Zenon
    <3> QED BY <1>1, <3>1
  <2> QED BY <2>2, <2>3, Zenon
<1> QED BY <1>2, <1>3, <1>4, Zenon

\* cdrom_cycles_to_irq is no longer than the presentation delay that runs.
LEMMA DistanceBound ==
  ASSUME NEW c, CdGood(c), NEW n \in Nat, n < cdrom_cycles_to_irq(c)
  PROVE  Visible(c) => n < c.present_delay
<1>1. PICK D : D = (IF Visible(c) THEN {c.present_delay} ELSE {})
                   \cup (IF c.pending # NoCmd THEN {c.pending_delay} ELSE {})
                   \cup (IF c.reading THEN {c.read_delay} ELSE {})
                   \cup {CdromNoEvent}
  BY Zenon
<1>2. PICK w, x, y, z : w = c.present_delay /\ x = c.pending_delay /\ y = c.read_delay /\ z = CdromNoEvent
  BY Zenon
<1>3. w \in Int /\ x \in Int /\ y \in Int /\ z \in Int
  <2>1. c.present_delay \in Int /\ c.pending_delay \in Int /\ c.read_delay \in Int
    BY DEF CdGood, CdromController
  <2>2. CdromNoEvent \in Int
    BY CdromAssumption DEF CdromNoEvent
  <2> QED BY <1>2, <2>1, <2>2, Zenon
<1>4. D \subseteq {w, x, y, z} /\ D # {} /\ (Visible(c) => w \in D)
  BY <1>1, <1>2, Zenon
<1>5. \E k \in D : \A j \in D : k <= j
  BY <1>3, <1>4, LeastOfFour, Zenon
<1>6. PICK m : m = CHOOSE k \in D : \A j \in D : k <= j
  BY Zenon
<1>7. m \in D /\ \A j \in D : m <= j
  BY <1>5, <1>6, Zenon
<1>8. cdrom_cycles_to_irq(c) = m
  BY <1>1, <1>6, Zenon DEF cdrom_cycles_to_irq
<1>9. m \in Int
  BY <1>3, <1>4, <1>7, Zenon
<1> QED BY <1>2, <1>3, <1>4, <1>7, <1>8, <1>9

\* The distance cdrom_cycles_to_irq gives is never too long: fewer cycles raise nothing.
THEOREM CdromAlwaysOnTime == CdromSpec => []CdromNeverLate
<1>1. CdInv => CdromNeverLate
  <2>1. SUFFICES ASSUME CdInv, NEW n \in 1..MaxCdromStep, NEW data \in BOOLEAN, NEW dma \in BOOLEAN,
                        n < cdrom_cycles_to_irq(cd), ~cd.i_stat
                 PROVE  ~cdrom_advance(cd, n, data, dma).i_stat
    BY Zenon DEF CdromNeverLate
  <2>2. PICK c, a : c = cd /\ a = cdrom_advance(c, n, data, dma)
    BY Zenon
  <2>3. /\ CdGood(c) /\ (c.queued # NoCmd => c.irq_flag # NoInt) /\ n \in Nat \ {0} /\ n \in Nat
        /\ n < cdrom_cycles_to_irq(c) /\ ~c.i_stat
    BY <2>1, <2>2, CdromAssumption DEF CdInv, QueuedWaits
  <2>4. PICK g, b, d :
          /\ CdGood(g) /\ g.irq_flag = c.irq_flag /\ g.irq_enable = c.irq_enable
          /\ g.i_stat = c.i_stat
          /\ g.present_delay = IF n > c.present_delay THEN 0 ELSE c.present_delay - n
          /\ b = present_cdrom_irq(g)
          /\ CdGood(d) /\ (SameResponse(b, d) \/ NewResponse(b, d))
          /\ a = present_cdrom_irq(d)
    BY <2>1, <2>2, <2>3, AdvanceStep
  <2>5. Visible(c) => n < c.present_delay
    BY <2>3, DistanceBound, Zenon
  <2>6. c.present_delay \in Nat /\ PRESENT_DELAY \in Nat \ {0}
    BY <2>3, CdromAssumption, Zenon DEF CdGood, CdromController
  <2>7. Visible(g) => g.present_delay # 0
    BY <2>3, <2>4, <2>5, <2>6 DEF Visible
  <2>8. b = g
    BY <2>4, <2>7, PresentStep, Zenon DEF CdDue
  <2>9. Visible(d) => d.present_delay # 0
    BY <2>4, <2>6, <2>7, <2>8, Zenon DEF Visible, SameResponse, NewResponse
  <2>10. a = d
    BY <2>4, <2>9, PresentStep, Zenon DEF CdDue
  <2> QED BY <2>2, <2>3, <2>4, <2>8, <2>10, Zenon DEF SameResponse, NewResponse
<1> QED BY <1>1, CdInitInv, CdNextInv, PTL DEF CdromSpec
=============================================================================
