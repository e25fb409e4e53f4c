---------------------------- MODULE SaveState ----------------------------
(***************************************************************************)
(* User save states: savestate.c stages a save or a load of a slot, and    *)
(* savestate_poll executes it at a block boundary through boot_state.c's   *)
(* serializer.  A file is a header and N sections in a fixed order; a load *)
(* applies each section as it is read.                                     *)
(*                                                                         *)
(* The contents of a part of the machine are the moment (a stamp) they     *)
(* were produced at: parts with the same stamp belong together.  The guest *)
(* clock is kept beside them, with the position the devices have really    *)
(* been advanced to (dev) and the absolute cycle the GTE is busy until.    *)
(***************************************************************************)
EXTENDS Integers

CONSTANTS
  Slots,
  N,              \* sections of a file (14)
  ClockSec,       \* the section that holds psx_cycle_count
  DevSec,         \* the last section of a device's state
  Unsaved,        \* parts of the machine no section holds (MDEC, VBlank phase, ...)
  Builds,         \* values of the integrity key
  Cap,            \* PSX_DEADLINE_HARD_CAP
  GteLatency,     \* the longest GTE command
  NoSlot, Missing,
  MaxStamp, MaxClock

ASSUME SaveAssumption ==
  /\ N \in Nat /\ ClockSec \in 1..N /\ DevSec \in 1..N /\ ClockSec < DevSec
  /\ Unsaved \cap (1..N) = {}
  /\ Cap \in Nat \ {0} /\ GteLatency \in Nat /\ MaxStamp \in Nat /\ MaxClock \in Nat
  /\ NoSlot \notin Slots /\ Missing \notin Nat /\ Missing \notin Builds

VARIABLES
  machine,   \* the stamp of every part
  at,        \* the stamp of the guest's position in its program (0: the game's entry)
  clk,       \* psx_cycle_count, s_devices_synced_cycle, s_next_service_cycle, dev, gte_ts_done
  stamp,     \* the last stamp given out
  build,
  hle,       \* psx_hle_scheduler_enabled() in this run of the program
  disk,      \* the slot files
  pending,   \* s_save_pending, s_load_pending
  last,      \* what the last poll did, and to which slot
  saved,     \* for each slot, the machine and the build of the last save into it that reported success
  torn       \* an incomplete restore has been applied since the last complete one

vars == <<machine, at, clk, stamp, build, hle, disk, pending, last, saved, torn>>

Sections == 1..N
Parts == Sections \cup Unsaved
NoFile == [build |-> Missing, sec |-> [i \in Sections |-> Missing], clock |-> 0, dev |-> 0, at |-> 0]
Idle == [op |-> "none", slot |-> NoSlot]
Boot == [now |-> 0, synced |-> 0, next |-> 0, dev |-> 0, gte |-> 0]

Init ==
  /\ machine = [p \in Parts |-> 0] /\ at = 0 /\ stamp = 0
  /\ clk = Boot
  /\ build \in Builds /\ hle \in BOOLEAN
  /\ disk = [s \in Slots |-> NoFile]
  /\ pending = [save |-> NoSlot, load |-> NoSlot]
  /\ last = Idle
  /\ saved = [s \in Slots |-> [machine |-> machine, build |-> build]]
  /\ torn = FALSE

savestate_request_save(s) ==
  /\ pending' = [pending EXCEPT !.save = s]
  /\ UNCHANGED <<machine, at, clk, stamp, build, hle, disk, last, saved, torn>>

\* A load unwinds to the scheduler, so it is refused where that runs on a fiber of its own.
savestate_request_load(s) ==
  /\ hle /\ pending' = [pending EXCEPT !.load = s]
  /\ UNCHANGED <<machine, at, clk, stamp, build, hle, disk, last, saved, torn>>

\* psx_advance_cycles: the devices are only advanced at the deadline, which is at most Cap
\* (here `next` more) cycles away.
psx_advance_cycles(k, cycles, next) ==
  LET now == k.now + cycles IN
  IF k.next = 0 \/ now >= k.next
  THEN [k EXCEPT !.now = now, !.next = now + next, !.synced = IF @ < now THEN now ELSE @,
                 !.dev = IF k.synced < now THEN @ + (now - k.synced) ELSE @]
  ELSE [k EXCEPT !.now = now]

\* A GTE command waits for the one before it, then runs.
psx_gte_set(k, next) ==
  LET w == IF k.gte > k.now THEN psx_advance_cycles(k, k.gte - k.now, next) ELSE k
  IN [w EXCEPT !.gte = w.now + GteLatency]

\* The guest executes: one cycle or a GTE command, and every part of the machine moves on.
Run ==
  /\ stamp < MaxStamp
  /\ \E next \in 1..Cap :
       \/ clk' = psx_advance_cycles(clk, 1, next)
       \/ clk' = psx_gte_set(clk, next)
  /\ clk'.now <= MaxClock
  /\ stamp' = stamp + 1 /\ machine' = [p \in Parts |-> stamp + 1] /\ at' = stamp + 1
  /\ last' = Idle
  /\ UNCHANGED <<build, hle, disk, pending, saved, torn>>

\* The file as far as its k-th section, over the emptied old one (fopen "wb").
Written(k, pc) ==
  [build |-> build, sec |-> [i \in Sections |-> IF i <= k THEN machine[i] ELSE Missing],
   clock |-> clk.now, dev |-> clk.dev, at |-> pc]

\* The outcomes of boot_state_save: the file cannot be opened; a write fails and the file is
\* removed; every write succeeds; every write succeeds and fclose fails to flush the last
\* section, which is smaller than stdio's buffer (fclose's result is not looked at).
boot_state_save(s, pc) ==
  { [disk |-> disk, ok |-> 0],
    [disk |-> [disk EXCEPT ![s] = NoFile], ok |-> 0],
    [disk |-> [disk EXCEPT ![s] = Written(N, pc)], ok |-> 1],
    [disk |-> [disk EXCEPT ![s] = Written(N - 1, pc)], ok |-> 1] }

\* Whether the header's integrity key is this build's.
KeyMatches(f) == f.build = build

\* Sections are applied in file order until one is missing.
Applied(f) == {i \in Sections : \A j \in 1..i : f.sec[j] # Missing}

AllRequired_lenient(f) == Sections \ {N} \subseteq Applied(f)
AllRequired(f) == Applied(f) = Sections

psx_cycles_resync_after_restore_none(k) == k
psx_cycles_resync_after_restore(k) == [k EXCEPT !.synced = k.now, !.next = 0]

\* A load: every section that is there is applied, complete or not; only a complete restore
\* re-anchors the device clock and resumes at the PC of the file (or at the entry for 0).
boot_state_load(d, s) ==
  LET f == d[s]
      taken == IF KeyMatches(f) THEN Applied(f) ELSE {}
      ok == KeyMatches(f) /\ AllRequired(f)
      k == [clk EXCEPT !.now = IF ClockSec \in taken THEN f.clock ELSE @,
                       !.dev = IF DevSec \in taken THEN f.dev ELSE @]
  IN /\ machine' = [p \in Parts |-> IF p \in taken THEN f.sec[p] ELSE machine[p]]
     /\ clk' = IF ok THEN psx_cycles_resync_after_restore(k) ELSE k
     /\ at' = IF ok THEN f.at ELSE at
     /\ last' = [op |-> IF ok THEN "loaded" ELSE "failed", slot |-> s]
     /\ torn' = IF ok THEN FALSE ELSE torn \/ taken # {}

\* savestate_poll(resume_pc) outside the exception handler: a staged save, then a staged load.
\* resume_pc is 0 where the caller of psx_check_interrupts has none.
savestate_poll(pc) ==
  /\ pending # [save |-> NoSlot, load |-> NoSlot]
  /\ pending' = [save |-> NoSlot, load |-> NoSlot]
  /\ LET s == pending.save  l == pending.load IN
     \E r \in IF s = NoSlot THEN {[disk |-> disk, ok |-> 0]} ELSE boot_state_save(s, pc) :
       /\ disk' = r.disk
       /\ saved' = IF r.ok = 1 THEN [saved EXCEPT ![s] = [machine |-> machine, build |-> build]]
                           ELSE saved
       /\ \/ l # NoSlot /\ boot_state_load(r.disk, l)
          \/ /\ l = NoSlot
             /\ last' = [op |-> IF r.ok = 1 THEN "saved" ELSE "failed", slot |-> s]
             /\ UNCHANGED <<machine, clk, at, torn>>
  /\ UNCHANGED <<stamp, build, hle>>

\* The process ends at any moment, in the middle of writing a staged save included, and a
\* later run, perhaps of another build or with the other scheduler, boots the machine afresh.
Restart(b) ==
  /\ stamp < MaxStamp
  /\ \/ UNCHANGED disk
     \/ /\ pending.save # NoSlot
        /\ \E k \in 0..N - 1 : disk' = [disk EXCEPT ![pending.save] = Written(k, at)]
  /\ build' = b /\ hle' \in BOOLEAN
  /\ stamp' = stamp + 1 /\ machine' = [p \in Parts |-> stamp + 1] /\ at' = stamp + 1
  /\ clk' = Boot /\ torn' = FALSE /\ last' = Idle
  /\ pending' = [save |-> NoSlot, load |-> NoSlot]
  /\ UNCHANGED saved

Next ==
  \/ \E s \in Slots : savestate_request_save(s) \/ savestate_request_load(s)
  \/ Run
  \/ \E pc \in {0, at} : savestate_poll(pc)
  \/ \E b \in Builds : Restart(b)

Spec == Init /\ [][Next]_vars

\* A load that reports success (boot_state_load returns 1) has restored every section from
\* the last save into that slot that reported success, and that save was made by this build:
\* files cut short by a crash, a failed write or a failed close, files written over older
\* ones, and files whose layout or code addresses are another build's are never taken for it.
LoadRestoresLastSave ==
  last.op = "loaded" => /\ saved[last.slot].build = build
                        /\ \A i \in Sections : machine[i] = saved[last.slot].machine[i]

\* Unless an incomplete restore was applied, the device clock stays coherent with the guest
\* clock across saves, loads and restarts: devices are never ahead, lag at most the hard
\* cap, and the deadline is never further than the cap beyond what they have reached.
ClockCoherent ==
  torn \/ (clk.synced <= clk.now /\ clk.now - clk.synced < Cap /\ clk.next <= clk.synced + Cap)

\* What boot_state.h says of a failed load: an incomplete restore is never applied.
NeverIncomplete == ~torn
==========================================================================
