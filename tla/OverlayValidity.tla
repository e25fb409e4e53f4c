-------------------------- MODULE OverlayValidity --------------------------
(***************************************************************************)
(* Validity of natively compiled overlay functions                         *)
(* (runtime/src/overlay_loader.c, with the watched-page generations of     *)
(* runtime/src/memory.c, the save-state RAM replacement of boot_state.c    *)
(* and the stack unwinds of interrupts.c and traps.c).                     *)
(*                                                                         *)
(* A candidate is a compiled function together with the RAM bytes it was   *)
(* compiled from.  Guest code keeps rewriting RAM, so a candidate may run  *)
(* only while RAM holds exactly those bytes.  The loader does not hash on  *)
(* every dispatch: stores to watched pages bump a page generation, and an  *)
(* unchanged generation sum lets a dispatch reuse the last verdict.        *)
(*                                                                         *)
(* A crc stands for the bytes it is taken over (no collisions), so the     *)
(* entry-word probe of cand_match, which only rejects earlier what the crc *)
(* would reject, disappears.  All addresses lie above the kernel floor.    *)
(***************************************************************************)
EXTENDS Integers, Sequences, FiniteSets, Functions

CONSTANTS
  Words, Bytes,      \* RAM locations and what one may hold
  Pages, PageOf,     \* PageOf[w]: the 4 KB page of w
  Buckets, BktOf,    \* BktOf[w]: the 256-byte range-index bucket of w
  Cands,             \* compiled functions that may get registered
  Addr,              \* Addr[c]: entry address
  Ranges,            \* Ranges[c]: sequence of code ranges (sets of words)
  Src,               \* Src[c]: the bytes c was compiled from
  Shards,            \* the candidates that are sljit shards (dll = -1)
  NoCand,
  CAND_CAP, ACTIVE_CAP, OVERLAY_DIFF_BUDGET,
  Settings,          \* the settings the program may be started with
  MaxGen, MaxDepth   \* model bounds

ASSUME MapAssumption ==
  /\ PageOf \in [Words -> Pages]
  /\ BktOf \in [Words -> Buckets]
  /\ Addr \in [Cands -> Words]
  /\ Ranges \in [Cands -> Seq(SUBSET Words)]
  /\ Src \in [Cands -> [Words -> Bytes]]
  /\ Shards \subseteq Cands
  /\ NoCand \notin Cands
  /\ IsFiniteSet(Pages) /\ IsFiniteSet(Cands)
ASSUME BoundAssumption ==
  /\ CAND_CAP \in Nat /\ ACTIVE_CAP \in Nat
  /\ OVERLAY_DIFF_BUDGET \in Nat \ {0}
  /\ MaxGen \in Nat /\ MaxDepth \in Nat

VARIABLES
  (* settings, read once at start-up *)
  g_sljit_tier_enabled, s_diff_mode, s_sljit_live, g_psx_cps_mode,
  blocked,       \* entries on the native-block list
  unwinds,       \* can host stacks be unwound past native frames?
  compiled,      \* the candidates that exist in this installation
  (* state *)
  ram,           \* guest RAM
  watched,       \* overlay_watch_bitmap
  gen,           \* overlay_page_gen
  slot,          \* slot[c]: 1 + index in s_cand, 0 when not registered
  cstate,        \* Candidate.state
  val_gen,       \* Candidate.val_gen
  valid_count,   \* s_valid_count
  diff_passes, device_touch,
  hint,          \* Bucket.hint
  frames,        \* native overlay functions on the host stack
  active,        \* s_active_stack[0 .. s_active_depth - 1]
  shadow         \* run_shadow_diff in progress: pass, candidate, saved RAM

ramVars == <<ram, watched, gen>>
candVars == <<slot, cstate, val_gen, valid_count>>
diffVars == <<diff_passes, device_touch, shadow>>
runVars == <<frames, active>>
settings == <<g_sljit_tier_enabled, s_diff_mode, s_sljit_live,
              g_psx_cps_mode, blocked, unwinds, compiled>>
vars == <<settings, ramVars, candVars, diffVars, hint, runVars>>

States == {"none", "VALID", "INVALID", "BLACKLIST"}
Images == [Words -> Bytes]

Code(c) == UNION {Ranges[c][i] : i \in DOMAIN Ranges[c]}
RangePages(c, i) == {PageOf[w] : w \in Ranges[c][i]}
CodePages(c) == {PageOf[w] : w \in Code(c)}
Registered == {c \in Cands : slot[c] # 0}
Live == {c \in Registered : cstate[c] # "BLACKLIST"}
InShadow == shadow.pass # "off"

\* Does RAM hold the bytes c was compiled from (cand_crc(c) = crc_code)?
Resident(c) == \A w \in Code(c) : ram[w] = Src[c][w]

\* One element for each generation of each page of each code range: its size
\* is the sum of the page generations over the ranges.
GenUnits(c, g) ==
  {u \in (DOMAIN Ranges[c]) \X (Pages \X (1..MaxGen)) :
     u[2][1] \in RangePages(c, u[1]) /\ u[2][2] <= g[u[2][1]]}

cand_gensum(c) == Cardinality(GenUnits(c, gen))

cand_match(c) == IF cand_gensum(c) = val_gen[c] THEN cstate[c] = "VALID"
                 ELSE Resident(c)

Dec(n, k) == IF k > n THEN 0 ELSE n - k   \* "if (s_valid_count > 0)" k times

OffShadow == [pass |-> "off", cand |-> NoCand, saved |-> [w \in {} |-> w]]

\* The switches set from the environment and the game's configuration.
Start(s) ==
  /\ g_sljit_tier_enabled = s.sljit /\ s_diff_mode = s.diff
  /\ s_sljit_live = s.live /\ g_psx_cps_mode = s.cps
  /\ blocked = s.blocked /\ unwinds = s.unwinds
  /\ compiled = s.compiled

Init ==
  /\ \E s \in Settings : Start(s)
  /\ ram \in Images
  /\ watched = {}
  /\ gen = [p \in Pages |-> 0]
  /\ slot = [c \in Cands |-> 0]
  /\ cstate = [c \in Cands |-> "none"]
  /\ val_gen = [c \in Cands |-> 0]
  /\ valid_count = 0
  /\ diff_passes = [c \in Cands |-> 0]
  /\ device_touch = [c \in Cands |-> FALSE]
  /\ hint = [b \in Buckets |-> NoCand]
  /\ frames = << >> /\ active = << >>
  /\ shadow = OffShadow

-----------------------------------------------------------------------------
(* Stores and RAM replacement *)

\* Demoting every registered candidate that covers the word.
active_write_check_all(w) ==
  LET hit == {c \in Live : w \in Code(c)}
  IN  /\ cstate' = [c \in Cands |-> IF c \in hit THEN "BLACKLIST"
                                    ELSE cstate[c]]
      /\ valid_count' =
           Dec(valid_count, Cardinality({c \in hit : cstate[c] = "VALID"}))

\* overlay_loader_active_write_check: every tracked native activation whose
\* code covers the stored word is demoted for good.
active_write_check(w) ==
  LET hit == {c \in Range(active) : w \in Code(c) /\ cstate[c] # "BLACKLIST"}
  IN  /\ cstate' = [c \in Cands |-> IF c \in hit THEN "BLACKLIST"
                                    ELSE cstate[c]]
      /\ valid_count' = Dec(valid_count, Cardinality(hit))

\* A store that leaves self-modification to the next dispatch.
note_write_lazy(w) ==
  /\ gen' = IF PageOf[w] \in watched /\ gen[PageOf[w]] < MaxGen
            THEN [gen EXCEPT ![PageOf[w]] = @ + 1] ELSE gen
  /\ UNCHANGED <<cstate, valid_count>>

overlay_watch_note_write(w) ==
  IF PageOf[w] \in watched
  THEN /\ gen[PageOf[w]] < MaxGen
       /\ gen' = [gen EXCEPT ![PageOf[w]] = @ + 1]
       /\ active_write_check(w)
  ELSE UNCHANGED <<gen, cstate, valid_count>>

\* A CPU or DMA store, by guest code of any tier.
Store(w, b) ==
  /\ overlay_watch_note_write(w)
  /\ ram' = [ram EXCEPT ![w] = b]
  /\ UNCHANGED <<watched, slot, val_gen, diffVars, hint, runVars>>

\* A restore that leaves the generations alone.
Restore_nobump(image) ==
  /\ unwinds /\ ~InShadow
  /\ ram' = image
  /\ frames' = << >>
  /\ UNCHANGED <<watched, gen, candVars, diffVars, hint, active>>

\* Save-state restore: RAM is replaced behind the store path, every
\* generation moves, and the host stack is unwound to the scheduler.  The
\* stack of active entries is not part of what the scheduler resets.
Restore(image) ==
  /\ unwinds /\ ~InShadow
  /\ \A p \in Pages : gen[p] < MaxGen
  /\ ram' = image
  /\ gen' = [p \in Pages |-> gen[p] + 1]
  /\ frames' = << >>
  /\ UNCHANGED <<watched, candVars, diffVars, hint, active>>

\* longjmp to an exception check or to the scheduler, n frames deep.
Unwind(n) ==
  /\ unwinds /\ ~InShadow
  /\ n < Len(frames)
  /\ frames' = SubSeq(frames, 1, n)
  /\ UNCHANGED <<ramVars, candVars, diffVars, hint, active>>

-----------------------------------------------------------------------------
(* Registration: static overlays at init, DLLs and shards on a dispatch     *)
(* miss.  A load registers several candidates; each one is a step here.     *)

CanRegister(c) ==
  c \in compiled /\ slot[c] = 0 /\ Cardinality(Registered) < CAND_CAP

\* The live shards at c's entry that match RAM: c, compiled offline, outranks
\* them.
Superseded(c) == {o \in Live \cap Shards : Addr[o] = Addr[c] /\ Resident(o)}

AddCandidate(c, state, retired) ==
  /\ slot' = [slot EXCEPT ![c] = Cardinality(Registered) + 1]
  /\ watched' = watched \cup CodePages(c)
  /\ val_gen' = [val_gen EXCEPT ![c] = cand_gensum(c)]
  /\ cstate' = [d \in Cands |-> IF d = c THEN state
                                ELSE IF d \in retired THEN "BLACKLIST"
                                ELSE cstate[d]]
  /\ valid_count' =
       Dec(valid_count + (IF state = "VALID" THEN 1 ELSE 0),
           Cardinality({d \in retired : cstate[d] = "VALID"}))
  /\ UNCHANGED <<ram, gen, diffVars, hint, runVars>>

cand_register(c) ==
  /\ CanRegister(c) /\ c \notin Shards
  /\ LET matches == Resident(c)
     IN  AddCandidate(c, IF matches THEN "VALID" ELSE "INVALID",
                      IF matches THEN Superseded(c) ELSE {})

\* JIT on a miss from live RAM (try_sljit_region), only for an entry without
\* candidates.
try_sljit_region(c) ==
  /\ g_sljit_tier_enabled /\ (s_diff_mode \/ s_sljit_live) /\ ~InShadow
  /\ CanRegister(c) /\ c \in Shards
  /\ \A d \in Registered : Addr[d] # Addr[c]
  /\ Resident(c)
  /\ AddCandidate(c, "VALID", {})

\* A shard published to the cache, by the compile worker or an earlier
\* session: registered under the crc in its header.
scan_sljit_shard(c) ==
  /\ g_sljit_tier_enabled
  /\ CanRegister(c) /\ c \in Shards
  /\ AddCandidate(c, "VALID", {})

-----------------------------------------------------------------------------
(* Dispatch *)

\* The verdicts of cand_match are recorded for every candidate looked at.
Record(seen) ==
  LET lost   == {c \in seen : cstate[c] = "VALID" /\ ~cand_match(c)}
      gained == {c \in seen : cstate[c] # "VALID" /\ cand_match(c)}
  IN  /\ cstate' = [c \in Cands |-> IF c \notin seen THEN cstate[c]
                                    ELSE IF cand_match(c) THEN "VALID"
                                    ELSE "INVALID"]
      /\ val_gen' = [c \in Cands |-> IF c \in seen THEN cand_gensum(c)
                                     ELSE val_gen[c]]
      /\ valid_count' = Dec(valid_count, Cardinality(lost))
                          + Cardinality(gained)

\* Trusting the recorded state without looking at the generations.
MatchingState(cs) == {c \in cs : cstate[c] = "VALID"}
\* The candidates the chain walk would accept.
Matching(cs) == {c \in cs : cand_match(c)}

Interpret == UNCHANGED <<diffVars, runVars>>

\* A native call: the entry is tracked while there is room on the stack.
RunNative(c) ==
  /\ Len(frames) < MaxDepth
  /\ frames' = Append(frames, c)
  /\ active' = IF Len(active) < ACTIVE_CAP THEN Append(active, c) ELSE active
  /\ UNCHANGED diffVars

StartShadow(c) ==
  /\ shadow' = [pass |-> "interp", cand |-> c, saved |-> ram]
  /\ UNCHANGED <<diff_passes, device_touch, runVars>>

\* In a shadow run s_native_exec is 0: nested overlay calls are interpreted.
MayRunNative(c, e) ==
  ~InShadow /\ Addr[c] \notin blocked /\ e \notin blocked

\* Never diffs: a shard is trusted from its first dispatch on.
WantDiffNever(c) == FALSE
WantDiff(c) ==
  /\ s_diff_mode \/ (s_sljit_live /\ c \in Shards)
  /\ ~InShadow
  /\ diff_passes[c] < OVERLAY_DIFF_BUDGET

\* dispatch_impl for an address with a chain of candidates, looked at from
\* the newest registration on, up to the first match.
DispatchEntry(e) ==
  LET chain == {c \in Live : Addr[c] = e}
      hits  == Matching(chain)
  IN  /\ \E c \in Registered : Addr[c] = e
      /\ \/ hits = {} /\ Record(chain) /\ Interpret
         \/ \E best \in hits :
              /\ \A c \in hits : slot[c] <= slot[best]
              /\ Record({c \in chain : slot[c] >= slot[best]})
              /\ IF device_touch[best] THEN Interpret
                 ELSE IF WantDiff(best) THEN StartShadow(best)
                 ELSE IF MayRunNative(best, e) THEN RunNative(best)
                 ELSE Interpret
      /\ UNCHANGED <<ramVars, slot, hint>>

\* The candidates a continuation address may belong to.
Covering(e) == {c \in Live : e \in Code(c)}

\* dispatch_impl for a continuation inside a registered function, found by
\* overlay_find_by_range: the bucket's hint first, then registration order.
DispatchContinuation(e) ==
  LET cover == Covering(e)
      hits  == Matching(cover)
      last  == hint[BktOf[e]]
  IN  /\ g_psx_cps_mode
      /\ \A c \in Registered : Addr[c] # e
      /\ cover # {}
      /\ \/ hits = {} /\ Record(cover) /\ Interpret /\ UNCHANGED hint
         \/ \E best \in hits :
              /\ \/ best = last /\ Record({best})
                 \/ /\ last \notin hits
                    /\ \A c \in hits : slot[best] <= slot[c]
                    /\ Record({c \in cover : slot[c] <= slot[best] \/ c = last})
              /\ hint' = [hint EXCEPT ![BktOf[e]] = best]
              /\ IF ~device_touch[best] /\ MayRunNative(best, e)
                 THEN RunNative(best) ELSE Interpret
      /\ UNCHANGED <<ramVars, slot>>

\* The native function returns; the pop is unconditional.
Return ==
  /\ frames # << >> /\ ~InShadow
  /\ frames' = SubSeq(frames, 1, Len(frames) - 1)
  /\ active' = IF active = << >> THEN active
               ELSE SubSeq(active, 1, Len(active) - 1)
  /\ UNCHANGED <<ramVars, candVars, diffVars, hint>>

-----------------------------------------------------------------------------
(* run_shadow_diff: interpreter pass, native pass, compare.  The stores of  *)
(* a pass are Store steps.                                                  *)

\* The interpreter pass touched a device: keep its result, never run native.
ShadowDevice ==
  /\ shadow.pass = "interp"
  /\ device_touch' = [device_touch EXCEPT ![shadow.cand] = TRUE]
  /\ shadow' = OffShadow
  /\ UNCHANGED <<ramVars, candVars, diff_passes, hint, runVars>>

\* Keep the interpreter's RAM, put the input RAM back, start the native pass.
ShadowSwap ==
  /\ shadow.pass = "interp"
  /\ ram' = shadow.saved
  /\ shadow' = [shadow EXCEPT !.pass = "native", !.saved = ram]
  /\ UNCHANGED <<watched, gen, candVars, diff_passes, device_touch, hint,
                 runVars>>

Credit(c, clean) ==
  IF ~clean THEN 0
  ELSE IF diff_passes[c] < OVERLAY_DIFF_BUDGET THEN diff_passes[c] + 1
  ELSE diff_passes[c]

\* Compare RAM and registers; the interpreter's RAM becomes the live one.
ShadowCompare(sameRegs) ==
  /\ shadow.pass = "native"
  /\ diff_passes' = [diff_passes EXCEPT ![shadow.cand] =
                       Credit(shadow.cand, sameRegs /\ ram = shadow.saved)]
  /\ ram' = shadow.saved
  /\ shadow' = OffShadow
  /\ UNCHANGED <<watched, gen, candVars, device_touch, hint, runVars>>

Step ==
  \/ \E w \in Words, b \in Bytes : Store(w, b)
  \/ \E image \in Images : Restore(image)
  \/ \E n \in 0..MaxDepth : Unwind(n)
  \/ \E c \in Cands : \/ cand_register(c)
                      \/ try_sljit_region(c)
                      \/ scan_sljit_shard(c)
  \/ \E e \in Words : DispatchEntry(e) \/ DispatchContinuation(e)
  \/ Return
  \/ ShadowDevice
  \/ ShadowSwap
  \/ \E sameRegs \in BOOLEAN : ShadowCompare(sameRegs)

Next == Step /\ UNCHANGED settings

Spec == Init /\ [][Next]_vars

-----------------------------------------------------------------------------
(* Properties *)

\* Every variable keeps its type; s_valid_count, a C int, never goes negative.
TypeOK ==
  /\ ram \in Images /\ watched \subseteq Pages
  /\ gen \in [Pages -> 0..MaxGen]
  /\ slot \in [Cands -> Nat]
  /\ cstate \in [Cands -> States]
  /\ val_gen \in [Cands -> Nat]
  /\ valid_count \in Nat
  /\ diff_passes \in [Cands -> 0..OVERLAY_DIFF_BUDGET]
  /\ device_touch \in [Cands -> BOOLEAN]
  /\ hint \in [Buckets -> Cands \cup {NoCand}]
  /\ frames \in Seq(Cands) /\ active \in Seq(Cands)
  /\ shadow.pass \in {"off", "interp", "native"}
  /\ InShadow => shadow.cand \in Cands /\ shadow.saved \in Images

\* The native call made by a step, if any.
CallsNative == Len(frames') > Len(frames)
Callee == frames'[Len(frames')]

\* The program as it ships: no sljit shards, no differential runs.
DefaultTier == ~g_sljit_tier_enabled /\ ~s_diff_mode /\ ~s_sljit_live

\* As shipped, a compiled overlay function is entered only while RAM holds,
\* byte for byte, the code it was compiled from (dispatch_impl, cand_match:
\* the generation fast path never lets stale code through).
NativeRunsLiveBytes ==
  [][DefaultTier /\ CallsNative => Resident(Callee)]_vars

\* As shipped, an unchanged generation sum proves the recorded verdict: a
\* known-valid entry is still valid and a known-invalid one still invalid
\* (the contract of cand_match that every writer of RAM has to keep).
GenerationTrust ==
  DefaultTier =>
    \A c \in Live : cand_gensum(c) = val_gen[c] =>
                       (cstate[c] = "VALID" <=> Resident(c))

\* A store that changes the code of a native function on the host stack
\* demotes that function at once (overlay_watch_note_write: the next
\* dispatch would be too late), as long as no longjmp discards native frames
\* without taking them off the stack of active functions.
SelfModCaught ==
  [][\A c \in Range(frames) :
        (~unwinds /\ frames' = frames /\ \E w \in Code(c) : ram'[w] # ram[w])
          => cstate'[c] = "BLACKLIST"]_vars

\* Nothing else is demoted: a compiled function loses its native code for
\* good only when it was modified while executing; every other rewrite is
\* left to the lazy check at dispatch.  The same restriction applies.
OnlyExecutingDemoted ==
  [][\A c \in Cands \ Shards :
        ~unwinds /\ cstate[c] # "BLACKLIST" /\ cstate'[c] = "BLACKLIST"
          => c \in Range(frames)]_vars

\* In live mode a shard is entered only with OVERLAY_DIFF_BUDGET clean
\* differential runs to its credit, and never once it is known to touch a
\* device (the want_diff and device_touch gates of dispatch_impl).  Dispatch
\* by continuation, which has no such gates, is off.
ShardEarnsTrust ==
  [][CallsNative /\ Callee \in Shards /\ (s_diff_mode \/ s_sljit_live) /\ ~g_psx_cps_mode
       => /\ diff_passes[Callee] = OVERLAY_DIFF_BUDGET
          /\ ~device_touch[Callee]]_vars

=============================================================================
