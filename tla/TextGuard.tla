------------------------------ MODULE TextGuard ------------------------------
(***************************************************************************)
(* The guard that keeps the statically compiled game text from running     *)
(* once guest RAM no longer holds the code it was compiled from: the       *)
(* dirty-page bitmap, the reference image and the modified and diverged    *)
(* bitmaps of memory.c, the dispatchers that ask dirty_ram_text_native_ok, *)
(* the translation layer that patches text data behind the store path, and *)
(* the save states that replace RAM and the dirty bitmap only.             *)
(*                                                                         *)
(* RAM is a set of words in pages of PAGE words; a word of the game text   *)
(* is code or data.  Stores that the isolated cache swallows, and the      *)
(* overlay candidates that a dispatch tries before interpreting            *)
(* (OverlayValidity), are left out.                                        *)
(***************************************************************************)
EXTENDS Naturals

CONSTANTS
  RamWords,   \* the words of RAM the behaviour touches
  PAGE,       \* words in a page
  KERNEL_END, \* DIRTY_RAM_KERNEL_TRACK_BYTES: stores below mark their page
  TEXT_LO, TEXT_HI, \* the boot EXE's text, [text_ref_lo, text_ref_hi)
  WIN,        \* words compared at an entry (256 bytes)
  Instrs,     \* the words of the text that are instructions
  Vals,       \* contents of a word
  Image,      \* the boot EXE: what the text was compiled from
  Target,     \* what the translation layer puts in a data word
  Compiled,   \* entries with a compiled function
  OldSaves    \* whether a save of an earlier process may be loaded

Text == {w \in RamWords : TEXT_LO <= w /\ w < TEXT_HI}
Page(w) == w \div PAGE
TextPages == {Page(w) : w \in RamWords}
KernelPages == {p \in TextPages : p < Page(KERNEL_END)}

ASSUME TextAssumption ==
  /\ RamWords \subseteq Nat /\ PAGE \in Nat \ {0} /\ KERNEL_END \in Nat
  /\ TEXT_LO \in Nat /\ TEXT_HI \in Nat /\ WIN \in Nat \ {0}
  /\ Instrs \subseteq Text /\ Compiled \subseteq Instrs
  /\ Image \in [Text -> Vals] /\ Target \in [Text \ Instrs -> Vals]
  /\ OldSaves \in BOOLEAN /\ 0 \in Vals

VARIABLES
  mem,      \* guest RAM
  armed,    \* an EXE file was found: text_ref_image is registered
  refImage, \* text_ref_image
  modified, \* text_modified_bitmap
  diverged, \* text_diverged_bitmap
  dirty,    \* dirty_ram_bitmap
  patched,  \* text data already translated (gl.patched, m.patched, s.patched)
  started,  \* s_game_started
  inGame,   \* the guest machine is past the game's entry
  file,     \* a save state: RAM, dirty bitmap, and how far the guest was
  ran       \* the function the last dispatch entered, and by which tier

guardVars == <<refImage, modified, diverged, patched, started>>
textVars == <<mem, armed, guardVars, dirty, inGame, file, ran>>

NoRun == [via |-> "none", at |-> 0, tier |-> "none"]
NoSave == [ok |-> FALSE]

-----------------------------------------------------------------------------
(* Stores *)

\* Missing the last word of the text.
text_guard_note_write_short(w, v) ==
  modified' = IF armed /\ w \in Text /\ w + 1 < TEXT_HI /\ refImage[w] # v
              THEN modified \cup {Page(w)} ELSE modified
text_guard_note_write(w, v) ==
  modified' = IF armed /\ w \in Text /\ refImage[w] # v
              THEN modified \cup {Page(w)} ELSE modified

\* dirty_ram_mark_kernel_write
KernelMark(w) == IF w < KERNEL_END THEN {Page(w)} ELSE {}

\* A store by the CPU or a DMA channel.
psx_write_word(w, v) ==
  /\ dirty' = dirty \cup KernelMark(w)
  /\ text_guard_note_write(w, v)
  /\ mem' = [mem EXCEPT ![w] = v]
  /\ ran' = NoRun
  /\ UNCHANGED <<armed, refImage, diverged, patched, started, inGame, file>>

\* A word of a CD-ROM DMA: stored, then its page marked executable.
cdrom_dma_word(w, v) ==
  /\ dirty' = dirty \cup KernelMark(w) \cup {Page(w)}
  /\ text_guard_note_write(w, v)
  /\ mem' = [mem EXCEPT ![w] = v]
  /\ ran' = NoRun
  /\ UNCHANGED <<armed, refImage, diverged, patched, started, inGame, file>>

\* dirty_ram_clear_image_baseline, on the first arrival at the game's entry.
clear_image_baseline == IF started THEN dirty ELSE dirty \cap KernelPages

\* The game's entry is dispatched: the BIOS has loaded the EXE.
GameStart ==
  /\ ~inGame
  /\ \A w \in Instrs : mem[w] = Image[w]
  /\ dirty' = clear_image_baseline
  /\ started' = TRUE /\ inGame' = TRUE
  /\ ran' = NoRun
  /\ UNCHANGED <<mem, armed, refImage, modified, diverged, patched, file>>

\* dirty_ram_text_bless of one word.
dirty_ram_text_bless(w, v) ==
  IF armed /\ refImage[w] # v
  THEN /\ refImage' = [refImage EXCEPT ![w] = v]
       /\ diverged' = diverged \ {Page(w)}
  ELSE UNCHANGED <<refImage, diverged>>

\* The translation layer finds an untranslated text resident, overwrites it
\* without going through the store path, and blesses what it wrote.
patch_locked(w) ==
  /\ w \in Text \ Instrs /\ w \notin patched
  /\ mem[w] = Image[w]
  /\ mem' = [mem EXCEPT ![w] = Target[w]]
  /\ dirty_ram_text_bless(w, Target[w])
  /\ patched' = patched \cup {w}
  /\ ran' = NoRun
  /\ UNCHANGED <<armed, modified, dirty, started, inGame, file>>

-----------------------------------------------------------------------------
(* Save states and restarts *)

boot_state_save ==
  /\ file' = [ok |-> TRUE, mem |-> mem, dirty |-> dirty, inGame |-> inGame]
  /\ ran' = NoRun
  /\ UNCHANGED <<mem, armed, guardVars, dirty, inGame>>

\* RAM and the dirty bitmap come from the file; the guard's own state does not.
boot_state_load ==
  /\ file.ok
  /\ mem' = file.mem /\ dirty' = file.dirty /\ inGame' = file.inGame
  /\ ran' = NoRun
  /\ UNCHANGED <<armed, guardVars, file>>

\* The program exits and is started again: only the file survives,
\* and only where OldSaves lets the new process load it.
Restart ==
  /\ mem' = [w \in RamWords |-> 0]
  /\ refImage' = Image
  /\ modified' = {} /\ diverged' = {} /\ dirty' = {} /\ patched' = {}
  /\ started' = FALSE /\ inGame' = FALSE
  /\ file' = IF OldSaves THEN file ELSE NoSave
  /\ ran' = NoRun
  /\ UNCHANGED armed

-----------------------------------------------------------------------------
(* Dispatch *)

\* The words compared at an entry: WIN of them, clipped to the text.
Window(e) == {w \in Text : e <= w /\ w < e + WIN}

Untouched(p) == p \notin modified /\ p \notin dirty

Matches(e) == \A w \in Window(e) : mem[w] = refImage[w]

\* A guard that compares only pages the CD-ROM has written.
native_ok_dirty(e) ==
  IF ~armed THEN Page(e) \notin dirty
  ELSE /\ Page(e) \notin diverged
       /\ Page(e) \notin dirty \/ Matches(e)
\* dirty_ram_text_native_ok for an entry in the text.
dirty_ram_text_native_ok(e) ==
  IF ~armed THEN Page(e) \notin dirty
  ELSE /\ Page(e) \notin diverged
       /\ Untouched(Page(e)) \/ Matches(e)

\* Its side effect: a mismatch makes the page diverged for good.
NoteDiverged(e) ==
  diverged' = IF armed /\ ~dirty_ram_text_native_ok(e)
              THEN diverged \cup {Page(e)} ELSE diverged

Enter(via, e, tier) ==
  /\ ran' = [via |-> via, at |-> e, tier |-> tier]
  /\ NoteDiverged(e)
  /\ UNCHANGED <<mem, armed, refImage, modified, dirty, patched, started,
                 inGame, file>>

\* dirty_ram_dispatch_inner for an address in the text: the compiled function
\* if there is one, whatever the guard says; else the interpreter if the guard
\* is content or the page is dirty; else psx_unknown_dispatch.
DispatchTier(e) ==
  IF e \in Compiled THEN "native"
  ELSE IF dirty_ram_text_native_ok(e) \/ Page(e) \in dirty THEN "interp"
  ELSE "fatal"

dirty_ram_dispatch_inner(e) == Enter("dispatch", e, DispatchTier(e))

\* A call from interpreted or JIT code (interp_enter_compiled,
\* psx_sljit_call_inner): compiled only if the guard is content; otherwise the
\* caller declines and follows the live bytes itself.
interp_enter_compiled(e) ==
  Enter("call", e, IF e \in Compiled /\ dirty_ram_text_native_ok(e)
                   THEN "native" ELSE "declined")

-----------------------------------------------------------------------------
TextInit ==
  /\ mem = [w \in RamWords |-> 0]
  /\ armed \in BOOLEAN
  /\ refImage = Image
  /\ modified = {} /\ diverged = {} /\ dirty = {} /\ patched = {}
  /\ started = FALSE /\ inGame = FALSE
  /\ file = NoSave /\ ran = NoRun

TextNext ==
  \/ \E w \in RamWords, v \in Vals : psx_write_word(w, v) \/ cdrom_dma_word(w, v)
  \/ GameStart
  \/ \E w \in Text : patch_locked(w)
  \/ boot_state_save
  \/ boot_state_load
  \/ Restart
  \/ \E e \in Instrs : inGame /\ (dirty_ram_dispatch_inner(e) \/ interp_enter_compiled(e))

TextSpec == TextInit /\ [][TextNext]_textVars

-----------------------------------------------------------------------------
(* Properties *)

\* Once the game runs, a page that no guarded write changed and that is not
\* dirty holds the instructions it was compiled from: what the fast path of
\* dirty_ram_text_native_ok takes for granted, with stores, DMA, translation
\* patches and loads of save states in any order.
FastPathIsPristine ==
  armed /\ inGame =>
    \A w \in Instrs : Untouched(Page(w)) => mem[w] = Image[w]

\* A call that goes through the guard enters compiled code only while the
\* compared instructions of the entry's page are the ones it was compiled from
\* (interp_enter_compiled, psx_sljit_call_inner).
GuardedCallsRunLiveCode ==
  armed /\ ran.via = "call" /\ ran.tier = "native" =>
    \A w \in Window(ran.at) \cap Instrs :
      Page(w) = Page(ran.at) => mem[w] = Image[w]
=============================================================================
