----------------------------- MODULE Autocompile -----------------------------
(***************************************************************************)
(* How an overlay that runs in the interpreter goes native in the same     *)
(* session: pressure on the interpreter fires a capture, the capture       *)
(* starts a compile process, a thread waits for it, the emulation thread   *)
(* picks the result up on a later frame and rescans the cache, and a       *)
(* dispatch miss loads what the rescan found (overlay_capture.c,           *)
(* autocompile.c, overlay_loader.c).                                       *)
(*                                                                         *)
(* One region of RAM; a variant is an image it may hold, and the DLL       *)
(* compiled from it.  One interpreted dispatch stands for the number that  *)
(* makes a sample exceed its threshold.  The debug server's manual request *)
(* and a failure to allocate the thread's context are left out.            *)
(***************************************************************************)
EXTENDS Integers

CONSTANTS
  Variants, NoVariant,
  Entries,               \* where each variant's functions are dispatched
  AUTOCAP_MAX_TRIGGERS,  \* captures a session may fire
  Faults                 \* the settings of `faults' to consider

ASSUME AutoAssumption ==
  /\ DOMAIN Entries = Variants /\ NoVariant \notin Variants
  /\ AUTOCAP_MAX_TRIGGERS \in Nat /\ Faults \subseteq BOOLEAN

Addresses == UNION {Entries[v] : v \in Variants}

VARIABLES
  faults,      \* spawning, the thread or the process may fail; never changes
  image,       \* the variant in RAM
  pressure,    \* interpreted dispatches since the last sample reach the gate
  cooled,      \* AUTOCAP_COOLDOWN_FRAMES have passed since the last capture
  triggers,    \* s_autocap_triggers
  captures,    \* the variant in overlay_captures.json
  ac_state,    \* s_state of autocompile.c
  exit_code,   \* s_exit_code
  child,       \* the compile process
  watching,    \* watch_thread runs
  dlls,        \* DLLs in the cache directory
  s_cache_idx, \* DLLs the loader knows of
  s_checked,   \* the region was looked up since the last rescan
  cands,       \* DLLs whose functions are registered
  fpc          \* where the emulation thread is in its frame

loaderVars == <<s_cache_idx, s_checked, cands>>
captureVars == <<pressure, cooled, triggers, captures>>
procVars == <<ac_state, exit_code, child, watching, dlls>>
autoVars == <<faults, image, captureVars, procVars, loaderVars, fpc>>

AutoInit ==
  /\ faults \in Faults
  /\ image \in Variants
  /\ pressure = FALSE /\ cooled = TRUE /\ triggers = 0 /\ captures = NoVariant
  /\ ac_state = "IDLE" /\ exit_code = -1 /\ child = "none" /\ watching = FALSE
  /\ dlls \in SUBSET Variants /\ s_cache_idx = dlls
  /\ s_checked = FALSE /\ cands = {}
  /\ fpc = "game"

-----------------------------------------------------------------------------
(* The game, between two frames *)

LoadVariant(v) ==
  /\ fpc = "game" /\ v # image
  /\ image' = v
  /\ UNCHANGED <<captureVars, procVars, loaderVars, fpc>>

HasCandidate(a) == \E v \in cands : a \in Entries[v]

\* Dispatch of an entry of the variant in RAM.  Only an address without a
\* candidate makes try_load_region look; then the functions that match RAM run
\* native, everything else is interpreted.
dispatch_impl(a) ==
  /\ fpc = "game" /\ a \in Entries[image]
  /\ IF HasCandidate(a) THEN UNCHANGED <<s_checked, cands>>
     ELSE /\ s_checked' = TRUE
          /\ cands' = IF s_checked THEN cands ELSE cands \cup s_cache_idx
  /\ pressure' = (pressure \/ image \notin cands')
  /\ UNCHANGED <<image, cooled, triggers, captures, procVars, s_cache_idx, fpc>>

-----------------------------------------------------------------------------
(* The frame: overlay_autocapture_tick, then autocompile_poll_main *)

autocompile_busy == ac_state = "RUNNING"

\* autocompile_request: a process and the thread that waits for it, or nothing.
\* The code does not look whether the thread was created.
autocompile_request ==
  \/ /\ ac_state' = "RUNNING" /\ child' = "running"
     /\ watching' \in (IF faults THEN BOOLEAN ELSE {TRUE})
  \/ faults /\ UNCHANGED <<ac_state, child, watching>>

MayCapture ==
  pressure /\ ~autocompile_busy /\ triggers < AUTOCAP_MAX_TRIGGERS /\ cooled

\* No sample is due in this frame.
SkipSample == UNCHANGED <<captureVars, ac_state, child, watching>>

\* A sample without a capture: pressure starts anew.  A disc load may be the reason.
SampleOnly ==
  /\ pressure' = FALSE
  /\ UNCHANGED <<cooled, triggers, captures, ac_state, child, watching>>

Capture ==
  /\ MayCapture
  /\ pressure' = FALSE /\ cooled' = FALSE /\ triggers' = triggers + 1
  /\ captures' = image
  /\ autocompile_request

overlay_autocapture_tick ==
  /\ fpc = "game" /\ fpc' = "poll"
  /\ SkipSample \/ SampleOnly \/ Capture
  /\ UNCHANGED <<image, exit_code, dlls, loaderVars>>

\* Rescanning without forgetting which regions were looked up.
rescan_keeps_checked == s_cache_idx' = dlls /\ UNCHANGED s_checked
overlay_loader_rescan == s_cache_idx' = dlls /\ s_checked' = FALSE

autocompile_poll_main ==
  /\ fpc = "poll" /\ fpc' = "game"
  /\ IF ac_state = "DONE"
     THEN /\ ac_state' = "IDLE"
          /\ IF exit_code = 0 THEN overlay_loader_rescan
             ELSE UNCHANGED <<s_cache_idx, s_checked>>
     ELSE UNCHANGED <<ac_state, s_cache_idx, s_checked>>
  /\ UNCHANGED <<image, captureVars, exit_code, child, watching, dlls, cands>>

\* Frames pass until the cooldown is over.
CoolDown ==
  /\ ~cooled /\ cooled' = TRUE
  /\ UNCHANGED <<image, pressure, triggers, captures, procVars, loaderVars, fpc>>

-----------------------------------------------------------------------------
(* The compile process and the thread that waits for it *)

\* tools/compile_overlays.py, the usual command, exits with 0 whether or not it made a DLL:
\* a capture it cannot recompile, audit or compile is skipped, and so is one whose
\* functions the cache already has.
ChildSucceeds ==
  /\ child = "running" /\ child' = "ok"
  /\ dlls' \in {dlls, dlls \cup {captures}}
  /\ UNCHANGED <<image, captureVars, ac_state, exit_code, watching, loaderVars, fpc>>

\* An exception or sys.exit ends it, at any place.
ChildFails ==
  /\ faults
  /\ child = "running" /\ child' = "failed"
  /\ dlls' \in {dlls, dlls \cup {captures}}
  /\ UNCHANGED <<image, captureVars, ac_state, exit_code, watching, loaderVars, fpc>>

watch_thread ==
  /\ watching /\ child \in {"ok", "failed"}
  /\ exit_code' = IF child = "ok" THEN 0 ELSE 1
  /\ ac_state' = "DONE" /\ child' = "none" /\ watching' = FALSE
  /\ UNCHANGED <<image, captureVars, dlls, loaderVars, fpc>>

-----------------------------------------------------------------------------
Frame == overlay_autocapture_tick \/ autocompile_poll_main
Compile == ChildSucceeds \/ ChildFails \/ watch_thread

AutoNext ==
  /\ \/ \E v \in Variants : LoadVariant(v)
     \/ \E a \in Addresses : dispatch_impl(a)
     \/ Frame \/ CoolDown \/ Compile
  /\ UNCHANGED faults

\* Frames, the process and the thread go on, and the game keeps calling every
\* function of the variant that stays in RAM.
AutoFairness ==
  /\ WF_autoVars(Frame /\ UNCHANGED faults) /\ WF_autoVars(Compile /\ UNCHANGED faults)
  /\ \A a \in Addresses : SF_autoVars(dispatch_impl(a) /\ UNCHANGED faults)

AutoSpec == AutoInit /\ [][AutoNext]_autoVars /\ AutoFairness

-----------------------------------------------------------------------------
\* A variant whose DLL is compiled while it stays in RAM goes native in the
\* session if nothing fails: the frame after the compile rescans the cache, and the next
\* dispatch loads the DLL (autocompile_poll_main, try_load_region).
CompiledGoesNative ==
  \A v \in Variants : (~faults /\ image = v /\ v \in dlls) ~> (v \in cands \/ image # v)
=============================================================================
