----------------------------- MODULE Exceptions -----------------------------
(***************************************************************************)
(* Interrupt delivery (interrupts.c) composed with the guest threads and   *)
(* the deterministic TCB scheduler (traps.c).  Guest code checks for       *)
(* interrupts at a block leader and then runs the block.  A delivery runs  *)
(* the guest's handler synchronously on the host stack: `host' holds one   *)
(* record of C locals per psx_check_interrupts frame still alive, and the  *)
(* handler leaves through longjmp(exception_jmpbuf), one buffer shared by  *)
(* all frames.  Registers are abstracted to whose they are: <<t, v>> is    *)
(* version v of thread t's registers, Junk what a handler left in them.    *)
(***************************************************************************)
EXTENDS Naturals, Sequences, FiniteSets

CONSTANTS
  Sources,           \* interrupt sources (bits of I_STAT)
  SIO,               \* the source exempt from the cooldown
  Threads, None,     \* thread control blocks; no thread
  PCs,               \* block leaders of thread code
  Handler, Sentinel, \* the handler's PC; PSX_EXC_SENTINEL_PC
  Junk,
  Programs,          \* the guest programs considered, each with the runtime's setting
  CLAIMED, UNCLAIMED \* post-exception cooldowns, in blocks

\* What a guest program may do: have checks at a trampoline boundary (no resume
\* PC), change PCB[0] in its handler, set IEc again in its handler, yield to a
\* thread it has closed, close threads, leave the handler of a precise delivery by
\* a plain return, have a kernel in dirty RAM, whose RFE may be interpreted.
Deeds == {"boundary", "preempts", "reenables", "unrunnable", "closes", "returns", "interprets"}

ASSUME ExceptionsAssumption ==
  /\ Programs \subseteq [str_mode : 0..2, does : SUBSET Deeds, wired : SUBSET Sources]
  /\ {CLAIMED, UNCLAIMED} \subseteq Nat
  /\ None \notin Threads /\ Junk \notin Threads \X {0, 1}
  /\ Handler # Sentinel /\ {Handler, Sentinel, None} \cap PCs = {}

VARIABLES
  s_str_mode,                  \* PSX_SAME_THREAD_RESTORE: 0, 1 or 2
  does, wired,                 \* the guest program's deeds; the sources it uses
  i_stat, i_mask, sr,          \* the interrupt controller and COP0.SR
  pc, gpr,                     \* what the CPU is running, with which registers
  current, tstate, tcb,        \* PCB[0], the TCB states and saved contexts
  g_sched_return_tcb,
  host, exception_jmpbuf,      \* live delivery frames; the frame setjmp last saved
  in_exception, exception_nest_depth,
  g_exception_real_epc, g_exc_escape_reason, g_rfe_escape_pending,
  cooldown,                    \* blocks left until post_exception_cooldown_until
  leader,                      \* the next step is the leader's interrupt check
  run,                         \* "guest", "exit" (main returned) or "fatal"
  latest                       \* ghost: the version of each thread's registers

cpu == <<sr, pc, gpr>>
threads == <<current, tstate, tcb, g_sched_return_tcb>>
escape == <<g_exception_real_epc, g_exc_escape_reason, g_rfe_escape_pending>>
frames == <<host, exception_jmpbuf, in_exception, exception_nest_depth>>
program == <<s_str_mode, does, wired>>
machine == <<i_stat, i_mask, cpu, threads, frames, escape, cooldown, leader, run, latest>>
vars == <<program, machine>>

\* Exception entry shifts the three IE bits left.  The runtime's pops, and the RFE
\* compiled for the BIOS, clear the oldest; every other RFE keeps it.
PushSR(s) == [s EXCEPT !.c = FALSE, !.p = s.c, !.o = s.p]
PopSR(s) == [s EXCEPT !.c = s.p, !.p = s.o, !.o = FALSE]
RfeSR(s) == [s EXCEPT !.c = s.p, !.p = s.o]

Top == host[Len(host)]
Own(t) == <<t, latest[t]>>

Init ==
  /\ \E p \in Programs : s_str_mode = p.str_mode /\ does = p.does /\ wired = p.wired
  /\ i_stat = {} /\ i_mask \in SUBSET wired
  /\ sr = [c |-> FALSE, p |-> FALSE, o |-> FALSE, im |-> FALSE]
  /\ current \in Threads
  /\ tstate = [t \in Threads |-> IF t = current THEN "run" ELSE "free"]
  /\ latest = [t \in Threads |-> 0]
  /\ pc \in PCs /\ gpr = Own(current)
  /\ tcb = [t \in Threads |-> [pc |-> pc, gpr |-> gpr, sr |-> sr]]
  /\ g_sched_return_tcb = None
  /\ host = <<>> /\ exception_jmpbuf = 0
  /\ in_exception = FALSE /\ exception_nest_depth = 0
  /\ g_exception_real_epc = Sentinel /\ g_exc_escape_reason = "NONE"
  /\ g_rfe_escape_pending = FALSE
  /\ cooldown = 0 /\ leader = TRUE /\ run = "guest"

\* A device raises its source, whatever the CPU is doing.
Raise(s) ==
  /\ run = "guest" /\ s \notin i_stat
  /\ i_stat' = i_stat \cup {s}
  /\ UNCHANGED <<i_mask, cpu, threads, frames, escape, cooldown, leader, run, latest>>

-----------------------------------------------------------------------------
(* psx_check_interrupts at a block leader: gates, then delivery.           *)

\* Inside a handler: never while an escape unwinds, at most one level deeper,
\* and only if the guest set IEc again.
NestGate ==
  in_exception => /\ exception_nest_depth < 2
                  /\ ~g_rfe_escape_pending
                  /\ g_exc_escape_reason = "NONE"
                  /\ sr.c

CanDeliver ==
  /\ i_stat \cap i_mask # {}
  /\ NestGate
  /\ cooldown = 0
  /\ sr.c /\ sr.im

\* The delivery: push SR, install EPC, snapshot the registers in C locals,
\* setjmp, dispatch the handler.  The guest's handler prologue (external)
\* saves the interrupted context in the current thread's TCB; a handler that
\* allows nesting keeps the context that was there, `outer'.
EntryEpc(resume_pc) == IF resume_pc = None THEN Sentinel ELSE resume_pc

Deliver(resume_pc) ==
  LET epc == EntryEpc(resume_pc) IN
  /\ host' = Append(host, [saved |-> gpr, pc |-> pc, tcb |-> current,
                           prev |-> in_exception, stat |-> i_stat,
                           outer |-> tcb[current]])
  /\ exception_jmpbuf' = Len(host) + 1
  /\ in_exception' = TRUE
  /\ exception_nest_depth' = exception_nest_depth + 1
  /\ sr' = PushSR(sr)
  /\ g_exception_real_epc' = epc
  /\ g_exc_escape_reason' = IF resume_pc = None THEN "LEGACY_SENTINEL" ELSE "NONE"
  /\ g_rfe_escape_pending' = FALSE
  /\ tcb' = [tcb EXCEPT ![current] = [pc |-> epc, gpr |-> gpr, sr |-> PushSR(sr)]]
  /\ pc' = Handler /\ gpr' = Junk /\ leader' = TRUE
  /\ UNCHANGED <<i_stat, i_mask, current, tstate, g_sched_return_tcb, cooldown, run, latest>>

Check(resume_pc) ==
  /\ run = "guest" /\ leader /\ pc # Sentinel
  /\ IF CanDeliver
     THEN Deliver(resume_pc)
     ELSE /\ leader' = FALSE
          /\ UNCHANGED <<i_stat, i_mask, cpu, threads, frames, escape, cooldown, run, latest>>

PreciseCheck == Check(pc)
BoundaryCheck == "boundary" \in does /\ Check(None)

-----------------------------------------------------------------------------
(* Leaving the handler: the epilogue of psx_check_interrupts, reached with  *)
(* the guest state (p, g, s), p being None for cpu->pc = 0, and the escape   *)
(* reason.                                                                  *)

DoRestore_always(p, reason) == TRUE

\* Should the frame's saved registers overwrite what the handler left?
DoRestore(p, reason) ==
  \/ reason = "LEGACY_SENTINEL"
  \/ s_str_mode = 1 /\ p = g_exception_real_epc
  \/ s_str_mode = 2 /\ p = g_exception_real_epc /\ current = Top.tcb

Cooldown_none == 0

Cooldown ==
  IF i_stat \cap i_mask # {} /\ i_stat = Top.stat THEN UNCLAIMED
  ELSE IF SIO \in (Top.stat \ i_stat) \cup (i_stat \cap i_mask) THEN 0
  ELSE CLAIMED

EpilogueSR_keep(s) == s
EpilogueSR(s) == IF s.c THEN s ELSE PopSR(s)

RestoredFlag_clear == FALSE
RestoredFlag == Top.prev

\* Compiled code goes on at the leader it checked, whatever cpu->pc holds; the
\* interpreter goes on at cpu->pc unless that is 0.
ResumePCs(p) == IF p = None THEN {Top.pc} ELSE {Top.pc, p}

Epilogue(p, g, s, reason) ==
  /\ gpr' = IF DoRestore(p, reason) THEN Top.saved ELSE g
  /\ pc' \in ResumePCs(p)
  /\ sr' = EpilogueSR(s)
  /\ in_exception' = RestoredFlag
  /\ exception_nest_depth' = exception_nest_depth - 1
  /\ host' = SubSeq(host, 1, Len(host) - 1)
  /\ g_rfe_escape_pending' = FALSE /\ g_exc_escape_reason' = "NONE"
  /\ cooldown' = Cooldown
  /\ leader' = TRUE
  /\ UNCHANGED <<i_stat, i_mask, current, tstate, g_sched_return_tcb,
                 exception_jmpbuf, g_exception_real_epc, run, latest>>

\* longjmp to a frame that has returned is undefined: the model stops there.
JmpTargetLive == exception_jmpbuf = Len(host)

\* A handler that nested puts back the context its own handler had saved.
OuterTcb == IF Len(host) = 2 /\ pc = Handler THEN [tcb EXCEPT ![Top.tcb] = Top.outer] ELSE tcb

InHandler == run = "guest" /\ ~leader /\ pc = Handler /\ ~g_rfe_escape_pending

Ack(S) ==
  /\ InHandler /\ S # {}
  /\ i_stat' = i_stat \ S /\ leader' = TRUE
  /\ UNCHANGED <<i_mask, cpu, threads, frames, escape, cooldown, run, latest>>

Reenable ==
  /\ "reenables" \in does /\ InHandler /\ ~sr.c
  /\ sr' = [sr EXCEPT !.c = TRUE, !.im = TRUE] /\ leader' = TRUE
  /\ UNCHANGED <<i_stat, i_mask, pc, gpr, threads, frames, escape, cooldown, run, latest>>

Preempt(t) ==
  /\ "preempts" \in does /\ InHandler /\ Len(host) = 1 /\ t # current /\ tstate[t] = "run"
  /\ current' = t /\ leader' = TRUE
  /\ UNCHANGED <<i_stat, i_mask, cpu, tstate, tcb, g_sched_return_tcb, frames, escape,
                 cooldown, run, latest>>

\* RestoreState inside the handler: longjmp code 2 dispatches the handler again.
RestoreStateEscape ==
  /\ InHandler /\ JmpTargetLive
  /\ gpr' = Junk /\ leader' = TRUE
  /\ UNCHANGED <<i_stat, i_mask, sr, pc, threads, frames, escape, cooldown, run, latest>>

\* The RFE instruction, compiled: psx_rfe_mark_escape arms the escape ...
CompiledRfe(s) ==
  /\ sr' \in {PopSR(s), RfeSR(s)}
  /\ IF g_exc_escape_reason # "LEGACY_SENTINEL"
     THEN g_rfe_escape_pending' = TRUE /\ g_exc_escape_reason' = "RFE_RETURN"
     ELSE UNCHANGED <<g_rfe_escape_pending, g_exc_escape_reason>>

\* ... and interpreted: SR only, so that the code it returns to goes on running
\* inside the handler's window.
InterpretedRfe(s) ==
  /\ "interprets" \in does
  /\ sr' = RfeSR(s)
  /\ UNCHANGED <<g_rfe_escape_pending, g_exc_escape_reason>>

\* The BIOS handler's ReturnFromException: reload the current thread's TCB, jr with
\* RFE in the delay slot.  Its reload of the interrupted thread's own registers may
\* be incomplete.
ReturnFromException ==
  LET r == tcb[current] IN
  /\ InHandler
  /\ CompiledRfe(r.sr) \/ InterpretedRfe(r.sr)
  /\ pc' = r.pc
  /\ gpr' \in IF current = Top.tcb THEN {r.gpr, Junk} ELSE {r.gpr}
  /\ tcb' = OuterTcb
  /\ leader' = TRUE
  /\ UNCHANGED <<i_stat, i_mask, current, tstate, g_sched_return_tcb, frames,
                 g_exception_real_epc, cooldown, run, latest>>

\* psx_rfe_escape_check in the trampoline.
RfeEscape ==
  /\ run = "guest" /\ g_rfe_escape_pending /\ in_exception /\ JmpTargetLive
  /\ Epilogue(pc, gpr, sr, g_exc_escape_reason)
  /\ UNCHANGED tcb

\* Dispatching the sentinel inside the handler window: pc = 0 and longjmp.
SentinelEscape ==
  /\ run = "guest" /\ pc = Sentinel /\ in_exception /\ ~g_rfe_escape_pending /\ JmpTargetLive
  /\ Epilogue(None, gpr, sr, g_exc_escape_reason)
  /\ UNCHANGED tcb

\* SYSCALL 3 while in_exception: reload the current TCB and leave at once.
SyscallReturn ==
  LET r == tcb[current] IN
  /\ run = "guest" /\ ~leader /\ in_exception /\ pc # Sentinel
  /\ ~g_rfe_escape_pending /\ JmpTargetLive
  /\ Epilogue(r.pc, r.gpr, PopSR(r.sr), "SYSCALL_RETURN")
  /\ tcb' = OuterTcb

\* The dispatch of the handler returns to psx_check_interrupts without an escape:
\* a plain return of the handler, or the end of a thread whose code is running
\* inside its window.
HandlerReturns ==
  /\ run = "guest" /\ ~leader /\ in_exception /\ ~g_rfe_escape_pending
  /\ \/ pc = Handler /\ (g_exc_escape_reason = "LEGACY_SENTINEL" \/ "returns" \in does)
     \/ pc \in PCs /\ tstate[current] # "run"
  /\ Epilogue(None, gpr, sr, g_exc_escape_reason)
  /\ tcb' = OuterTcb

-----------------------------------------------------------------------------
(* Thread code: a block body after its leader's check.                      *)

InThread == run = "guest" /\ ~leader /\ pc \in PCs /\ ~g_rfe_escape_pending

Less(n) == IF n = 0 THEN 0 ELSE n - 1

Work(p) ==
  /\ InThread
  /\ latest' = [latest EXCEPT ![current] = 1 - @]
  /\ gpr' = IF gpr = Own(current) THEN <<current, latest'[current]>> ELSE gpr
  /\ pc' = p
  /\ cooldown' = Less(cooldown)
  /\ leader' = TRUE
  /\ UNCHANGED <<i_stat, i_mask, sr, threads, frames, escape, run>>

\* EnterCriticalSection and ExitCriticalSection (SYSCALL 1 and 2).
CriticalSection(enter) ==
  /\ InThread
  /\ sr' = IF enter THEN [sr EXCEPT !.c = FALSE] ELSE [sr EXCEPT !.c = TRUE, !.im = TRUE]
  /\ leader' = TRUE
  /\ UNCHANGED <<i_stat, i_mask, pc, gpr, threads, frames, escape, cooldown, run, latest>>

\* The kernel's OpenThread and CloseThread (guest code, external).
OpenThread(t, p) ==
  /\ InThread /\ tstate[t] = "free" /\ t # current
  /\ tstate' = [tstate EXCEPT ![t] = "run"]
  /\ tcb' = [tcb EXCEPT ![t] = [pc |-> p, gpr |-> Own(t), sr |-> PushSR(sr)]]
  /\ leader' = TRUE
  /\ UNCHANGED <<i_stat, i_mask, cpu, current, g_sched_return_tcb, frames, escape, cooldown,
                 run, latest>>

CloseThread(t) ==
  /\ "closes" \in does /\ InThread /\ tstate[t] = "run"
  /\ tstate' = [tstate EXCEPT ![t] = "free"]
  /\ leader' = TRUE
  /\ UNCHANGED <<i_stat, i_mask, cpu, current, tcb, g_sched_return_tcb, frames, escape,
                 cooldown, run, latest>>

\* psx_scheduler_run lands with PCB[0] = t: restore its TCB and dispatch it.
ResumeFrom(t, contexts) ==
  LET r == contexts[t] IN
  /\ current' = t /\ tcb' = contexts
  /\ gpr' = r.gpr /\ sr' = PopSR(r.sr)
  /\ IF r.pc = Sentinel
     THEN run' = "fatal" /\ UNCHANGED <<pc, leader>>
     ELSE pc' = r.pc /\ leader' = TRUE /\ UNCHANGED run

SavedTcb_none(p) == tcb

\* psx_save_context_to_tcb, only for a thread that is still runnable.
SavedTcb(p) ==
  IF tstate[current] = "run"
  THEN [tcb EXCEPT ![current] = [pc |-> p, gpr |-> gpr, sr |-> PushSR(sr)]]
  ELSE tcb

\* SYSCALL 3 outside a handler: psx_request_thread_switch(t), p the return address.
ChangeThread(t, p) ==
  /\ InThread /\ ~in_exception /\ t # current /\ tstate[t] = "run"
  /\ ResumeFrom(t, SavedTcb(p))
  /\ g_sched_return_tcb' = current
  /\ UNCHANGED <<i_stat, i_mask, tstate, frames, escape, cooldown, latest>>

\* ... with a target that is not runnable: the manual RFE from the current TCB.
ChangeThreadFallback(t) ==
  LET r == tcb[current] IN
  /\ "unrunnable" \in does /\ InThread /\ ~in_exception /\ t # current /\ tstate[t] # "run"
  /\ gpr' = r.gpr /\ sr' = PopSR(r.sr) /\ pc' = r.pc /\ leader' = TRUE
  /\ UNCHANGED <<i_stat, i_mask, threads, frames, escape, cooldown, run, latest>>

\* The outermost dispatch returns: one-level switch back to the yielder, or exit.
CanSwitchBack == g_sched_return_tcb # None /\ g_sched_return_tcb # current

DispatchReturns ==
  IF CanSwitchBack
  THEN /\ ResumeFrom(g_sched_return_tcb, tcb)
       /\ g_sched_return_tcb' = None
       /\ UNCHANGED <<i_stat, i_mask, tstate, frames, escape, cooldown, latest>>
  ELSE /\ run' = "exit"
       /\ UNCHANGED <<i_stat, i_mask, cpu, threads, frames, escape, cooldown, leader, latest>>

\* A thread whose function returns has closed itself first (external).
ThreadEnds == InThread /\ ~in_exception /\ tstate[current] # "run" /\ DispatchReturns

\* Dispatching the sentinel outside every handler: pc = 0, and the dispatch returns.
SentinelOutside == run = "guest" /\ pc = Sentinel /\ ~in_exception /\ DispatchReturns

SetMask(m) ==
  /\ InThread /\ m # i_mask
  /\ i_mask' = m /\ leader' = TRUE
  /\ UNCHANGED <<i_stat, cpu, threads, frames, escape, cooldown, run, latest>>

-----------------------------------------------------------------------------
MainBody ==
  \/ \E p \in PCs : Work(p)
  \/ \E e \in BOOLEAN : CriticalSection(e)
  \/ \E m \in SUBSET wired : SetMask(m)
  \/ \E t \in Threads, p \in PCs : OpenThread(t, p) \/ ChangeThread(t, p)
  \/ \E t \in Threads : CloseThread(t) \/ ChangeThreadFallback(t)
  \/ ThreadEnds

HandlerBody ==
  \/ \E S \in SUBSET i_stat : Ack(S)
  \/ Reenable
  \/ \E t \in Threads : Preempt(t)
  \/ RestoreStateEscape

HandlerExit ==
  ReturnFromException \/ RfeEscape \/ SentinelEscape \/ SyscallReturn \/ HandlerReturns

Stopped == run # "guest" /\ UNCHANGED machine

Next ==
  /\ \/ \E s \in wired : Raise(s)
     \/ PreciseCheck \/ BoundaryCheck
     \/ MainBody \/ HandlerBody \/ HandlerExit
     \/ SentinelOutside \/ Stopped
  /\ UNCHANGED program

Spec == Init /\ [][Next]_vars

\* Guest code keeps running: a leader's check is followed by the block's body,
\* an armed escape lands, and a handler eventually returns.
Fairness ==
  /\ WF_machine(PreciseCheck)
  /\ WF_machine(MainBody)
  /\ WF_machine(RfeEscape) /\ WF_machine(SentinelEscape)
  /\ SF_machine(HandlerExit)

FairSpec == Spec /\ Fairness

-----------------------------------------------------------------------------
\* The globals that say a handler is running agree with the host stack: in_exception
\* is set exactly while a psx_check_interrupts frame is live, exception_nest_depth
\* counts those frames, at most two of them, and an escape is armed only inside one.
InExceptionMatchesHost ==
  /\ in_exception = (host # <<>>)
  /\ exception_nest_depth = Len(host) /\ Len(host) <= 2
  /\ g_rfe_escape_pending => in_exception /\ g_exc_escape_reason = "RFE_RETURN"
  /\ ~in_exception => g_exc_escape_reason = "NONE"

\* The runtime puts registers back, the guest neither yields to a closed thread nor
\* nests handlers, its handlers return from a precise delivery by a compiled RFE or
\* SYSCALL 3, and switch threads only where the runtime can tell whose registers to
\* put back: by TCB, and not from a delivery without a resume PC.
Disciplined ==
  /\ s_str_mode # 0
  /\ does \cap {"unrunnable", "reenables", "returns", "interprets"} = {}
  /\ "preempts" \in does => s_str_mode = 2 /\ "boundary" \notin does

\* Runnable thread code outside a handler always runs with the latest registers of
\* the thread PCB[0] names: interrupts, preemption by the handler and cooperative
\* switches neither lose a thread's registers nor hand it another thread's.
RunsOwnRegisters ==
  Disciplined /\ host = <<>> /\ run = "guest" /\ tstate[current] = "run"
    => gpr = Own(current)

\* A thread that is suspended and runnable has its latest registers in its TCB.
SuspendedContextSaved ==
  Disciplined => \A t \in Threads :
    t # current /\ tstate[t] = "run" /\ host = <<>> => tcb[t].gpr = Own(t)

\* The shared exception_jmpbuf names the innermost live psx_check_interrupts
\* frame, so no escape jumps to a frame that has returned.
JmpbufIsInnermost == host # <<>> => JmpTargetLive

\* When the outermost handler returns to the thread it interrupted, interrupts are
\* enabled again, whichever way it left (RFE, SYSCALL 3, sentinel or plain return).
\* An interpreted RFE is no way out: the thread goes on inside the window, and may
\* end there in a critical section.
InterruptsComeBack ==
  [][/\ Len(host) = 1 /\ host' = <<>> /\ current' = Top.tcb
     /\ "interprets" \notin does
     => sr'.c]_vars

\* However often devices raise their (non-SIO) interrupts, thread code keeps
\* making progress: the cooldown lets a block body run between two handlers.
ThreadsProgress == []<><<MainBody>>_machine

=============================================================================
