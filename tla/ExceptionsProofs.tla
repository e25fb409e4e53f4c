-------------------------- MODULE ExceptionsProofs --------------------------
(***************************************************************************)
(* For any threads, block leaders, interrupt sources and guest programs:   *)
(* the globals that say a handler is running agree with the host stack,    *)
(* interrupts are enabled again when the outermost handler returns to the  *)
(* thread it interrupted, and a disciplined guest's threads keep their     *)
(* registers.                                                              *)
(***************************************************************************)
EXTENDS Exceptions, TLAPS

AllPCs == PCs \cup {Handler, Sentinel}
SRs == [c : BOOLEAN, p : BOOLEAN, o : BOOLEAN, im : BOOLEAN]
Versions == [Threads -> {0, 1}]
Regs == (Threads \X {0, 1}) \cup {Junk}
Contexts == [pc : AllPCs, gpr : Regs, sr : SRs]
Frames == [saved : Regs, pc : AllPCs, tcb : Threads, prev : BOOLEAN,
           stat : SUBSET Sources, outer : Contexts]
Reasons == {"NONE", "LEGACY_SENTINEL", "RFE_RETURN"}

TypeInv ==
  /\ s_str_mode \in 0..2 /\ wired \subseteq Sources /\ i_stat \subseteq Sources
  /\ sr \in SRs /\ pc \in AllPCs /\ gpr \in Regs /\ latest \in Versions
  /\ current \in Threads /\ tstate \in [Threads -> {"run", "free"}] /\ tcb \in [Threads -> Contexts]
  /\ g_sched_return_tcb \in Threads \cup {None}
  /\ host \in Seq(Frames) /\ exception_nest_depth \in Nat
  /\ in_exception \in BOOLEAN /\ g_rfe_escape_pending \in BOOLEAN
  /\ g_exc_escape_reason \in Reasons

\* Beside the claim itself: each frame remembers whether it was nested, and the handler's
\* own PC is found only where a nested delivery put it, so that thread code and contexts
\* to be resumed outside a handler never lead back into one.
HostInv ==
  /\ InExceptionMatchesHost
  /\ g_exc_escape_reason = "RFE_RETURN" => g_rfe_escape_pending
  /\ \A i \in 1..Len(host) : host[i].prev = (i > 1)
  /\ pc = Handler => host # <<>>
  /\ pc = Handler /\ g_rfe_escape_pending => Len(host) = 2
  /\ host # <<>> => host[1].pc # Handler
  /\ Len(host) = 2 => host[2].outer.pc # Handler
  /\ \A t \in Threads : tcb[t].pc = Handler =>
       Len(host) = 2 /\ t = host[2].tcb /\ ~g_rfe_escape_pending /\ pc = Handler

\* Interrupts are, or will be after one more pop of SR, enabled.
Enabling(s) == s.c \/ s.p

\* One handler is running: the interrupted thread's context re-enables interrupts while
\* it can still be resumed, and so does SR once the handler is about to leave.  Thread
\* code that runs inside the window is another thread's.
OuterInv ==
  Len(host) = 1 =>
    LET h == host[1] IN
    /\ current = h.tcb \/ pc = Handler => tcb[h.tcb].sr.p
    /\ pc = Handler => Enabling(sr)
    /\ current = h.tcb /\ (pc = Sentinel \/ g_rfe_escape_pending) => Enabling(sr)
    /\ pc = Handler /\ g_exc_escape_reason = "LEGACY_SENTINEL" => tcb[h.tcb].pc = Sentinel
    /\ pc \in PCs /\ ~g_rfe_escape_pending => current # h.tcb

\* A handler runs inside the handler: it belongs to the current thread, whose outer
\* context is back as soon as the inner handler has reloaded its own.
NestedInv ==
  Len(host) = 2 =>
    LET h == host[1]  n == host[2] IN
    /\ current = n.tcb /\ Enabling(sr)
    /\ g_rfe_escape_pending \/ pc = Sentinel => tcb[current] = n.outer
    /\ pc \in IF g_rfe_escape_pending THEN {n.pc, Sentinel} ELSE {Handler, Sentinel}
    /\ ~g_rfe_escape_pending /\ pc = Handler =>
         /\ tcb[current].sr.p /\ tcb[current].pc \in {n.pc, Sentinel}
         /\ g_exc_escape_reason = "LEGACY_SENTINEL" => tcb[current].pc = Sentinel
    /\ n.tcb = h.tcb => n.outer.sr.p
    /\ n.tcb # h.tcb /\ n.pc = Handler => tcb[h.tcb].sr.p
    /\ n.pc \in PCs => n.tcb # h.tcb

\* This is so while every RFE is compiled.
Compiles == "interprets" \notin does

EnableInv == OuterInv /\ NestedInv

\* What a disciplined guest keeps: handlers do not nest; every runnable thread that is not
\* running has its registers in its TCB, the interrupted one included, and the frame's
\* copy of the interrupted thread's registers is good where the epilogue will use it.
OwnInv ==
  /\ Len(host) <= 1
  /\ host = <<>> =>
       /\ tstate[current] = "run" => gpr = Own(current)
       /\ \A t \in Threads : tstate[t] = "run" /\ (t # current \/ pc = Sentinel)
            => tcb[t].gpr = Own(t)
  /\ host # <<>> =>
       LET h == host[1] IN
       /\ \A t \in Threads : tstate[t] = "run" => tcb[t].gpr = Own(t)
       /\ tstate[h.tcb] = "run" => h.saved = Own(h.tcb)
       /\ tcb[h.tcb].pc = g_exception_real_epc
       /\ current # h.tcb => "preempts" \in does /\ tstate[current] = "run"
       /\ pc = Handler => ~sr.c /\ ~g_rfe_escape_pending
       /\ ~g_rfe_escape_pending => pc \in {Handler, Sentinel}
       /\ pc = Sentinel => g_rfe_escape_pending \/ g_exc_escape_reason = "LEGACY_SENTINEL"
       /\ g_exc_escape_reason = "LEGACY_SENTINEL" =>
            "boundary" \in does /\ tcb[h.tcb].pc = Sentinel
       /\ g_rfe_escape_pending =>
            /\ pc = tcb[current].pc
            /\ gpr = tcb[current].gpr \/ current = h.tcb

-----------------------------------------------------------------------------
\* A delivery pushes one frame.
LEMMA PushFrame ==
  ASSUME NEW f \in Frames, NEW s \in Seq(Frames)
  PROVE  /\ Append(s, f) \in Seq(Frames) /\ Append(s, f) # <<>>
         /\ Len(Append(s, f)) = Len(s) + 1 /\ Append(s, f)[Len(s) + 1] = f
         /\ \A i \in 1..Len(s) : Append(s, f)[i] = s[i]
OBVIOUS

\* A prefix of a sequence.
LEMMA Prefix ==
  ASSUME NEW S, NEW s \in Seq(S), NEW n \in 0..Len(s)
  PROVE  /\ SubSeq(s, 1, n) \in Seq(S) /\ Len(SubSeq(s, 1, n)) = n
         /\ \A i \in 1..n : SubSeq(s, 1, n)[i] = s[i]
OBVIOUS

\* An epilogue pops one.
LEMMA PopFrame ==
  ASSUME NEW s \in Seq(Frames), s # <<>>
  PROVE  LET f == SubSeq(s, 1, Len(s) - 1) IN
         /\ f \in Seq(Frames) /\ Len(f) = Len(s) - 1 /\ Len(s) \in Nat \ {0}
         /\ \A i \in 1..Len(f) : f[i] = s[i]
<1> DEFINE f == SubSeq(s, 1, Len(s) - 1)
<1>1. Len(s) \in Nat \ {0} /\ Len(s) - 1 \in 0..Len(s)
  OBVIOUS
<1> QED BY <1>1, Prefix, Zenon

\* No frame, one frame and more.
LEMMA Lengths ==
  ASSUME NEW s \in Seq(Frames)
  PROVE  Len(s) \in Nat /\ (s = <<>> <=> Len(s) = 0) /\ \A i \in 1..Len(s) : s[i] \in Frames
OBVIOUS

\* The moves of SR's interrupt enables.
LEMMA Shifts ==
  ASSUME NEW s \in SRs
  PROVE  /\ PushSR(s) \in SRs /\ ~PushSR(s).c /\ PushSR(s).p = s.c
         /\ PopSR(s) \in SRs /\ PopSR(s).c = s.p
         /\ RfeSR(s) \in SRs /\ RfeSR(s).c = s.p
         /\ EpilogueSR(s) \in SRs /\ (Enabling(s) => EpilogueSR(s).c)
BY Zenon DEF SRs, PushSR, PopSR, RfeSR, EpilogueSR, Enabling

\* The parts of a saved context and of a frame.
LEMMA Fields ==
  /\ \A c \in Contexts : c.pc \in AllPCs /\ c.gpr \in Regs /\ c.sr \in SRs
  /\ \A p \in AllPCs, g \in Regs, s \in SRs : [pc |-> p, gpr |-> g, sr |-> s] \in Contexts
  /\ \A f \in Frames : /\ f.saved \in Regs /\ f.pc \in AllPCs /\ f.tcb \in Threads
                       /\ f.prev \in BOOLEAN /\ f.stat \subseteq Sources /\ f.outer \in Contexts
BY Zenon DEF Contexts, Frames

\* The handler and the sentinel are addresses of their own.
LEMMA Names == Junk \in Regs /\ PCs \subseteq AllPCs /\ {Handler, Sentinel} \subseteq AllPCs
               /\ Handler # Sentinel /\ Handler \notin PCs /\ Sentinel \notin PCs /\ None \notin PCs
BY ExceptionsAssumption, Zenon DEF AllPCs, Regs

-----------------------------------------------------------------------------
\* The frame and the context a delivery makes.
NewFrame == [saved |-> gpr, pc |-> pc, tcb |-> current, prev |-> in_exception, stat |-> i_stat,
             outer |-> tcb[current]]
Interrupted(epc) == [pc |-> epc, gpr |-> gpr, sr |-> PushSR(sr)]

\* What delivering an exception does to the host stack and to the thread's context.
LEMMA DeliverFacts ==
  ASSUME TypeInv, UNCHANGED program, NEW r, r = pc \/ r = None, Deliver(r)
  PROVE  /\ TypeInv' /\ NewFrame \in Frames /\ EntryEpc(r) \in AllPCs
         /\ Interrupted(EntryEpc(r)) \in Contexts
         /\ Len(host') = Len(host) + 1 /\ host'[Len(host) + 1] = NewFrame /\ host' # <<>>
         /\ \A i \in 1..Len(host) : host'[i] = host[i]
         /\ \A t \in Threads : tcb'[t] = IF t = current THEN Interrupted(EntryEpc(r)) ELSE tcb[t]
         /\ exception_jmpbuf' = Len(host) + 1
<1>1. EntryEpc(r) \in AllPCs
  BY Names, Zenon DEF EntryEpc, TypeInv
<1>2. tcb[current] \in Contexts
  BY Zenon DEF TypeInv
<1>3. NewFrame \in Frames
  BY <1>2, Zenon DEF NewFrame, Frames, TypeInv
<1>4. PushSR(sr) \in SRs
  BY Shifts, Zenon DEF TypeInv
<1>5. Interrupted(EntryEpc(r)) \in Contexts
  BY <1>1, <1>4, Fields, Zenon DEF Interrupted, TypeInv
<1>6. host' = Append(host, NewFrame)
  BY Zenon DEF Deliver, NewFrame
<1>7. tcb' = [tcb EXCEPT ![current] = Interrupted(EntryEpc(r))]
  BY Zenon DEF Deliver, Interrupted
<1>8. /\ host' \in Seq(Frames) /\ Len(host') = Len(host) + 1
      /\ host'[Len(host) + 1] = NewFrame /\ host' # <<>>
      /\ \A i \in 1..Len(host) : host'[i] = host[i]
  BY <1>3, <1>6, PushFrame, Zenon DEF TypeInv
<1>9. tcb' \in [Threads -> Contexts]
      /\ \A t \in Threads : tcb'[t] = IF t = current THEN Interrupted(EntryEpc(r)) ELSE tcb[t]
  BY <1>5, <1>7, Zenon DEF TypeInv
<1>10. /\ sr' \in SRs /\ pc' \in AllPCs /\ gpr' \in Regs /\ exception_nest_depth' \in Nat
       /\ g_exc_escape_reason' \in Reasons
  BY <1>4, Names DEF Deliver, TypeInv, Reasons
<1>11. /\ UNCHANGED <<s_str_mode, wired, i_stat, latest, current, tstate, g_sched_return_tcb>>
       /\ in_exception' \in BOOLEAN /\ g_rfe_escape_pending' \in BOOLEAN
  BY Zenon DEF Deliver, program
<1>12. TypeInv'
  BY <1>8, <1>9, <1>10, <1>11, Zenon DEF TypeInv
<1> QED BY <1>1, <1>3, <1>5, <1>8, <1>9, <1>12, Zenon DEF Deliver

\* The epilogue takes the innermost frame off; the other frames stay as they are.
LEMMA EpilogueFacts ==
  ASSUME TypeInv, UNCHANGED program, host # <<>>, tcb' \in [Threads -> Contexts],
         NEW p \in AllPCs \cup {None}, NEW g \in Regs, NEW s \in SRs, NEW reason,
         exception_nest_depth - 1 \in Nat, Epilogue(p, g, s, reason)
  PROVE  /\ TypeInv' /\ Top \in Frames /\ Len(host') = Len(host) - 1 /\ Len(host) \in Nat \ {0}
         /\ \A i \in 1..Len(host') : host'[i] = host[i]
         /\ host' = <<>> <=> Len(host) = 1
<1>1. Len(host) \in Nat \ {0} /\ Top \in Frames
  BY Lengths DEF Top, TypeInv
<1>2. /\ host' \in Seq(Frames) /\ Len(host') = Len(host) - 1
      /\ \A i \in 1..Len(host') : host'[i] = host[i]
  BY PopFrame, Zenon DEF Epilogue, TypeInv
<1>3. pc' \in AllPCs /\ gpr' \in Regs /\ sr' \in SRs /\ in_exception' \in BOOLEAN
  <2>1. pc' = Top.pc \/ (pc' = p /\ p # None)
    BY Zenon DEF Epilogue, ResumePCs
  <2>2. pc' \in AllPCs
    BY <1>1, <2>1, Fields, Zenon
  <2> QED BY <1>1, <2>2, Fields, Shifts, Zenon DEF Epilogue, RestoredFlag
<1>4. TypeInv'
  BY <1>2, <1>3, Zenon DEF Epilogue, TypeInv, program, Reasons
<1> QED BY <1>1, <1>2, <1>4, Lengths DEF TypeInv

\* The ways out of a handler, and what each hands the epilogue.
Leaves(p, g, s, reason) ==
  \/ /\ RfeEscape /\ p = pc /\ g = gpr /\ s = sr /\ reason = g_exc_escape_reason
  \/ /\ SentinelEscape /\ p = None /\ g = gpr /\ s = sr /\ reason = g_exc_escape_reason
  \/ /\ SyscallReturn /\ p = tcb[current].pc /\ g = tcb[current].gpr
     /\ s = PopSR(tcb[current].sr) /\ reason = "SYSCALL_RETURN"
  \/ /\ HandlerReturns /\ p = None /\ g = gpr /\ s = sr /\ reason = g_exc_escape_reason

\* The contexts an exception saved on entry are contexts.
LEMMA OuterTcbType == ASSUME TypeInv, host # <<>> PROVE OuterTcb \in [Threads -> Contexts]
<1>1. Top \in Frames
  BY Lengths DEF Top, TypeInv
<1> QED BY <1>1, Fields, Zenon DEF OuterTcb, TypeInv

\* Leaving an exception takes one frame off the host stack and touches nothing below it.
LEMMA LeaveFacts ==
  ASSUME TypeInv, HostInv, UNCHANGED program, NEW p, NEW g, NEW s, NEW reason,
         Leaves(p, g, s, reason)
  PROVE  /\ host # <<>> /\ p \in AllPCs \cup {None} /\ g \in Regs /\ s \in SRs
         /\ Epilogue(p, g, s, reason) /\ tcb' \in {tcb, OuterTcb}
         /\ TypeInv' /\ Top \in Frames /\ Len(host') = Len(host) - 1 /\ Len(host) \in {1, 2}
         /\ \A i \in 1..Len(host') : host'[i] = host[i]
         /\ host' = <<>> <=> Len(host) = 1
<1>1. host # <<>>
  BY Zenon DEF Leaves, RfeEscape, SentinelEscape, SyscallReturn, HandlerReturns, HostInv,
         InExceptionMatchesHost
<1>2. tcb[current] \in Contexts
  BY Zenon DEF TypeInv
<1>3. p \in AllPCs \cup {None} /\ g \in Regs /\ s \in SRs
  BY <1>2, Fields, Shifts DEF Leaves, TypeInv
<1>4. Epilogue(p, g, s, reason) /\ tcb' \in {tcb, OuterTcb}
  BY Zenon DEF Leaves, RfeEscape, SentinelEscape, SyscallReturn, HandlerReturns
<1>5. tcb' \in [Threads -> Contexts]
  BY <1>1, <1>4, OuterTcbType, Zenon DEF TypeInv
<1>6. Len(host) \in {1, 2} /\ exception_nest_depth - 1 \in Nat
  BY <1>1, Lengths DEF HostInv, InExceptionMatchesHost, TypeInv
<1> QED BY <1>1, <1>3, <1>4, <1>5, <1>6, EpilogueFacts, Zenon

-----------------------------------------------------------------------------
\* Steps that touch only the interrupt controller, the cooldown, the place in the block and
\* whether the program runs.
Idles ==
  i_stat' \subseteq Sources /\ UNCHANGED <<program, cpu, threads, frames, escape, latest>>

Delivers(r) ==
  /\ pc # Sentinel /\ CanDeliver /\ Deliver(r) /\ UNCHANGED program
  /\ r = pc \/ (r = None /\ "boundary" \in does)

\* A switch to thread t, the contexts being cs: ChangeThread, or the dispatch returned.
Switches(t, cs) ==
  /\ pc # Handler /\ ~in_exception /\ t # current /\ t \in Threads
  /\ ResumeFrom(t, cs) /\ UNCHANGED <<program, i_stat, tstate, frames, escape, latest>>
  /\ g_sched_return_tcb' \in {current, None}
  /\ \/ tstate[t] = "run" /\ \E p \in PCs : cs = SavedTcb(p)
     \/ (tstate[current] # "run" \/ pc = Sentinel) /\ cs = tcb

ThreadStep ==
  \/ \E p \in PCs : Work(p)
  \/ \E e \in BOOLEAN : CriticalSection(e)
  \/ \E t \in Threads : CloseThread(t) \/ ChangeThreadFallback(t)
  \/ \E t \in Threads, p \in PCs : OpenThread(t, p)

HandlerStep ==
  Reenable \/ (\E t \in Threads : Preempt(t)) \/ RestoreStateEscape \/ ReturnFromException

\* Every step, sorted by what it does to the host stack and the threads.
LEMMA StepCases ==
  ASSUME TypeInv, [Next]_vars
  PROVE  /\ UNCHANGED program
         /\ \/ Idles
            \/ \E r : Delivers(r)
            \/ ThreadStep
            \/ \E t, cs : Switches(t, cs)
            \/ HandlerStep
            \/ \E p, g, s, reason : Leaves(p, g, s, reason)
<1>1. UNCHANGED program
  BY Zenon DEF Next, vars
<1>2. ASSUME NEW s \in wired, Raise(s) PROVE Idles
  BY <1>1, <1>2, Zenon DEF Raise, Idles, TypeInv
<1>3. ASSUME Stopped \/ UNCHANGED vars PROVE Idles
  BY <1>1, <1>3, Zenon DEF Stopped, vars, machine, Idles, TypeInv
<1>4. ASSUME NEW r, Check(r), r = pc \/ (r = None /\ "boundary" \in does)
      PROVE  Idles \/ Delivers(r)
  BY <1>1, <1>4, Zenon DEF Check, Idles, Delivers, TypeInv
<1>5. PreciseCheck \/ BoundaryCheck => Idles \/ \E r : Delivers(r)
  BY <1>4, Zenon DEF PreciseCheck, BoundaryCheck
<1>6. ASSUME NEW S \in SUBSET i_stat, Ack(S) PROVE Idles
  BY <1>1, <1>6, Zenon DEF Ack, Idles, TypeInv
<1>7. ASSUME NEW m, SetMask(m) PROVE Idles
  BY <1>1, <1>7, Zenon DEF SetMask, Idles, TypeInv
<1>8. ASSUME NEW t \in Threads, NEW p \in PCs, ChangeThread(t, p) PROVE Switches(t, SavedTcb(p))
  BY <1>1, <1>8, Names, Zenon DEF ChangeThread, Switches, InThread
<1>9. ASSUME ThreadEnds \/ SentinelOutside PROVE Idles \/ Switches(g_sched_return_tcb, tcb)
  <2>1. /\ DispatchReturns /\ pc # Handler /\ ~in_exception
        /\ tstate[current] # "run" \/ pc = Sentinel
    BY <1>9, Names, Zenon DEF ThreadEnds, SentinelOutside, InThread
  <2>2. CASE CanSwitchBack
    BY <1>1, <2>1, <2>2, Zenon DEF DispatchReturns, Switches, CanSwitchBack, TypeInv
  <2>3. CASE ~CanSwitchBack
    BY <1>1, <2>1, <2>3, Zenon DEF DispatchReturns, Idles, TypeInv
  <2> QED BY <2>2, <2>3, Zenon
<1>10. MainBody => Idles \/ ThreadStep \/ \E t, cs : Switches(t, cs)
  BY <1>7, <1>8, <1>9, Zenon DEF MainBody, ThreadStep
<1>11. HandlerBody => Idles \/ HandlerStep
  BY <1>6, Zenon DEF HandlerBody, HandlerStep
<1>12. HandlerExit => HandlerStep \/ \E p, g, s, reason : Leaves(p, g, s, reason)
  BY Zenon DEF HandlerExit, HandlerStep, Leaves
<1> QED BY <1>1, <1>2, <1>3, <1>5, <1>9, <1>10, <1>11, <1>12, Zenon DEF Next

\* A switch saves the running thread and no other.
LEMMA SwitchFacts ==
  ASSUME TypeInv, NEW t, NEW cs, Switches(t, cs)
  PROVE  /\ cs \in [Threads -> Contexts]
         /\ \A u \in Threads : u # current \/ tstate[current] # "run" => cs[u] = tcb[u]
         /\ tstate[current] = "run" => cs[current].gpr = gpr \/ (pc = Sentinel /\ cs = tcb)
         /\ \A u \in Threads : cs[u].pc \in PCs \/ cs[u].pc = tcb[u].pc
<1>1. PushSR(sr) \in SRs
  BY Shifts, Zenon DEF TypeInv
<1>2. ASSUME NEW p \in PCs, cs = SavedTcb(p) PROVE cs \in [Threads -> Contexts]
  BY <1>1, <1>2, Fields, Names, Zenon DEF SavedTcb, TypeInv
<1>3. cs \in [Threads -> Contexts]
  BY <1>2, Zenon DEF Switches, TypeInv
<1> QED BY <1>3 DEF Switches, SavedTcb, TypeInv

\* Thread code and handler code keep the types, and touch no frame.
LEMMA BodyType ==
  ASSUME TypeInv, HostInv, UNCHANGED program, ThreadStep \/ HandlerStep
  PROVE  TypeInv' /\ UNCHANGED <<host, in_exception, exception_nest_depth>>
<1>1. tcb[current] \in Contexts
  BY Zenon DEF TypeInv
<1>2. PushSR(sr) \in SRs /\ [sr EXCEPT !.c = FALSE] \in SRs /\ [sr EXCEPT !.c = TRUE, !.im = TRUE] \in SRs
      /\ PopSR(tcb[current].sr) \in SRs /\ RfeSR(tcb[current].sr) \in SRs
  <2>1. PushSR(sr) \in SRs /\ PopSR(tcb[current].sr) \in SRs /\ RfeSR(tcb[current].sr) \in SRs
    BY <1>1, Shifts, Fields, Zenon DEF TypeInv
  <2>2. [sr EXCEPT !.c = FALSE] \in SRs /\ [sr EXCEPT !.c = TRUE, !.im = TRUE] \in SRs
    BY Zenon DEF TypeInv, SRs
  <2> QED BY <2>1, <2>2, Zenon
<1>3. ASSUME NEW p \in PCs, Work(p) PROVE TypeInv'
  <2>1. latest' \in Versions
    BY <1>3 DEF Work, TypeInv, Versions
  <2>2. <<current, latest'[current]>> \in Regs
    BY <2>1, Zenon DEF Regs, Versions, TypeInv
  <2> QED BY <1>3, <2>1, <2>2, Names, Zenon DEF Work, TypeInv, frames, escape, program, threads
<1>4. ASSUME NEW e \in BOOLEAN, CriticalSection(e) PROVE TypeInv'
  BY <1>2, <1>4, Zenon DEF CriticalSection, TypeInv, frames, escape, program, threads
<1>5. ASSUME NEW t \in Threads, CloseThread(t) PROVE TypeInv'
  BY <1>5, Zenon DEF CloseThread, TypeInv, frames, escape, program, cpu
<1>6. ASSUME NEW t \in Threads, ChangeThreadFallback(t) PROVE TypeInv'
  BY <1>1, <1>2, <1>6, Fields, Zenon DEF ChangeThreadFallback, TypeInv, frames, escape, program, threads
<1>7. ASSUME NEW t \in Threads, NEW p \in PCs, OpenThread(t, p) PROVE TypeInv'
  <2>1. Own(t) \in Regs
    BY Zenon DEF Own, Regs, Versions, TypeInv
  <2>2. [pc |-> p, gpr |-> Own(t), sr |-> PushSR(sr)] \in Contexts
    BY <1>2, <2>1, Fields, Names, Zenon
  <2>3. tcb' \in [Threads -> Contexts]
    BY <1>7, <2>2, Zenon DEF OpenThread, TypeInv
  <2> QED BY <1>7, <2>3, Zenon DEF OpenThread, TypeInv, frames, escape, program, cpu
<1>8. CASE Reenable
  BY <1>2, <1>8, Zenon DEF Reenable, TypeInv, frames, escape, program, threads
<1>9. ASSUME NEW t \in Threads, Preempt(t) PROVE TypeInv'
  BY <1>9, Zenon DEF Preempt, TypeInv, frames, escape, program, cpu
<1>10. CASE RestoreStateEscape
  BY <1>10, Names, Zenon DEF RestoreStateEscape, TypeInv, frames, escape, program, threads
<1>11. CASE ReturnFromException
  <2>1. host # <<>>
    BY <1>11, Zenon DEF ReturnFromException, InHandler, HostInv
  <2>2. tcb' \in [Threads -> Contexts]
    BY <1>11, <2>1, OuterTcbType, Zenon DEF ReturnFromException
  <2>3. pc' \in AllPCs /\ gpr' \in Regs /\ sr' \in SRs
    BY <1>1, <1>2, <1>11, Fields, Names, Zenon DEF ReturnFromException, CompiledRfe, InterpretedRfe
  <2>4. g_exc_escape_reason' \in Reasons /\ g_rfe_escape_pending' \in BOOLEAN
    BY <1>11, Zenon DEF ReturnFromException, CompiledRfe, InterpretedRfe, TypeInv, Reasons
  <2> QED BY <1>11, <2>2, <2>3, <2>4, Zenon DEF ReturnFromException, TypeInv, frames, program
<1>12. UNCHANGED <<host, in_exception, exception_nest_depth>>
  BY Zenon DEF ThreadStep, HandlerStep, Work, CriticalSection, CloseThread, ChangeThreadFallback, OpenThread,
         Reenable, Preempt, RestoreStateEscape, ReturnFromException, frames
<1> QED BY <1>3, <1>4, <1>5, <1>6, <1>7, <1>8, <1>9, <1>10, <1>11, <1>12, Zenon DEF ThreadStep, HandlerStep

\* Every step keeps the state well formed,
LEMMA TypeStep == ASSUME TypeInv, HostInv, [Next]_vars PROVE TypeInv'
<1>1. CASE Idles
  BY <1>1, Zenon DEF Idles, TypeInv, program, cpu, threads, frames, escape
<1>2. ASSUME NEW r, Delivers(r) PROVE TypeInv'
  BY <1>2, DeliverFacts, Zenon DEF Delivers
<1>3. ASSUME NEW t, NEW cs, Switches(t, cs) PROVE TypeInv'
  <2>1. cs \in [Threads -> Contexts] /\ t \in Threads
    BY <1>3, SwitchFacts, Zenon DEF Switches
  <2>2. pc' \in AllPCs /\ gpr' \in Regs /\ sr' \in SRs /\ current' \in Threads /\ tcb' = cs
    BY <1>3, <2>1, Fields, Shifts, SMTT(60) DEF Switches, ResumeFrom, TypeInv
  <2> QED BY <1>3, <2>1, <2>2, Zenon DEF Switches, TypeInv, frames, escape, program
<1>4. ASSUME NEW p, NEW g, NEW s, NEW reason, Leaves(p, g, s, reason) PROVE TypeInv'
  BY <1>4, StepCases, LeaveFacts, Zenon
<1> QED BY <1>1, <1>2, <1>3, <1>4, StepCases, BodyType, Zenon

-----------------------------------------------------------------------------
\* How many handlers are running, from the flag and from the stack.
LEMMA HostFacts ==
  ASSUME TypeInv, HostInv
  PROVE  /\ Len(host) \in {0, 1, 2} /\ (host = <<>> <=> Len(host) = 0)
         /\ (in_exception <=> Len(host) # 0) /\ exception_nest_depth = Len(host)
         /\ (~in_exception => ~g_rfe_escape_pending /\ g_exc_escape_reason = "NONE")
<1>1. Len(host) \in Nat /\ (host = <<>> <=> Len(host) = 0)
  BY Lengths, Zenon DEF TypeInv
<1>2. in_exception <=> host # <<>>
  <2>1. in_exception = (host # <<>>)
    BY Zenon DEF HostInv, InExceptionMatchesHost
  <2> QED BY <2>1, Zenon
<1>3. exception_nest_depth = Len(host) /\ Len(host) <= 2
  BY Zenon DEF HostInv, InExceptionMatchesHost
<1>4. ~in_exception => ~g_rfe_escape_pending /\ g_exc_escape_reason = "NONE"
  BY Zenon DEF HostInv, InExceptionMatchesHost
<1> QED BY <1>1, <1>2, <1>3, <1>4

\* A delivery: the gates let at most one nest, and only a nested one interrupts the handler.
LEMMA DeliverHost ==
  ASSUME TypeInv, HostInv, NEW r, Delivers(r)
  PROVE  HostInv'
<1> USE DEF HostInv, InExceptionMatchesHost
<1>1. /\ NewFrame \in Frames /\ Len(host') = Len(host) + 1 /\ host'[Len(host) + 1] = NewFrame
      /\ host' # <<>> /\ \A i \in 1..Len(host) : host'[i] = host[i]
      /\ \A t \in Threads : tcb'[t] = IF t = current THEN Interrupted(EntryEpc(r)) ELSE tcb[t]
  BY DeliverFacts, Zenon DEF Delivers
<1>2. Len(host) \in {0, 1} /\ (in_exception <=> Len(host) = 1) /\ ~g_rfe_escape_pending
  <2>1. in_exception => exception_nest_depth < 2 /\ ~g_rfe_escape_pending
    BY Zenon DEF Delivers, CanDeliver, NestGate
  <2> HIDE DEF HostInv
  <2> QED BY <2>1, HostFacts
<1>3. /\ in_exception' /\ exception_nest_depth' = Len(host') /\ ~g_rfe_escape_pending'
      /\ g_exc_escape_reason' # "RFE_RETURN" /\ pc' = Handler /\ current' = current
  BY <1>1, <1>2, Zenon DEF Delivers, Deliver
<1>4. NewFrame.prev = in_exception /\ NewFrame.pc = pc /\ NewFrame.tcb = current
      /\ NewFrame.outer = tcb[current]
  BY Zenon DEF NewFrame
<1>5. \A i \in 1..Len(host') : host'[i].prev = (i > 1)
  BY <1>1, <1>2, <1>4
<1>6. host'[1].pc # Handler
  BY <1>1, <1>2, <1>4
<1>7. Len(host') = 2 => host'[2].outer.pc # Handler /\ host'[2].tcb = current
  <2>1. tcb[current].pc # Handler
    BY <1>2 DEF TypeInv
  <2> QED BY <1>1, <1>2, <1>4, <2>1
<1>8. ASSUME NEW t \in Threads, tcb'[t].pc = Handler
      PROVE  Len(host') = 2 /\ t = host'[2].tcb
  <2>1. t = current /\ EntryEpc(r) = Handler
    BY <1>1, <1>2, <1>8 DEF Interrupted
  <2>2. pc = Handler
    BY <2>1, Names, Zenon DEF EntryEpc, Delivers
  <2> QED BY <1>1, <1>2, <1>7, <2>1, <2>2
<1>9. InExceptionMatchesHost'
  <2>1. in_exception' = TRUE /\ (host' # <<>>) = TRUE /\ Len(host') <= 2
    BY <1>1, <1>2, SMTT(60) DEF Delivers, Deliver
  <2> QED BY <1>3, <2>1, Zenon
<1> HIDE DEF InExceptionMatchesHost
<1> QED BY <1>1, <1>3, <1>5, <1>6, <1>7, <1>8, <1>9, Names, Zenon

\* Thread code, handler code and switches between threads leave the frames alone.
LEMMA BodyHost ==
  ASSUME TypeInv, HostInv, UNCHANGED program, ThreadStep \/ HandlerStep
  PROVE  HostInv'
<1> USE DEF HostInv, InExceptionMatchesHost
<1>1. UNCHANGED <<host, in_exception, exception_nest_depth>> /\ TypeInv'
  BY BodyType, Zenon
<1>2. CASE ThreadStep
  <2>1. pc \in PCs /\ ~g_rfe_escape_pending /\ UNCHANGED escape
    BY <1>2, Zenon DEF ThreadStep, Work, CriticalSection, CloseThread, ChangeThreadFallback, OpenThread, InThread
  <2>2. ASSUME NEW t \in Threads, NEW p \in PCs, OpenThread(t, p) PROVE HostInv'
    <3>1. pc' = pc /\ \A u \in Threads : tcb'[u].pc \in {tcb[u].pc, p}
      BY <2>2, Zenon DEF OpenThread, TypeInv, cpu
    <3> QED BY <1>1, <2>1, <3>1, Names, Zenon DEF escape
  <2>3. ASSUME NEW t \in Threads, ChangeThreadFallback(t) PROVE HostInv'
    <3>1. host = <<>> /\ tcb' = tcb /\ pc' = tcb[current].pc
      BY <2>3, Zenon DEF ChangeThreadFallback, threads
    <3>2. Len(host) = 0
      BY <3>1, Lengths, Zenon DEF TypeInv
    <3>3. \A t2 \in Threads : tcb[t2].pc # Handler
      BY <3>2
    <3>4. pc' # Handler
      BY <3>1, <3>3, Zenon DEF TypeInv
    <3> QED BY <1>1, <2>1, <3>1, <3>2, <3>3, <3>4, Zenon DEF escape
  <2>4. ASSUME tcb' = tcb, pc' \in PCs PROVE HostInv'
    BY <1>1, <2>1, <2>4, Names, Zenon DEF escape
  <2>5. \/ \E t \in Threads, p \in PCs : OpenThread(t, p)
        \/ \E t \in Threads : ChangeThreadFallback(t)
        \/ tcb' = tcb /\ pc' \in PCs
    BY <1>2, <2>1, Zenon DEF ThreadStep, Work, CriticalSection, CloseThread, threads, cpu
  <2> QED BY <2>2, <2>3, <2>4, <2>5, Zenon
<1>3. CASE ReturnFromException
  <2>1. Top \in Frames /\ Len(host) \in {1, 2} /\ host # <<>>
    BY <1>3, Lengths DEF ReturnFromException, InHandler, Top, TypeInv
  <2>2. \A t \in Threads : tcb'[t].pc # Handler
    BY <1>3, <2>1, Zenon DEF ReturnFromException, InHandler, OuterTcb, Top, TypeInv
  <2>3. g_rfe_escape_pending' <=> g_exc_escape_reason' = "RFE_RETURN"
    <3>1. ~g_rfe_escape_pending /\ g_exc_escape_reason # "RFE_RETURN" /\ g_rfe_escape_pending \in BOOLEAN
      BY <1>3, Zenon DEF ReturnFromException, InHandler, TypeInv
    <3>2. \/ g_rfe_escape_pending' = TRUE /\ g_exc_escape_reason' = "RFE_RETURN"
          \/ g_rfe_escape_pending' = g_rfe_escape_pending /\ g_exc_escape_reason' = g_exc_escape_reason
      BY <1>3, Zenon DEF ReturnFromException, CompiledRfe, InterpretedRfe
    <3>3. CASE g_rfe_escape_pending' = TRUE /\ g_exc_escape_reason' = "RFE_RETURN"
      BY <3>3, Zenon
    <3>4. CASE g_rfe_escape_pending' = g_rfe_escape_pending /\ g_exc_escape_reason' = g_exc_escape_reason
      BY <3>1, <3>4, Zenon
    <3> QED BY <3>2, <3>3, <3>4, Zenon
  <2>4. pc' = Handler => Len(host) = 2
    BY <1>3, Zenon DEF ReturnFromException, TypeInv
  <2> QED BY <1>1, <2>1, <2>2, <2>3, <2>4, Zenon
<1>4. CASE Reenable \/ RestoreStateEscape \/ \E t \in Threads : Preempt(t)
  <2>1. UNCHANGED <<pc, tcb, escape>>
    BY <1>4, Zenon DEF Reenable, RestoreStateEscape, Preempt, threads, cpu
  <2> QED BY <1>1, <2>1, Zenon DEF escape
<1> QED BY <1>2, <1>3, <1>4, Zenon DEF HandlerStep

\* The epilogue: the flag goes back to what the frame remembers.
LEMMA LeaveHost ==
  ASSUME TypeInv, HostInv, UNCHANGED program,
         NEW p, NEW g, NEW s, NEW reason, Leaves(p, g, s, reason)
  PROVE  HostInv'
<1> USE DEF HostInv, InExceptionMatchesHost
<1>1. /\ host # <<>> /\ Epilogue(p, g, s, reason) /\ Top \in Frames
      /\ Len(host') = Len(host) - 1 /\ Len(host) \in {1, 2} /\ TypeInv'
      /\ \A i \in 1..Len(host') : host'[i] = host[i]
      /\ host' = <<>> <=> Len(host) = 1
  BY LeaveFacts, Zenon
<1>2. /\ in_exception' = Top.prev /\ exception_nest_depth' = exception_nest_depth - 1
      /\ ~g_rfe_escape_pending' /\ g_exc_escape_reason' = "NONE"
      /\ pc' = Top.pc \/ (pc' = p /\ p # None)
  BY <1>1, Zenon DEF Epilogue, ResumePCs, RestoredFlag
<1>3. Top.prev = (Len(host) > 1)
  BY <1>1 DEF Top
<1>4. \A t \in Threads : tcb'[t].pc # Handler
  <2>1. CASE tcb' = OuterTcb
    BY <1>1, <2>1, Zenon DEF OuterTcb, Top, TypeInv
  <2>2. CASE RfeEscape \/ SentinelEscape
    <3>1. tcb' = tcb /\ (g_rfe_escape_pending \/ pc = Sentinel)
      BY <2>2, Zenon DEF RfeEscape, SentinelEscape
    <3> QED BY <3>1, Names, Zenon
  <2> QED BY <2>1, <2>2, Zenon DEF Leaves, SyscallReturn, HandlerReturns
<1>5. Len(host) = 1 => pc' # Handler
  <2> SUFFICES ASSUME Len(host) = 1 PROVE pc' # Handler
    BY Zenon
  <2>1. Top.pc # Handler
    BY <1>1, Zenon DEF Top
  <2>2. \A t \in Threads : tcb[t].pc # Handler
    OBVIOUS
  <2>3. CASE p = None
    BY <1>2, <2>1, <2>3, Zenon
  <2>4. CASE SyscallReturn /\ p = tcb[current].pc
    BY <1>2, <2>1, <2>2, <2>4, Zenon DEF TypeInv
  <2>5. CASE RfeEscape /\ p = pc
    BY <1>2, <2>1, <2>5 DEF RfeEscape
  <2> QED BY <2>3, <2>4, <2>5, Zenon DEF Leaves
<1> QED BY <1>1, <1>2, <1>3, <1>4, <1>5

\* and the host stack and the recovery point in step.
LEMMA HostStep == ASSUME TypeInv, HostInv, [Next]_vars PROVE HostInv'
<1>1. CASE Idles
  BY <1>1, Zenon DEF Idles, HostInv, InExceptionMatchesHost, cpu, threads, frames, escape
<1>2. ASSUME NEW t, NEW cs, Switches(t, cs) PROVE HostInv'
  <2>1. Len(host) = 0 /\ UNCHANGED <<frames, escape>> /\ tcb' = cs
    BY <1>2, HostFacts, Zenon DEF Switches, ResumeFrom
  <2>2. \A u \in Threads : tcb[u].pc # Handler
    BY <2>1 DEF HostInv
  <2>3. \A u \in Threads : cs[u].pc # Handler
    BY <1>2, <2>2, SwitchFacts, Names, Zenon
  <2>4. pc' # Handler
    BY <1>2, <2>3, Names, Zenon DEF Switches, ResumeFrom
  <2> QED BY <2>1, <2>3, <2>4, Zenon DEF HostInv, InExceptionMatchesHost, frames, escape
<1> QED BY <1>1, <1>2, StepCases, DeliverHost, BodyHost, LeaveHost, Zenon

\* Both hold initially.
LEMMA HostInit == Init => TypeInv /\ HostInv
<1> SUFFICES ASSUME Init PROVE TypeInv /\ HostInv
  BY Zenon
<1>1. latest \in Versions /\ Own(current) \in Regs
  BY Zenon DEF Init, Versions, Own, Regs
<1>2. sr \in SRs
  BY Zenon DEF Init, SRs
<1>3. tcb \in [Threads -> Contexts] /\ \A t \in Threads : tcb[t].pc = pc
  BY <1>1, <1>2, Names, Fields, Zenon DEF Init
<1>4. wired \subseteq Sources /\ s_str_mode \in 0..2
  BY ExceptionsAssumption, Zenon DEF Init
<1>5. host \in Seq(Frames) /\ Len(host) = 0
  BY DEF Init
<1>6. TypeInv
  BY <1>1, <1>2, <1>3, <1>4, <1>5, Names, Zenon DEF Init, TypeInv, Reasons
<1>7. InExceptionMatchesHost
  <2>1. in_exception = FALSE /\ (host # <<>>) = FALSE
    BY Zenon DEF Init
  <2>2. in_exception = (host # <<>>)
    BY <2>1, Zenon
  <2>3. exception_nest_depth = Len(host) /\ Len(host) <= 2 /\ ~g_rfe_escape_pending
        /\ g_exc_escape_reason = "NONE"
    BY <1>5 DEF Init
  <2> QED BY <2>2, <2>3, Zenon DEF InExceptionMatchesHost
<1>8. HostInv
  BY <1>3, <1>5, <1>7, Names DEF Init, HostInv
<1> QED BY <1>6, <1>8, Zenon

\* in_exception, exception_nest_depth and the escape globals agree with the live
\* psx_check_interrupts frames, at most two of them, for every guest program, nesting or
\* not, however its handlers leave.
THEOREM FlagsAlwaysMatchHost == Spec => []InExceptionMatchesHost
<1>1. TypeInv /\ HostInv /\ [Next]_vars => TypeInv' /\ HostInv'
  BY TypeStep, HostStep, Zenon
<1>2. HostInv => InExceptionMatchesHost
  BY Zenon DEF HostInv
<1> QED BY <1>1, <1>2, HostInit, PTL DEF Spec

-----------------------------------------------------------------------------
\* The thread each live frame interrupted.
LEMMA FrameOf == ASSUME TypeInv PROVE \A i \in 1..Len(host) : host[i] \in Frames /\ host[i].tcb \in Threads
<1>1. \A i \in 1..Len(host) : host[i] \in Frames
  BY Lengths, Zenon DEF TypeInv
<1> QED BY <1>1, Fields, Zenon

\* A delivery: SR is pushed with IEc set, and a nested one keeps the outer context.
LEMMA DeliverEnable ==
  ASSUME TypeInv, HostInv, EnableInv, NEW r, Delivers(r)
  PROVE  EnableInv'
<1>1. /\ Len(host') = Len(host) + 1 /\ host'[Len(host) + 1] = NewFrame
      /\ \A i \in 1..Len(host) : host'[i] = host[i]
      /\ \A t \in Threads : tcb'[t] = IF t = current THEN Interrupted(EntryEpc(r)) ELSE tcb[t]
  BY DeliverFacts, Zenon DEF Delivers
<1>2. Len(host) \in {0, 1}
  BY HostFacts DEF Delivers, CanDeliver, NestGate
<1>3. /\ pc' = Handler /\ ~g_rfe_escape_pending' /\ current' = current /\ current \in Threads
      /\ sr' = PushSR(sr) /\ (g_exc_escape_reason' = "LEGACY_SENTINEL" => r = None)
  BY Zenon DEF Delivers, Deliver, TypeInv
<1>4. sr'.p /\ tcb'[current].sr.p /\ tcb'[current].pc = EntryEpc(r)
  <2>1. sr.c /\ PushSR(sr).p = sr.c
    BY Shifts, Zenon DEF Delivers, CanDeliver, TypeInv
  <2>2. tcb'[current].sr = PushSR(sr) /\ tcb'[current].pc = EntryEpc(r)
    BY <1>1, <1>3 DEF Interrupted
  <2> QED BY <1>3, <2>1, <2>2, Zenon
<1>5. NewFrame.pc = pc /\ NewFrame.tcb = current /\ NewFrame.outer = tcb[current]
  BY Zenon DEF NewFrame
<1>6. EntryEpc(r) \in {pc, Sentinel} /\ (r = None => EntryEpc(r) = Sentinel)
  BY Zenon DEF EntryEpc, Delivers
<1>7. CASE Len(host) = 0
  <2>1. host'[1] = NewFrame /\ Len(host') = 1
    BY <1>1, <1>7
  <2>2. OuterInv'
    BY <1>3, <1>4, <1>5, <1>6, <2>1, Names, Zenon DEF OuterInv, Enabling
  <2> QED BY <2>1, <2>2 DEF EnableInv, NestedInv
<1>8. CASE Len(host) = 1
  <2>1. host'[1] = host[1] /\ host'[2] = NewFrame /\ host[1].tcb \in Threads /\ Len(host') = 2
    BY <1>1, <1>8, FrameOf
  <2>2. ~g_rfe_escape_pending
    BY <1>8, HostFacts DEF Delivers, CanDeliver, NestGate
  <2>3. /\ current = host[1].tcb => tcb[current].sr.p
        /\ current # host[1].tcb /\ pc = Handler => tcb'[host[1].tcb].sr.p
        /\ pc \in PCs => current # host[1].tcb
    BY <1>1, <1>8, <2>1, <2>2 DEF EnableInv, OuterInv
  <2>4. NestedInv'
    BY <1>3, <1>4, <1>5, <1>6, <2>1, <2>3, Names, Zenon DEF NestedInv, Enabling
  <2> QED BY <2>1, <2>4 DEF EnableInv, OuterInv
<1> QED BY <1>2, <1>7, <1>8, Zenon

\* Thread code in a handler's window neither leaves it nor touches the current context.
LEMMA ThreadEnable ==
  ASSUME TypeInv, HostInv, EnableInv, UNCHANGED program, ThreadStep
  PROVE  EnableInv'
<1>1. UNCHANGED host /\ Len(host) \in {0, 1, 2}
  BY BodyType, HostFacts, Zenon
<1>2. pc \in PCs /\ ~g_rfe_escape_pending /\ UNCHANGED <<escape, current>> /\ current \in Threads
  BY Zenon DEF ThreadStep, Work, CriticalSection, CloseThread, ChangeThreadFallback, OpenThread, InThread,
         threads, TypeInv
<1>3. Len(host) # 2
  BY <1>2, Names, Zenon DEF EnableInv, NestedInv
<1>4. CASE Len(host) = 0
  BY <1>1, <1>4 DEF EnableInv, OuterInv, NestedInv
<1>5. CASE Len(host) = 1
  <2>1. in_exception
    BY <1>5, HostFacts
  <2>2. pc' \in PCs /\ tcb'[current] = tcb[current]
    BY <1>2, <2>1, Zenon DEF ThreadStep, Work, CriticalSection, CloseThread, ChangeThreadFallback, OpenThread,
         threads, cpu, TypeInv
  <2> QED BY <1>1, <1>2, <1>5, <2>2, Names, Zenon DEF EnableInv, OuterInv, NestedInv, escape
<1> QED BY <1>1, <1>3, <1>4, <1>5, Zenon

\* The handler's own steps; ReturnFromException pops the SR of the context it reloads.
LEMMA HandlerEnable ==
  ASSUME TypeInv, HostInv, EnableInv, Compiles, UNCHANGED program, HandlerStep
  PROVE  EnableInv'
<1>1. /\ UNCHANGED host /\ Len(host) \in {1, 2} /\ pc = Handler
      /\ \A i \in 1..Len(host) : host[i].tcb \in Threads
  BY BodyType, HostFacts, FrameOf, Zenon
     DEF HandlerStep, Reenable, Preempt, RestoreStateEscape, ReturnFromException, InHandler, HostInv, TypeInv
<1>2. CASE Reenable \/ RestoreStateEscape
  <2>1. UNCHANGED <<pc, threads, escape>> /\ (sr' = sr \/ sr'.c)
    BY <1>2, Zenon DEF Reenable, RestoreStateEscape, TypeInv, SRs
  <2> QED BY <1>1, <2>1, Zenon DEF EnableInv, OuterInv, NestedInv, Enabling, threads, escape
<1>3. ASSUME NEW t \in Threads, Preempt(t) PROVE EnableInv'
  <2>1. Len(host) = 1 /\ UNCHANGED <<sr, pc, tcb, g_rfe_escape_pending, g_exc_escape_reason>>
    BY <1>3, Zenon DEF Preempt, cpu, escape
  <2>2. OuterInv'
    BY <1>1, <2>1, Names, Zenon DEF EnableInv, OuterInv
  <2> QED BY <1>1, <2>1, <2>2 DEF EnableInv, NestedInv
<1>4. CASE ReturnFromException
  <2>1. /\ sr' \in {PopSR(tcb[current].sr), RfeSR(tcb[current].sr)} /\ ~g_rfe_escape_pending
        /\ pc' = tcb[current].pc /\ current' = current /\ current \in Threads /\ tcb' = OuterTcb
        /\ g_rfe_escape_pending' <=> g_exc_escape_reason # "LEGACY_SENTINEL"
    BY <1>4, Zenon DEF ReturnFromException, InHandler, CompiledRfe, InterpretedRfe, Compiles, TypeInv
  <2>2. tcb[current].sr.p => Enabling(sr')
    <3>1. tcb[current].sr \in SRs
      BY <2>1, Fields, Zenon DEF TypeInv
    <3>2. sr'.c = tcb[current].sr.p
      BY <2>1, <3>1, Shifts
    <3> QED BY <3>2, Zenon DEF Enabling
  <2>3. CASE Len(host) = 1
    <3>1. pc' # Handler /\ tcb' = tcb
      BY <2>1, <2>3 DEF HostInv, OuterTcb
    <3>2. OuterInv
      BY DEF EnableInv
    <3>3. /\ tcb[host[1].tcb].sr.p
          /\ g_exc_escape_reason = "LEGACY_SENTINEL" => tcb[host[1].tcb].pc = Sentinel
      BY <1>1, <2>3, <3>2, Zenon DEF OuterInv
    <3>4. OuterInv'
      BY <1>1, <2>1, <2>2, <3>1, <3>3, Names, Zenon DEF OuterInv
    <3> QED BY <1>1, <2>3, <3>4 DEF EnableInv, NestedInv
  <2>4. CASE Len(host) = 2
    <3>0. NestedInv /\ OuterInv'
      BY <1>1, <2>4 DEF EnableInv, OuterInv
    <3>1. \A t \in Threads : tcb'[t] = IF t = host[2].tcb THEN host[2].outer ELSE tcb[t]
      BY <1>1, <2>1, <2>4, Zenon DEF OuterTcb, Top, TypeInv
    <3>2. /\ tcb[current].sr.p /\ current = host[2].tcb /\ pc' \in {host[2].pc, Sentinel}
          /\ g_exc_escape_reason = "LEGACY_SENTINEL" => pc' = Sentinel
      BY <1>1, <2>1, <2>4, <3>0, Zenon DEF NestedInv
    <3>3. /\ host' = host /\ current' = host[2].tcb /\ tcb'[current'] = host[2].outer
          /\ Enabling(sr') /\ (~g_rfe_escape_pending' => pc' = Sentinel) /\ Sentinel # Handler
      BY <1>1, <2>1, <2>2, <3>1, <3>2, Names, Zenon
    <3>4. /\ host[2].tcb = host[1].tcb => host[2].outer.sr.p
          /\ host[2].tcb # host[1].tcb /\ host[2].pc = Handler => tcb'[host[1].tcb].sr.p
          /\ host[2].pc \in PCs => host[2].tcb # host[1].tcb
      BY <1>1, <2>4, <3>0, <3>1 DEF NestedInv
    <3>5. NestedInv'
      BY <3>2, <3>3, <3>4, Zenon DEF NestedInv
    <3> QED BY <3>0, <3>5, Zenon DEF EnableInv
  <2> QED BY <1>1, <2>3, <2>4, Zenon
<1> QED BY <1>2, <1>3, <1>4, Zenon DEF HandlerStep

\* Leaving the inner handler brings back the outer one's context, with interrupts on.
LEMMA LeaveEnable ==
  ASSUME TypeInv, HostInv, EnableInv, UNCHANGED program,
         NEW p, NEW g, NEW s, NEW reason, Leaves(p, g, s, reason)
  PROVE  /\ EnableInv'
         /\ Len(host) = 1 /\ current' = Top.tcb => sr'.c
<1>1. /\ Epilogue(p, g, s, reason) /\ s \in SRs /\ Len(host') = Len(host) - 1 /\ Len(host) \in {1, 2}
      /\ \A i \in 1..Len(host') : host'[i] = host[i]
  BY LeaveFacts, Zenon
<1>2. /\ (Enabling(s) => sr'.c) /\ current' = current /\ current \in Threads
      /\ pc' = Top.pc \/ (pc' = p /\ p # None)
      /\ ~g_rfe_escape_pending' /\ g_exc_escape_reason' = "NONE"
  BY <1>1, Shifts, Zenon DEF Epilogue, ResumePCs, TypeInv
<1>3. SyscallReturn /\ s = PopSR(tcb[current].sr) /\ tcb[current].sr.p => Enabling(s)
  BY Shifts, Fields, SMTT(60) DEF Enabling, TypeInv
<1>4. g_exc_escape_reason = "LEGACY_SENTINEL" => ~g_rfe_escape_pending
  BY Zenon DEF HostInv, InExceptionMatchesHost
<1>5. CASE Len(host) = 1
  <2>1. current = Top.tcb => Enabling(s)
    BY <1>3, <1>5, Zenon DEF Leaves, RfeEscape, SentinelEscape, SyscallReturn, HandlerReturns, InHandler, EnableInv,
         OuterInv, Top
  <2> QED BY <1>1, <1>2, <1>5, <2>1, SMTT(60) DEF EnableInv, OuterInv, NestedInv
<1>6. CASE Len(host) = 2
  <2> DEFINE h == host[1]
             n == host[2]
  <2>1. Top = n /\ h.tcb \in Threads /\ current = n.tcb /\ NestedInv
    <3>1. Top = n /\ 1 \in 1..Len(host)
      BY <1>6 DEF Top
    <3>2. NestedInv
      BY Zenon DEF EnableInv
    <3> QED BY <1>6, <3>1, <3>2, FrameOf, Zenon DEF NestedInv
  <2>2. pc = Handler \/ tcb[current] = n.outer
    BY <1>6, <2>1, Zenon DEF NestedInv
  <2>3. \A t \in Threads : OuterTcb[t] = IF t = n.tcb THEN n.outer ELSE tcb[t]
    BY <1>6, <2>1, <2>2, Zenon DEF OuterTcb, TypeInv
  <2>4. g_rfe_escape_pending \/ pc = Sentinel => tcb[current] = n.outer
    BY <1>6, <2>1, Zenon DEF NestedInv
  <2>5. tcb'[current] = n.outer /\ (h.tcb # current => tcb'[h.tcb] = tcb[h.tcb])
    BY <1>2, <2>1, <2>3, <2>4, Zenon DEF Leaves, RfeEscape, SentinelEscape, SyscallReturn, HandlerReturns
  <2>6. SyscallReturn => pc = Handler /\ ~g_rfe_escape_pending
    BY <1>6, <2>1, Zenon DEF SyscallReturn, NestedInv
  <2>7. pc' \in {n.pc, Sentinel}
    <3>1. p \in {None, n.pc, Sentinel}
      BY <1>6, <2>1, <2>6, Zenon DEF Leaves, RfeEscape, NestedInv
    <3> QED BY <1>2, <2>1, <3>1, Zenon
  <2>8. Enabling(s)
    BY <1>3, <1>6, <2>1, <2>6, Zenon DEF Leaves, NestedInv
  <2>9. /\ h.tcb = n.tcb => n.outer.sr.p
        /\ h.tcb # n.tcb /\ n.pc = Handler => tcb[h.tcb].sr.p
        /\ n.pc \in PCs => n.tcb # h.tcb
    BY <1>6, <2>1, Zenon DEF NestedInv
  <2>10. host'[1] = h /\ Len(host') = 1
    BY <1>1, <1>6
  <2>11. OuterInv'
    BY <1>2, <2>1, <2>5, <2>7, <2>8, <2>9, <2>10, Names, Zenon DEF OuterInv, Enabling
  <2>12. Len(host') # 2
    BY <2>10
  <2>13. NestedInv'
    BY <2>12 DEF NestedInv
  <2>14. Len(host) # 1
    BY <1>6
  <2> QED BY <2>11, <2>13, <2>14, Zenon DEF EnableInv
<1> QED BY <1>1, <1>5, <1>6, Zenon

\* Every step keeps the interrupt-enable invariant.
LEMMA EnableStep ==
  ASSUME TypeInv, HostInv, Compiles => EnableInv, [Next]_vars
  PROVE  (Compiles => EnableInv)'
<1> SUFFICES ASSUME Compiles' PROVE EnableInv'
  BY Zenon
<1>1. UNCHANGED program /\ Compiles /\ EnableInv
  BY StepCases, Zenon DEF Compiles, program
<1>2. CASE Idles
  BY <1>1, <1>2, Zenon DEF Idles, EnableInv, OuterInv, NestedInv, Enabling, cpu, threads, frames, escape
<1>3. ASSUME NEW t, NEW cs, Switches(t, cs) PROVE EnableInv'
  <2>1. Len(host') = 0
    BY <1>3, HostFacts, Zenon DEF Switches, frames
  <2>2. Len(host') # 1 /\ Len(host') # 2
    BY <2>1
  <2> QED BY <2>2, Zenon DEF EnableInv, OuterInv, NestedInv
<1> QED BY <1>1, <1>2, <1>3, StepCases, DeliverEnable, ThreadEnable, HandlerEnable, LeaveEnable, Zenon

\* When the outermost handler returns to the thread it interrupted, IEc is set again, for
\* every program whose RFEs are compiled and every way out: RFE, SYSCALL 3, the sentinel
\* or a plain return, with or without a handler nested in between.
THEOREM InterruptsAlwaysComeBack == Spec => InterruptsComeBack
<1> DEFINE Inv == TypeInv /\ HostInv /\ (Compiles => EnableInv)
           Enables == /\ Len(host) = 1 /\ host' = <<>> /\ current' = Top.tcb
                      /\ "interprets" \notin does
                      => sr'.c
<1>1. Init => Inv
  <2> SUFFICES ASSUME Init PROVE Inv
    BY Zenon
  <2>1. Len(host) = 0
    BY Zenon DEF Init
  <2> QED BY <2>1, HostInit DEF EnableInv, OuterInv, NestedInv
<1>2. Inv /\ [Next]_vars => Inv'
  BY TypeStep, HostStep, EnableStep, Zenon
<1>3. Inv /\ [Next]_vars => [Enables]_vars
  <2> SUFFICES ASSUME Inv, [Next]_vars, Len(host) = 1, host' = <<>>, current' = Top.tcb, Compiles
               PROVE  sr'.c
    BY Zenon DEF Compiles
  <2>1. host' # host /\ Len(host') = 0
    OBVIOUS
  <2>2. ~Idles /\ ~ThreadStep /\ ~HandlerStep /\ \A t, cs : ~Switches(t, cs)
    BY <2>1, StepCases, BodyType, Zenon DEF Idles, Switches, frames
  <2>3. ASSUME NEW r, Delivers(r) PROVE FALSE
    BY <2>1, <2>3, DeliverFacts, Zenon DEF Delivers
  <2> QED BY <2>2, <2>3, StepCases, LeaveEnable, Zenon
<1> QED BY <1>1, <1>2, <1>3, PTL DEF Spec, InterruptsComeBack

-----------------------------------------------------------------------------
\* Under a disciplined guest no delivery nests, so the frame holds the running thread's
\* registers, and so does its TCB.
LEMMA DeliverOwn ==
  ASSUME TypeInv, HostInv, OwnInv, Disciplined, NEW r, Delivers(r)
  PROVE  OwnInv'
<1>1. Len(host) = 0 /\ host = <<>>
  <2> SUFFICES ASSUME Len(host) # 0 PROVE FALSE
    BY HostFacts, Zenon
  <2>1. in_exception /\ host # <<>>
    BY HostFacts, Zenon
  <2> QED BY <2>1, Zenon DEF Delivers, CanDeliver, NestGate, OwnInv
<1>2. /\ Len(host') = 1 /\ host' # <<>> /\ host'[1] = NewFrame
      /\ \A t \in Threads : tcb'[t] = IF t = current THEN Interrupted(EntryEpc(r)) ELSE tcb[t]
  <2>1. /\ Len(host') = Len(host) + 1 /\ host'[Len(host) + 1] = NewFrame /\ host' # <<>>
        /\ \A t \in Threads : tcb'[t] = IF t = current THEN Interrupted(EntryEpc(r)) ELSE tcb[t]
    BY DeliverFacts, Zenon DEF Delivers
  <2>2. Len(host) + 1 = 1
    BY <1>1
  <2> QED BY <2>1, <2>2, Zenon
<1>3. /\ pc' = Handler /\ ~g_rfe_escape_pending' /\ current \in Threads
      /\ UNCHANGED <<does, current, tstate, latest>> /\ g_exception_real_epc' = EntryEpc(r)
  BY Zenon DEF Delivers, Deliver, TypeInv, program
<1>4. ~sr'.c
  BY Shifts, Zenon DEF Delivers, Deliver, TypeInv
<1>5. NewFrame.saved = gpr /\ NewFrame.tcb = current
  BY Zenon DEF NewFrame
<1>6. Interrupted(EntryEpc(r)).gpr = gpr /\ Interrupted(EntryEpc(r)).pc = EntryEpc(r)
  BY Zenon DEF Interrupted
<1>7. g_exc_escape_reason' = "LEGACY_SENTINEL" => "boundary" \in does /\ EntryEpc(r) = Sentinel
  <2>1. pc \in PCs
    BY <1>1, Zenon DEF HostInv, Delivers, TypeInv, AllPCs
  <2> QED BY <2>1, Names, Zenon DEF Delivers, Deliver, EntryEpc
<1>8. \A t \in Threads : tstate[t] = "run" => tcb'[t].gpr = Own(t)
  BY <1>1, <1>2, <1>6, Zenon DEF OwnInv
<1>9. tstate[current] = "run" => gpr = Own(current)
  BY <1>1, Zenon DEF OwnInv
<1>10. tcb'[current].pc = g_exception_real_epc'
  BY <1>2, <1>3, <1>6, Zenon
<1>11. Len(host') <= 1
  BY <1>2
<1> QED BY <1>2, <1>3, <1>4, <1>5, <1>7, <1>8, <1>9, <1>10, <1>11, Names, ZenonT(60) DEF OwnInv, Own

\* Thread code runs outside every handler; only Work changes registers, the current thread's.
LEMMA ThreadOwn ==
  ASSUME TypeInv, HostInv, OwnInv, Disciplined, UNCHANGED program, ThreadStep
  PROVE  OwnInv'
<1>0. pc' \in PCs /\ pc' # Sentinel
  BY Names, Zenon DEF ThreadStep, Work, CriticalSection, CloseThread, ChangeThreadFallback, OpenThread, InThread,
         Disciplined, cpu
<1>1. UNCHANGED <<host, does, current>> /\ host = <<>>
  <2>1. pc \in PCs /\ ~g_rfe_escape_pending /\ UNCHANGED current
    BY Zenon DEF ThreadStep, Work, CriticalSection, CloseThread, ChangeThreadFallback, OpenThread, InThread, threads
  <2> QED BY <2>1, BodyType, Names, Zenon DEF OwnInv, program
<1>2. ASSUME NEW p \in PCs, Work(p) PROVE OwnInv'
  <2>1. /\ latest' = [latest EXCEPT ![current] = 1 - @] /\ UNCHANGED <<tstate, tcb>>
        /\ gpr = Own(current) => gpr' = <<current, latest'[current]>>
    BY <1>2, Zenon DEF Work, threads
  <2>2. \A t \in Threads : t # current => latest'[t] = latest[t]
    BY <2>1, Zenon DEF TypeInv, Versions
  <2> QED BY <1>0, <1>1, <2>1, <2>2, Zenon DEF OwnInv, Own
<1>3. ASSUME NEW e \in BOOLEAN, CriticalSection(e) PROVE OwnInv'
  BY <1>0, <1>1, <1>3, Zenon DEF CriticalSection, OwnInv, Own, threads, escape
<1>4. ASSUME NEW t \in Threads, CloseThread(t) PROVE OwnInv'
  <2>1. UNCHANGED <<gpr, tcb, latest>> /\ \A u \in Threads : tstate'[u] = "run" => tstate[u] = "run"
    BY <1>4, Zenon DEF CloseThread, TypeInv, cpu
  <2> QED BY <1>0, <1>1, <2>1, Zenon DEF OwnInv, Own, TypeInv
<1>5. ASSUME NEW t \in Threads, ChangeThreadFallback(t) PROVE FALSE
  BY <1>5, Zenon DEF ChangeThreadFallback, Disciplined
<1>6. ASSUME NEW t \in Threads, NEW p \in PCs, OpenThread(t, p) PROVE OwnInv'
  <2>1. UNCHANGED <<gpr, latest>> /\ t # current
    BY <1>6, Zenon DEF OpenThread, cpu
  <2>2. /\ \A u \in Threads : u # t => tstate'[u] = tstate[u] /\ tcb'[u] = tcb[u]
        /\ tcb'[t].gpr = Own(t)
    BY <1>6, Zenon DEF OpenThread, TypeInv
  <2> QED BY <1>0, <1>1, <2>1, <2>2, Zenon DEF OwnInv, Own, TypeInv
<1> QED BY <1>2, <1>3, <1>4, <1>5, <1>6, Zenon DEF ThreadStep

\* A switch saves the registers of the thread it leaves and loads those of the one it enters.
LEMMA SwitchOwn ==
  ASSUME TypeInv, HostInv, OwnInv, NEW t, NEW cs, Switches(t, cs)
  PROVE  OwnInv'
<1>1. host = <<>> /\ UNCHANGED <<host, tstate, latest>> /\ current' = t /\ gpr' = cs[t].gpr /\ tcb' = cs
  BY HostFacts, Zenon DEF Switches, ResumeFrom, frames
<1>2. t \in Threads /\ t # current /\ cs[t] = tcb[t]
  BY SwitchFacts, Zenon DEF Switches
<1>3. \A u \in Threads : tstate[u] = "run" => cs[u].gpr = Own(u)
  BY <1>1, SwitchFacts DEF OwnInv
<1>4. Len(host) = 0
  BY <1>1, HostFacts, Zenon
<1> QED BY <1>1, <1>2, <1>3, <1>4, Zenon DEF OwnInv, Own

\* The handler may name another thread, and reloads the registers of the one it names.
LEMMA HandlerOwn ==
  ASSUME TypeInv, HostInv, OwnInv, Disciplined, UNCHANGED program, HandlerStep
  PROVE  OwnInv'
<1>1. /\ UNCHANGED <<host, does, latest, tstate>> /\ Len(host) = 1 /\ host # <<>> /\ pc = Handler
      /\ ~g_rfe_escape_pending /\ host[1].tcb \in Threads
  <2>1. pc = Handler /\ UNCHANGED <<latest, tstate>>
    BY Zenon DEF HandlerStep, Reenable, Preempt, RestoreStateEscape, ReturnFromException, InHandler, threads
  <2>2. host # <<>> /\ Len(host) <= 1 /\ ~g_rfe_escape_pending
    BY <2>1, Zenon DEF HostInv, OwnInv
  <2> QED BY <2>1, <2>2, BodyType, HostFacts, FrameOf DEF program
<1>2. CASE Reenable
  BY <1>2, Zenon DEF Reenable, Disciplined
<1>3. CASE RestoreStateEscape
  BY <1>1, <1>3, Zenon DEF RestoreStateEscape, OwnInv, Own, threads, escape
<1>4. ASSUME NEW t \in Threads, Preempt(t) PROVE OwnInv'
  BY <1>1, <1>4, Zenon DEF Preempt, OwnInv, Own, cpu, escape
<1>5. CASE ReturnFromException
  <2>1. /\ pc' = tcb[current].pc /\ UNCHANGED <<current, tcb, g_exception_real_epc>>
        /\ gpr' = tcb[current].gpr \/ current = host[1].tcb
    BY <1>1, <1>5 DEF ReturnFromException, OuterTcb, Top
  <2>2. pc' # Handler
    BY <1>1, <2>1 DEF HostInv, TypeInv
  <2>3. CASE g_exc_escape_reason = "LEGACY_SENTINEL"
    <3>1. UNCHANGED <<g_exc_escape_reason, g_rfe_escape_pending>>
      BY <1>5, <2>3, Zenon DEF ReturnFromException, CompiledRfe, InterpretedRfe
    <3>2. current = host[1].tcb /\ tcb[current].pc = Sentinel
      BY <1>1, <2>3, Zenon DEF OwnInv, Disciplined
    <3> QED BY <1>1, <2>1, <2>2, <2>3, <3>1, <3>2, Zenon DEF OwnInv, Own
  <2>4. CASE g_exc_escape_reason # "LEGACY_SENTINEL"
    <3>1. g_exc_escape_reason' = "RFE_RETURN" /\ g_rfe_escape_pending'
      BY <1>5, <2>4, Zenon DEF ReturnFromException, CompiledRfe, InterpretedRfe, Disciplined
    <3> QED BY <1>1, <2>1, <2>2, <3>1, Zenon DEF OwnInv, Own
  <2> QED BY <2>3, <2>4, Zenon
<1> QED BY <1>2, <1>3, <1>4, <1>5, Zenon DEF HandlerStep

\* The epilogue overwrites the registers exactly when they are the interrupted thread's.
LEMMA LeaveOwn ==
  ASSUME TypeInv, HostInv, OwnInv, Disciplined, UNCHANGED program,
         NEW p, NEW g, NEW s, NEW reason, Leaves(p, g, s, reason)
  PROVE  OwnInv'
<1> DEFINE h == host[1]
<1>1. /\ host # <<>> /\ Len(host) = 1 /\ host' = <<>> /\ Len(host') = 0 /\ Top = h
      /\ Epilogue(p, g, s, reason) /\ tcb' = tcb
  <2>1. /\ host # <<>> /\ Epilogue(p, g, s, reason) /\ tcb' \in {tcb, OuterTcb}
        /\ Len(host') = Len(host) - 1 /\ Len(host) \in {1, 2} /\ (host' = <<>> <=> Len(host) = 1)
    BY LeaveFacts, Zenon
  <2>2. Len(host) = 1
    BY <2>1, SMTT(60) DEF OwnInv
  <2> QED BY <2>1, <2>2 DEF OuterTcb, Top
<1>2. /\ UNCHANGED <<current, tstate, latest>> /\ current \in Threads
      /\ gpr' = IF DoRestore(p, reason) THEN h.saved ELSE g
  BY <1>1 DEF Epilogue, TypeInv
<1>3. /\ \A t \in Threads : tstate[t] = "run" => tcb[t].gpr = Own(t)
      /\ tstate[h.tcb] = "run" => h.saved = Own(h.tcb)
      /\ tcb[h.tcb].pc = g_exception_real_epc
      /\ current # h.tcb => s_str_mode = 2 /\ g_exc_escape_reason # "LEGACY_SENTINEL"
  BY <1>1, Zenon DEF OwnInv, Disciplined
<1>4. s_str_mode \in {1, 2}
  BY DEF TypeInv, Disciplined
<1>5. tstate[current] = "run" => gpr' = Own(current)
  <2>1. CASE RfeEscape /\ p = pc /\ g = gpr /\ reason = g_exc_escape_reason
    <3>1. pc = tcb[current].pc /\ (gpr = tcb[current].gpr \/ current = h.tcb)
          /\ reason # "LEGACY_SENTINEL"
      BY <1>1, <2>1, Zenon DEF RfeEscape, OwnInv, HostInv, InExceptionMatchesHost
    <3>2. CASE current = h.tcb
      BY <1>1, <1>2, <1>3, <1>4, <2>1, <3>1, <3>2, Zenon DEF DoRestore
    <3>3. CASE current # h.tcb
      <4>1. s_str_mode = 2
        BY <1>3, <3>3, Zenon
      <4>2. s_str_mode # 1
        BY <4>1
      <4>3. ~DoRestore(p, reason)
        BY <1>1, <3>1, <3>3, <4>2, Zenon DEF DoRestore
      <4> QED BY <1>2, <1>3, <2>1, <3>1, <3>3, <4>3, Zenon
    <3> QED BY <3>2, <3>3, Zenon
  <2>2. CASE (SentinelEscape \/ HandlerReturns) /\ reason = g_exc_escape_reason
    <3>1. reason = "LEGACY_SENTINEL"
      BY <1>1, <2>2, Names, Zenon DEF SentinelEscape, HandlerReturns, OwnInv, Disciplined
    <3> QED BY <1>2, <1>3, <2>2, <3>1, Zenon DEF DoRestore
  <2>3. CASE reason = "SYSCALL_RETURN" /\ g = tcb[current].gpr
    <3>1. DoRestore(p, reason) => current = h.tcb
      <4>1. current # h.tcb => s_str_mode = 2
        BY <1>3, Zenon
      <4>2. current # h.tcb => s_str_mode # 1
        BY <4>1
      <4> QED BY <1>1, <2>3, <4>2, Zenon DEF DoRestore
    <3> QED BY <1>2, <1>3, <2>3, <3>1, Zenon
  <2> QED BY <2>1, <2>2, <2>3, Zenon DEF Leaves
<1>6. Len(host') <= 1
  BY <1>1
<1> QED BY <1>1, <1>2, <1>3, <1>5, <1>6, ZenonT(60) DEF OwnInv, Own

\* Under the discipline every step keeps the registers with their thread.
LEMMA OwnStep ==
  ASSUME TypeInv, HostInv, Disciplined => OwnInv, [Next]_vars
  PROVE  (Disciplined => OwnInv)'
<1> SUFFICES ASSUME Disciplined' PROVE OwnInv'
  BY Zenon
<1>1. UNCHANGED program /\ Disciplined /\ OwnInv
  BY StepCases, Zenon DEF Disciplined, program
<1>2. CASE Idles
  BY <1>1, <1>2, Zenon DEF Idles, OwnInv, Own, cpu, threads, frames, escape, program
<1> QED BY <1>1, <1>2, StepCases, DeliverOwn, ThreadOwn, SwitchOwn, HandlerOwn, LeaveOwn, Zenon

\* The invariants of the state, the host stack and ownership hold throughout.
LEMMA OwnAlways == Spec => [](TypeInv /\ HostInv /\ (Disciplined => OwnInv))
<1>1. Init => TypeInv /\ HostInv /\ OwnInv
  <2> SUFFICES ASSUME Init PROVE OwnInv
    BY HostInit, Zenon
  <2>1. Len(host) = 0 /\ host = <<>>
    BY Zenon DEF Init
  <2>2. gpr = Own(current) /\ \A t \in Threads : t # current => tstate[t] # "run"
    BY Zenon DEF Init
  <2>3. pc # Sentinel
    BY Names, Zenon DEF Init
  <2> QED BY <2>1, <2>2, <2>3 DEF OwnInv
<1>2. TypeInv /\ HostInv /\ (Disciplined => OwnInv) /\ [Next]_vars
      => TypeInv' /\ HostInv' /\ (Disciplined => OwnInv)'
  BY TypeStep, HostStep, OwnStep, Zenon
<1> QED BY <1>1, <1>2, PTL DEF Spec

\* Outside a handler a disciplined guest's runnable thread runs with its own latest
\* registers, for any number of threads, preempting handlers and yields, under either
\* restoring setting of PSX_SAME_THREAD_RESTORE.
THEOREM ThreadsAlwaysRunOwnRegisters == Spec => []RunsOwnRegisters
<1>1. TypeInv /\ HostInv /\ (Disciplined => OwnInv) => RunsOwnRegisters
  BY Zenon DEF OwnInv, RunsOwnRegisters
<1> QED BY <1>1, OwnAlways, PTL

\* ... and every other runnable thread has its latest registers in its TCB.
THEOREM SuspendedAlwaysSaved == Spec => []SuspendedContextSaved
<1>1. TypeInv /\ HostInv /\ (Disciplined => OwnInv) => SuspendedContextSaved
  BY Zenon DEF OwnInv, SuspendedContextSaved
<1> QED BY <1>1, OwnAlways, PTL

=============================================================================
