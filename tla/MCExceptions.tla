---------------------------- MODULE MCExceptions ----------------------------
(* Instances of Exceptions for TLC: two threads, one or two block leaders and *)
(* one or two interrupt sources.                                              *)
EXTENDS Exceptions, TLC

CONSTANTS t1, t2, p1, p2, vblank, sio

Program(mode, deeds, sources) == [str_mode |-> mode, does |-> deeds, wired |-> sources]

ThreadSymmetry == Permutations(Threads)

\* Handlers that switch threads; checks without a resume PC; nested handlers;
\* a guest that does it all; handlers that return plainly, nested or not; a kernel
\* in dirty RAM.
MCPrograms ==
  {Program(2, {"preempts", "closes"}, {vblank}),
   Program(1, {"boundary", "closes"}, {vblank, sio}),
   Program(2, {"boundary", "reenables"}, {vblank}),
   Program(2, {"boundary", "preempts", "unrunnable", "closes"}, {vblank}),
   Program(1, {"reenables", "returns"}, {vblank}),
   Program(1, {"interprets", "closes"}, {vblank})}

\* The default: thread switches by ChangeThread only, PC equality.
MCDefault == {Program(1, {}, {vblank})}

\* A handler that enables interrupts again.
MCNests == {Program(2, {"reenables"}, {vblank})}
=============================================================================
