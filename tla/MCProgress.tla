----------------------------- MODULE MCProgress -----------------------------
(* What must go on for the game not to hang: its threads, the CD-ROM        *)
(* commands it waits for, and its video transfers.  A behaviour exercises   *)
(* one, `part'.                                                             *)
(*                                                                          *)
(* The default program of MCExceptions; a CD-ROM handler shorter than the   *)
(* presentation delay, with a stream as fast as the second responses; and   *)
(* decoder commands of up to two words, one of which yields more output     *)
(* than a short transfer takes and less than a long one wants.              *)
EXTENDS MCExceptions, CdromDriver, Mdec

VARIABLE part

mcVars == <<vars, dvars, mdecVars, part>>

MCCyclesPerWord == [c \in {0, 1} |-> c + 1]
MCLengths == [c \in {0, 1} |-> IF c = 0 THEN {2, 3} ELSE {1, 3}]

Command(decode, words, yield) == [decode |-> decode, words |-> words, yield |-> yield]
MCCommands ==
  {Command(TRUE, 1, 2), Command(TRUE, 2, 0), Command(FALSE, 2, 0), Command(FALSE, 0, 0)}

\* The parts a behaviour does not exercise start in one of their states.
MCInit ==
  /\ Init /\ DriverInit /\ MdecInit
  /\ part \in {"threads", "cdrom", "mdec"}
  /\ part # "threads" => current = t1 /\ i_mask = {} /\ pc = p1

On(p, A) == part = p /\ A /\ UNCHANGED part
ThreadsOnly(A) == On("threads", A /\ UNCHANGED <<program, dvars, mdecVars>>)
CdromOnly(A) == On("cdrom", A /\ UNCHANGED <<vars, mdecVars>>)
MdecOnly(A) == On("mdec", A /\ UNCHANGED <<vars, dvars>>)

MCNext == ThreadsOnly(Next) \/ CdromOnly(DriverNext) \/ MdecOnly(MdecNext)

\* The fairness of FairSpec, DriverSpec and MdecSpec, each for its part.
MCSpec ==
  /\ MCInit /\ [][MCNext]_mcVars
  /\ WF_mcVars(ThreadsOnly(PreciseCheck)) /\ WF_mcVars(ThreadsOnly(MainBody))
  /\ WF_mcVars(ThreadsOnly(RfeEscape)) /\ WF_mcVars(ThreadsOnly(SentinelEscape))
  /\ SF_mcVars(ThreadsOnly(HandlerExit))
  /\ WF_mcVars(CdromOnly(\E n \in 1 .. MaxCdromStep : Time(n)))
  /\ WF_mcVars(CdromOnly(HandlerStep))
  /\ WF_mcVars(MdecOnly(TimePasses)) /\ WF_mcVars(MdecOnly(mdec.out > 0 /\ StartOut))
-----------------------------------------------------------------------------
\* Thread code keeps making progress however often devices raise their (non-SIO)
\* interrupts: the delivery cooldown lets a block body run between two handlers.
ThreadsGoOn == part = "threads" => ThreadsProgress
=============================================================================
