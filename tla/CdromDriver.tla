----------------------------- MODULE CdromDriver -----------------------------
(***************************************************************************)
(* The CD-ROM controller under a guest driver that has one command         *)
(* outstanding at a time.  The driver is the guest's: its interrupt        *)
(* handler acknowledges the controller, may issue the next command, and    *)
(* acknowledges I_STAT last, the order cdrom.c describes for the BIOS.     *)
(***************************************************************************)
EXTENDS Cdrom

CONSTANT IsrCycles \* longest the handler runs

ASSUME DriverAssumption == IsrCycles \in Nat /\ IsrCycles < PRESENT_DELAY

VARIABLES
  drv,       \* where the driver is: the program or a step of the handler
  isr_time, \* cycles spent in the handler
  op        \* the command the driver waits for

dvars == <<cd, drv, isr_time, op>>

DriverInit == CdromInit /\ drv = "program" /\ isr_time = 0 /\ op = NoCmd

Time(n) ==
  /\ drv = "program" \/ isr_time + n <= IsrCycles
  /\ AdvanceCdrom(n, TRUE, FALSE)
  /\ isr_time' = IF drv = "program" THEN 0 ELSE isr_time + n
  /\ UNCHANGED <<drv, op>>

Issue(cmd) ==
  /\ drv = "program" /\ op = NoCmd
  /\ WriteCommand(cmd)
  /\ op' = cmd
  /\ UNCHANGED <<drv, isr_time>>

EnterHandler ==
  /\ drv = "program" /\ cd.i_stat
  /\ drv' = "ack" /\ isr_time' = 0
  /\ UNCHANGED <<cd, op>>

\* The response that ends the command: its second one if it has two.
Ends(int) == int \in {INT2, INT5} \/ (int = INT3 /\ op \notin TwoPhase)

HandlerAck ==
  /\ drv = "ack"
  /\ AckController({1, 2, 4})
  /\ op' = IF Ends(cd.irq_flag) THEN NoCmd ELSE op
  /\ drv' = "next"
  /\ UNCHANGED isr_time

HandlerIssue(cmd) ==
  /\ drv = "next" /\ op = NoCmd
  /\ WriteCommand(cmd)
  /\ op' = cmd /\ drv' = "intc"
  /\ UNCHANGED isr_time

HandlerSkip ==
  /\ drv = "next"
  /\ drv' = "intc"
  /\ UNCHANGED <<cd, isr_time, op>>

HandlerReturn ==
  /\ drv = "intc"
  /\ cd' = [cd EXCEPT !.i_stat = FALSE]
  /\ drv' = "program"
  /\ UNCHANGED <<isr_time, op>>

HandlerStep == EnterHandler \/ HandlerAck \/ HandlerSkip \/ HandlerReturn

DriverNext ==
  \/ \E n \in 1..MaxCdromStep : Time(n)
  \/ \E cmd \in Cmds : Issue(cmd) \/ HandlerIssue(cmd)
  \/ HandlerStep

\* Time passes and the handler, once due, runs to its end.
DriverSpec ==
  /\ DriverInit /\ [][DriverNext]_dvars
  /\ WF_dvars(\E n \in 1..MaxCdromStep : Time(n))
  /\ WF_dvars(HandlerStep)

-----------------------------------------------------------------------------
\* The lost interrupt of cdrom.c's presentation-delay comment never happens: outside the
\* handler, a response that has been presented and not acknowledged is pending in I_STAT.
NoLostInterrupt == drv = "program" /\ Visible(cd) /\ cd.latched => cd.i_stat

\* Every command the driver issues, from the program or from inside its handler, gets the
\* response that ends it, also while a sector stream keeps raising data-ready.
CommandsFinish == op # NoCmd ~> op = NoCmd
=============================================================================
