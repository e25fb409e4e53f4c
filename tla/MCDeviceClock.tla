---------------------------- MODULE MCDeviceClock ----------------------------
(* Small instances of DeviceClock.  The ratios the code relies on are kept: a *)
(* charge is shorter than the hard cap, which is shorter than a frame, and a  *)
(* byte is shifted before it is acknowledged.                                 *)
EXTENDS DeviceClock

MCDeviceSets == {{"timer", "card"}, {"timer", "dma"}, {"cdrom"}, {"sio"}}
SerialOnly == {{"sio"}}

Mode(reset, target, overflow) ==
  [reset |-> reset, irq_target |-> target, irq_overflow |-> overflow, repeat |-> TRUE,
   toggle |-> FALSE, div |-> 2]

MCTimerModes == {Mode(FALSE, TRUE, TRUE)}

MCCyclesPerWord == [c \in Paced \cup Delayed \cup Immediate |-> 1]
MCLengths == [c \in Paced \cup Delayed \cup Immediate |-> {2}]
MCCtrlValues == {{"TX_EN", "SELECT", "ACK_IRQ_EN"}}
=============================================================================
