------------------------------ MODULE MCDevices ------------------------------
(***************************************************************************)
(* Small instances of the four devices.  The root counter has two bits; a  *)
(* serial byte takes two cycles and one more to be acknowledged, and one   *)
(* charge can carry two bytes; DMA words cost two cycles for MDEC-out and  *)
(* three for the SPU.                                                      *)
(***************************************************************************)
EXTENDS ClockedDevices

MCCtrlValues ==
  {{}, {"TX_EN"}, {"SELECT", "ACK_IRQ_EN"}, {"TX_EN", "SELECT"}, {"TX_EN", "SELECT", "ACK_IRQ_EN"}}

MCCyclesPerWord == [c \in Channels |-> CASE c = 1 -> 2 [] c = 4 -> 3 [] OTHER -> 1]

\* Zero is the CD-ROM's length when no sector is loaded.  The GPU's zero-length reads are
\* left out: one started over a transfer in flight completes twice.
MCLengths == [c \in Channels |-> CASE c = 3 -> {0, 2} [] c = 4 -> {1} [] OTHER -> {2}]

\* MDEC with the SPU, the CD-ROM with the ordering-table clear.
MCDmaPrograms == {{1, 4}, {3, 6}}
=============================================================================
