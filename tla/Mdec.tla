-------------------------------- MODULE Mdec --------------------------------
(***************************************************************************)
(* The macroblock decoder (mdec.c) between its two DMA channels: channel 0 *)
(* feeds it, channel 1 takes what it decodes, and neither moves a word the *)
(* decoder is not ready for.  A command is its length in words and, for a  *)
(* decode, the words it yields; tables, pixels and the enable bits that    *)
(* only the status register shows are left out.                            *)
(***************************************************************************)
EXTENDS Dma

CONSTANTS
  Commands,  \* what a word given to an idle decoder may start
  MdecWords  \* most words one advance can move

ASSUME MdecAssumption ==
  /\ {0, 1} \subseteq Paced /\ MdecWords \in Nat
  /\ \A c \in Commands : c.decode \in BOOLEAN /\ c.words \in Nat /\ c.yield \in Nat

VARIABLE mdec
mdecVars == <<dma, mdec>>

\* left: words the command still expects; out: decoded words not read yet;
\* lost: history, a DMA word has made a decode overwrite such words.
mdec_init ==
  [busy |-> FALSE, decode |-> FALSE, left |-> 0, yield |-> 0, out |-> 0, lost |-> FALSE]

\* Leaving the decoder busy.
finish_command_busy(m) == [m EXCEPT !.left = 0]
finish_command(m) == [m EXCEPT !.left = 0, !.busy = FALSE]

\* execute_decode starts by clearing the output.
execute_command(m) ==
  finish_command(
    IF m.decode THEN [m EXCEPT !.lost = @ \/ m.out > 0, !.out = m.yield] ELSE m)

begin_command(m, c) ==
  LET b == [m EXCEPT !.busy = TRUE, !.decode = c.decode, !.left = c.words, !.yield = c.yield]
  IN IF c.words = 0 THEN finish_command(b) ELSE b

write_data(m, c) ==
  IF ~m.busy \/ m.left = 0 THEN begin_command(m, c)
  ELSE LET w == [m EXCEPT !.left = @ - 1]
       IN IF w.left = 0 THEN execute_command(w) ELSE w

\* Accepting input while output waits.
write_ready_eager(m) == ~m.busy \/ m.left > 0
mdec_dma_write_ready(m) == m.out = 0 /\ (~m.busy \/ m.left > 0)

\* The decoder after each number of words, the commands among them being c;
\* and how many words it takes until it is not ready for another.
Fed(m, c) ==
  LET fed[n \in 0 .. MdecWords] ==
        IF n = 0 THEN m ELSE LET before == fed[n - 1] IN write_data(before, c)
  IN [n \in 0 .. MdecWords |-> fed[n]]
Taken(fed) ==
  CHOOSE n \in 0 .. MdecWords :
    /\ \A i \in 0 .. n - 1 : mdec_dma_write_ready(fed[i])
    /\ n < MdecWords => ~mdec_dma_write_ready(fed[n])

mdec_dma_read_word(m, n) == [m EXCEPT !.out = @ - n]

-----------------------------------------------------------------------------
\* advance_mdec_channel for channel 0 and then channel 1.
AdvanceMdec(cycles, c) ==
  LET Ready(n) == [p \in Paced |-> n]
  IN \E fed \in {Fed(mdec, c)} :
       \E d0 \in {advance_channel(dma, 0, cycles, Ready(Taken(fed)))} :
         LET m0 == fed[dma.left[0] - d0.left[0]]
         IN /\ dma' = advance_channel(d0, 1, cycles, Ready(m0.out))
            /\ mdec' = mdec_dma_read_word(m0, d0.left[1] - dma'.left[1])

TimePasses == \E cycles \in 1 .. MaxDmaStep, c \in Commands : AdvanceMdec(cycles, c)

\* The program: it starts and stops transfers into the decoder, starts transfers
\* out of it, and uses the data register while no transfer does.
StartIn == 0 \notin dma.busy /\ (\E n \in Lengths[0] : Start(0, FALSE, n)) /\ UNCHANGED mdec
StopIn == 0 \in dma.busy /\ Stop(0, FALSE) /\ UNCHANGED mdec
StartOut == 1 \notin dma.busy /\ (\E n \in Lengths[1] : Start(1, FALSE, n)) /\ UNCHANGED mdec

CpuWrite(c) ==
  /\ 0 \notin dma.busy
  /\ mdec' = [write_data(mdec, c) EXCEPT !.lost = mdec.lost]
  /\ UNCHANGED dma

CpuRead ==
  /\ 1 \notin dma.busy /\ mdec.out > 0
  /\ mdec' = mdec_dma_read_word(mdec, 1)
  /\ UNCHANGED dma

soft_reset == mdec' = [mdec_init EXCEPT !.lost = mdec.lost] /\ UNCHANGED dma

MdecInit ==
  /\ dma = [dma_init EXCEPT !.enabled = {0, 1}]
  /\ mdec = mdec_init

MdecNext ==
  \/ TimePasses \/ StartIn \/ StopIn \/ StartOut
  \/ \E c \in Commands : CpuWrite(c)
  \/ CpuRead \/ soft_reset

\* Time passes, and a program that leaves output waiting starts a transfer for it.
MdecSpec ==
  /\ MdecInit /\ [][MdecNext]_mdecVars
  /\ WF_mdecVars(TimePasses) /\ WF_mdecVars(mdec.out > 0 /\ StartOut)

-----------------------------------------------------------------------------
\* No word that DMA feeds makes the decoder overwrite output nobody has read: input waits
\* while output is pending, in the middle of a transfer too (mdec_dma_write_ready).
DmaKeepsOutput == ~mdec.lost

\* A transfer into the decoder always ends, however commands and their output are cut
\* across transfers: the two channels never wait for each other, as long as the program
\* fetches the output.
StreamFinishes == (0 \in dma.busy) ~> (0 \notin dma.busy)
=============================================================================
