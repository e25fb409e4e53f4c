---------------------------- MODULE MCPersistence ----------------------------
(* What survives the process: memory cards in their files, and save states.  *)
(* A behaviour exercises one, `part'.  A formatted card of zeros, with two   *)
(* sectors; one save slot, three sections, two builds of the program.        *)
EXTENDS MemCard, SaveState

MCBlank == [s \in 0 .. 1 |-> [i \in 1 .. 1 |-> 0]]

VARIABLE part

MCInit ==
  /\ CardInit /\ Init /\ part \in {"card", "savestate"}
  /\ part = "card" => hle /\ build = CHOOSE b \in Builds : TRUE

MCNext ==
  /\ \/ part = "card" /\ CardNext /\ UNCHANGED vars
     \/ part = "savestate" /\ Next /\ UNCHANGED cardVars
  /\ UNCHANGED part

MCSpec == MCInit /\ [][MCNext]_<<cardVars, vars, part>>
=============================================================================
