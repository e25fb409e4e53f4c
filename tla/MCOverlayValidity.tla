------------------------- MODULE MCOverlayValidity -------------------------
(* The two guards between guest RAM and native code, the overlay            *)
(* candidates' and the game text's.  A behaviour exercises one, `part'.     *)
(*                                                                          *)
(* A small RAM for OverlayValidity: two words, each in a page of its own.   *)
(* o1 and o2 are two overlay variants loaded at the same entry, with code   *)
(* in both pages; f is a function whose entry lies inside o1 and o2, so its *)
(* address is a continuation until f is registered; k is a shard compiled   *)
(* from the code of o1.                                                     *)
EXTENDS OverlayValidity, MCTextGuard

\* As shipped, with and without unwinds of the host stack; and the shard tier.
Shipped == [sljit |-> FALSE, diff |-> FALSE, live |-> FALSE, cps |-> TRUE,
            blocked |-> {}, unwinds |-> FALSE, compiled |-> {"o1", "o2", "f"}]
MCSettings ==
  {Shipped,
   [Shipped EXCEPT !.unwinds = TRUE, !.blocked = {"b"},
                   !.compiled = {"o1", "f"}],
   [Shipped EXCEPT !.sljit = TRUE, !.live = TRUE, !.cps = FALSE,
                   !.compiled = {"o1", "k"}]}

MCWords == {"a", "b"}
MCPages == {"p", "q"}
MCPageOf == [w \in MCWords |-> IF w = "a" THEN "p" ELSE "q"]
MCBuckets == {"k"}
MCBktOf == [w \in MCWords |-> "k"]
MCAddr == [x \in Cands |-> IF x = "f" THEN "b" ELSE "a"]
MCRanges == [x \in Cands |->
  CASE x = "f" -> <<{"b"}>>
    [] x = "k" -> <<{"a", "b"}>>
    [] OTHER   -> <<{"a"}, {"b"}>>]
MCSrc == [x \in Cands |-> [w \in MCWords |-> IF x = "o2" THEN 1 ELSE 0]]

VARIABLE part \* the guard this behaviour exercises

\* The guard a behaviour does not exercise starts in one of its states.
MCInit ==
  /\ Init /\ TextInit /\ part \in {"overlay", "text"}
  /\ part = "overlay" => ~armed
  /\ part = "text" => Start(Shipped) /\ \A w \in Words : ram[w] = 0

MCNext ==
  /\ \/ part = "overlay" /\ Next /\ UNCHANGED textVars
     \/ part = "text" /\ TextNext /\ UNCHANGED vars
  /\ UNCHANGED part

MCSpec == MCInit /\ [][MCNext]_<<vars, textVars, part>>
=============================================================================
