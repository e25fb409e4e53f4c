---------------------------- MODULE MCTextGuard ----------------------------
(* A game text of two pages: an instruction with a data word beside it, and *)
(* an instruction on the next page, inside the window that is compared at   *)
(* the first one.  The first has a compiled function.  The translation      *)
(* layer writes what RAM holds before the EXE is loaded.                    *)
EXTENDS TextGuard

MCImage == [w \in 2 .. 4 |-> 1]
MCTarget == [w \in {3} |-> 0]
=============================================================================
