---------------------------- MODULE MCAutocompile ----------------------------
(* Two variants of an overlay in one region.  They share an entry; in the    *)
(* first instance each also has a function of its own.                      *)
EXTENDS Autocompile

DistinctEntries == [v \in {"v1", "v2"} |-> {"a", v}]
SameEntries == [v \in {"v1", "v2"} |-> {"a"}]
=============================================================================
