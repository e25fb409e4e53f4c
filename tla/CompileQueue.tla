---------------------------- MODULE CompileQueue ----------------------------
(***************************************************************************)
(* What the compile worker promises its callers: requests are served one   *)
(* at a time in the order they were accepted, a fragment in flight or      *)
(* remembered as finished is not accepted again, and at most one finished  *)
(* fragment is forgotten for an accepted one.  Threads, ring indices,      *)
(* table rows and shutdown are not visible here.                           *)
(***************************************************************************)
EXTENDS Naturals, Sequences

CONSTANTS Keys, NoKey, Room   \* Room: how many requests may wait

VARIABLES waiting,   \* accepted requests, oldest first
          busy,      \* the request being served, or NoKey
          known      \* finished requests that are remembered

qvars == <<waiting, busy, known>>

InFlightKeys == {waiting[i] : i \in 1..Len(waiting)} \cup {busy}

QInit == waiting = <<>> /\ busy = NoKey /\ known = {}

Accept(k) ==
  /\ Len(waiting) < Room /\ k \notin InFlightKeys /\ k \notin known
  /\ waiting' = Append(waiting, k)
  /\ known' = known \/ \E old \in known : known' = known \ {old}
  /\ UNCHANGED busy

Take ==
  /\ busy = NoKey /\ waiting # <<>>
  /\ busy' = Head(waiting) /\ waiting' = Tail(waiting)
  /\ UNCHANGED known

Finish ==
  /\ busy # NoKey
  /\ known' = known \cup {busy} /\ busy' = NoKey
  /\ UNCHANGED waiting

QNext == (\E k \in Keys : Accept(k)) \/ Take \/ Finish

QSpec == QInit /\ [][QNext]_qvars
=============================================================================
