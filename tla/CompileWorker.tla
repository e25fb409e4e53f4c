---------------------------- MODULE CompileWorker ----------------------------
(***************************************************************************)
(* The background sljit compile worker, runtime/src/overlay_compile_worker.c: *)
(* a bounded ring of work items and a dedup table keyed by (phys, crc),    *)
(* shared between the dispatch thread (start, enqueue, stop) and the worker *)
(* thread under one mutex and one condition variable.                      *)
(*                                                                         *)
(* Every stretch of code that holds s_mtx is one step.  A Key stands for a *)
(* (phys, crc) pair: the snapshot an item carries is determined by it.     *)
(***************************************************************************)
EXTENDS Naturals, FiniteSets

CONSTANTS Keys,      \* the (phys, crc) pairs the dispatch thread asks for
          NoKey,     \* an unused ring slot, table row or worker register
          WQ_CAP,    \* capacity of the work ring s_q
          STATE_CAP, \* capacity of the dedup table s_state
          MaxEnq     \* bound on s_enq, which is a free-running uint64 counter

ASSUME CapAssumption == WQ_CAP \in Nat \ {0} /\ STATE_CAP \in Nat \ {0}
ASSUME KeyAssumption == NoKey \notin Keys /\ MaxEnq \in Nat

VARIABLES
  s_running,                   \* s_running
  s_q, s_q_head, s_q_tail, s_q_n, \* the ring; a popped slot reads NoKey
  s_state, s_state_n,          \* the dedup table, rows 1..s_state_n in use
  s_enq, s_done, s_failed,     \* the telemetry counters
  worker,                      \* where the worker thread is
  item, ok,                    \* worker_main's it and ok
  main                         \* where the dispatch thread is

ring   == <<s_q, s_q_head, s_q_tail, s_q_n>>
table  == <<s_state, s_state_n>>
vars   == <<s_running, ring, table, s_enq, s_done, s_failed, worker, item, ok, main>>

Slots     == 0 .. WQ_CAP - 1
Rows      == 1 .. STATE_CAP
InFlight  == {"QUEUED", "COMPILING"}
Finished  == {"DONE", "FAILED"}
StateEnt  == [key : Keys, state : InFlight \cup Finished]
NoEnt     == [key |-> NoKey, state |-> "FREE"]
WorkerPCs == {"none", "loop", "wait", "compile", "finish", "exited"}

TypeOK ==
  /\ s_running \in BOOLEAN
  /\ s_q \in [Slots -> Keys \cup {NoKey}]
  /\ s_q_head \in Slots /\ s_q_tail \in Slots /\ s_q_n \in 0 .. WQ_CAP
  /\ s_state \in [Rows -> StateEnt \cup {NoEnt}]
  /\ s_state_n \in 0 .. STATE_CAP
  /\ s_enq \in Nat /\ s_done \in Nat /\ s_failed \in Nat
  /\ worker \in WorkerPCs
  /\ item \in Keys \cup {NoKey} /\ ok \in BOOLEAN
  /\ main \in {"run", "join"}

-----------------------------------------------------------------------------
(* The dedup table.  state_add's eviction moves the last row into the hole. *)

state_find(k) == \E i \in 1 .. s_state_n : s_state[i].key = k

SetState(k, st) ==
  [i \in Rows |-> IF i <= s_state_n /\ s_state[i].key = k
                  THEN [key |-> k, state |-> st] ELSE s_state[i]]

FirstFinished(i) ==
  /\ i \in 1 .. s_state_n /\ s_state[i].state \in Finished
  /\ \A j \in 1 .. i - 1 : s_state[j].state \notin Finished

AddRow(k) ==
  /\ s_state_n < STATE_CAP
  /\ s_state' = [s_state EXCEPT ![s_state_n + 1] = [key |-> k, state |-> "QUEUED"]]
  /\ s_state_n' = s_state_n + 1

EvictAndAdd(k) ==
  /\ s_state_n = STATE_CAP
  /\ \E i \in Rows :
       /\ FirstFinished(i)
       /\ s_state' = [s_state EXCEPT ![i] = s_state[STATE_CAP],
                                     ![STATE_CAP] = [key |-> k, state |-> "QUEUED"]]
  /\ UNCHANGED s_state_n

state_add(k) == AddRow(k) \/ EvictAndAdd(k)

\* Mutant: SDL_CondSignal is forgotten.
NoWake(w) == w

Wake(w) == IF w = "wait" THEN "loop" ELSE w

-----------------------------------------------------------------------------
(* The dispatch thread. *)

thread == worker # "none"       \* s_thread # NULL

Start ==
  /\ main = "run" /\ ~thread
  /\ s_running' = TRUE /\ worker' = "loop"
  /\ UNCHANGED <<ring, table, s_enq, s_done, s_failed, item, ok, main>>

\* Mutant: the dedup lookup is dropped.
EnqueueNoDedup(k) ==
  /\ main = "run" /\ thread /\ s_enq < MaxEnq
  /\ s_q_n < WQ_CAP
  /\ state_add(k)
  /\ s_q' = [s_q EXCEPT ![s_q_tail] = k]
  /\ s_q_tail' = (s_q_tail + 1) % WQ_CAP
  /\ s_q_n' = s_q_n + 1
  /\ s_enq' = s_enq + 1
  /\ worker' = Wake(worker)
  /\ UNCHANGED <<s_running, s_q_head, s_done, s_failed, item, ok, main>>

Enqueue(k) ==
  /\ main = "run" /\ thread /\ s_enq < MaxEnq
  /\ ~state_find(k) /\ s_q_n < WQ_CAP
  /\ state_add(k)
  /\ s_q' = [s_q EXCEPT ![s_q_tail] = k]
  /\ s_q_tail' = (s_q_tail + 1) % WQ_CAP
  /\ s_q_n' = s_q_n + 1
  /\ s_enq' = s_enq + 1
  /\ worker' = Wake(worker)
  /\ UNCHANGED <<s_running, s_q_head, s_done, s_failed, item, ok, main>>

StopSignal ==
  /\ main = "run" /\ thread
  /\ s_running' = FALSE /\ worker' = Wake(worker) /\ main' = "join"
  /\ UNCHANGED <<ring, table, s_enq, s_done, s_failed, item, ok>>

StopJoin ==
  /\ main = "join" /\ worker = "exited"
  /\ worker' = "none" /\ main' = "run"
  /\ s_q' = [i \in Slots |-> NoKey] /\ s_q_head' = s_q_tail /\ s_q_n' = 0
  /\ UNCHANGED <<s_running, s_q_tail, table, s_enq, s_done, s_failed, item, ok>>

-----------------------------------------------------------------------------
(* The worker thread. *)

WorkerWait ==
  /\ worker = "loop" /\ s_running /\ s_q_n = 0
  /\ worker' = "wait"
  /\ UNCHANGED <<s_running, ring, table, s_enq, s_done, s_failed, item, ok, main>>

SpuriousWake ==
  /\ worker = "wait" /\ worker' = "loop"
  /\ UNCHANGED <<s_running, ring, table, s_enq, s_done, s_failed, item, ok, main>>

\* Mutant: the newest item is taken.
WorkerPopNewest ==
  LET newest == (s_q_tail + WQ_CAP - 1) % WQ_CAP IN
  /\ worker = "loop" /\ s_q_n > 0
  /\ item' = s_q[newest]
  /\ s_q' = [s_q EXCEPT ![newest] = NoKey]
  /\ s_q_tail' = newest
  /\ s_q_n' = s_q_n - 1
  /\ s_state' = SetState(s_q[newest], "COMPILING")
  /\ worker' = "compile"
  /\ UNCHANGED <<s_running, s_q_head, s_state_n, s_enq, s_done, s_failed, ok, main>>

WorkerPop ==
  /\ worker = "loop" /\ s_q_n > 0
  /\ item' = s_q[s_q_head]
  /\ s_q' = [s_q EXCEPT ![s_q_head] = NoKey]
  /\ s_q_head' = (s_q_head + 1) % WQ_CAP
  /\ s_q_n' = s_q_n - 1
  /\ s_state' = SetState(s_q[s_q_head], "COMPILING")
  /\ worker' = "compile"
  /\ UNCHANGED <<s_running, s_q_tail, s_state_n, s_enq, s_done, s_failed, ok, main>>

\* compile_fragment may decline any fragment; publishing does not change ok.
WorkerCompile ==
  /\ worker = "compile"
  /\ ok' \in BOOLEAN /\ worker' = "finish"
  /\ UNCHANGED <<s_running, ring, table, s_enq, s_done, s_failed, item, main>>

WorkerFinish ==
  /\ worker = "finish"
  /\ s_state' = SetState(item, IF ok THEN "DONE" ELSE "FAILED")
  /\ s_done' = IF ok THEN s_done + 1 ELSE s_done
  /\ s_failed' = IF ok THEN s_failed ELSE s_failed + 1
  /\ item' = NoKey /\ ok' = FALSE /\ worker' = "loop"
  /\ UNCHANGED <<s_running, ring, s_state_n, s_enq, main>>

WorkerExit ==
  /\ worker = "loop" /\ ~s_running /\ s_q_n = 0
  /\ worker' = "exited"
  /\ UNCHANGED <<s_running, ring, table, s_enq, s_done, s_failed, item, ok, main>>

-----------------------------------------------------------------------------
Init ==
  /\ s_running = FALSE
  /\ s_q = [i \in Slots |-> NoKey] /\ s_q_head = 0 /\ s_q_tail = 0 /\ s_q_n = 0
  /\ s_state = [i \in Rows |-> NoEnt] /\ s_state_n = 0
  /\ s_enq = 0 /\ s_done = 0 /\ s_failed = 0
  /\ worker = "none" /\ item = NoKey /\ ok = FALSE /\ main = "run"

Dispatch == Start \/ (\E k \in Keys : Enqueue(k)) \/ StopSignal \/ StopJoin
Worker   == WorkerWait \/ WorkerPop \/ WorkerCompile \/ WorkerFinish \/ WorkerExit
Next     == Dispatch \/ Worker \/ SpuriousWake

\* The worker thread is scheduled; a thread that joins it returns once it may.
Fairness == WF_vars(Worker) /\ WF_vars(StopJoin)
Spec     == Init /\ [][Next]_vars /\ Fairness

-----------------------------------------------------------------------------
(* Properties. *)

Compiling == worker \in {"compile", "finish"}

InWindow(s) ==
  IF s_q_head + s_q_n <= WQ_CAP
  THEN s_q_head <= s /\ s < s_q_head + s_q_n
  ELSE s_q_head <= s \/ s < s_q_head + s_q_n - WQ_CAP

\* The ring s_q holds work in exactly the s_q_n slots that start at s_q_head:
\* no push overwrites a waiting item and no pop reads an empty slot, across
\* every wrap-around of the two indices (enqueue and worker_main).
RingWindow ==
  /\ s_q_tail = IF s_q_head + s_q_n < WQ_CAP THEN s_q_head + s_q_n
                ELSE s_q_head + s_q_n - WQ_CAP
  /\ \A s \in Slots : s_q[s] # NoKey <=> InWindow(s)

\* The dedup table tells the truth about work in flight: each key has one row
\* at most, a row is QUEUED exactly while its item waits in the ring and
\* COMPILING exactly while the worker holds it, and no item waits twice.
\* Eviction (state_add) and draining (stop) never break this.
InFlightTracked ==
  /\ \A i, j \in 1 .. s_state_n : s_state[i].key = s_state[j].key => i = j
  /\ \A r, s \in Slots : s_q[r] = s_q[s] /\ s_q[r] # NoKey => r = s
  /\ \A s \in Slots : s_q[s] # NoKey =>
       \E i \in 1 .. s_state_n : s_state[i] = [key |-> s_q[s], state |-> "QUEUED"]
  /\ Compiling =>
       \E i \in 1 .. s_state_n : s_state[i] = [key |-> item, state |-> "COMPILING"]
  /\ \A i \in 1 .. s_state_n :
       /\ s_state[i].state = "QUEUED" => \E s \in Slots : s_q[s] = s_state[i].key
       /\ s_state[i].state = "COMPILING" => Compiling /\ item = s_state[i].key

\* The counters the debug server reads account for every accepted request:
\* what was enqueued is compiled, declined, waiting or being compiled.
CountersBalance ==
  s_enq = s_done + s_failed + s_q_n + (IF Compiling THEN 1 ELSE 0)

\* The worker leaves only with an empty ring, so stop()'s final drain frees
\* nothing and no accepted request is dropped by a shutdown.
StopLosesNothing == worker \in {"exited", "none"} => s_q_n = 0

\* The ring read from its head, and the finished rows: what CompileQueue speaks of.
RingSlot(i) ==
  IF s_q_head + i - 1 < WQ_CAP THEN s_q_head + i - 1 ELSE s_q_head + i - 1 - WQ_CAP
Waiting == [i \in 1 .. s_q_n |-> s_q[RingSlot(i)]]
Known == {k \in Keys : \E i \in 1 .. s_state_n :
                          s_state[i].key = k /\ s_state[i].state \in Finished}

Queue == INSTANCE CompileQueue
           WITH Room <- WQ_CAP, waiting <- Waiting, busy <- item, known <- Known

\* Ring, table, two threads, eviction and shutdown together implement the plain queue of
\* CompileQueue: first come first served, one at a time, and no fragment accepted again
\* while it is in flight or remembered.
ImplementsQueue == Queue!QSpec

\* Every accepted request is eventually compiled or declined: no signal on
\* s_cv is lost between enqueue and the worker's wait, and stop drains.
RequestFinishes ==
  \A k \in Keys : (\E s \in Slots : s_q[s] = k) ~> (\A s \in Slots : s_q[s] # k) /\ item # k

\* stop() returns: the join never waits for a worker that sleeps on s_cv.
StopReturns == (main = "join") ~> (main = "run")
=============================================================================
