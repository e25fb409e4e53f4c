------------------------- MODULE CompileWorkerProofs -------------------------
(***************************************************************************)
(* The compile worker and the shard cache it fills, for every capacity and *)
(* every set of keys: the ring and the dedup table stay consistent, the    *)
(* worker implements the abstract queue (CompileQueue), and the cache      *)
(* (ShardCache) neither misses a file nor registers one twice.             *)
(***************************************************************************)
EXTENDS ShardCache, SequenceTheorems, FiniteSetTheorems, TLAPS

\* Incrementing a ring index wraps exactly at the capacity: (x + 1) % WQ_CAP
\* in enqueue, worker_main and stop.
LEMMA WrapLemma ==
  ASSUME NEW x \in Slots
  PROVE  (x + 1) % WQ_CAP = IF x + 1 = WQ_CAP THEN 0 ELSE x + 1
<1>1. WQ_CAP \in Nat /\ WQ_CAP > 0 /\ x \in Nat /\ x < WQ_CAP
  BY CapAssumption DEF Slots
<1>2. CASE x + 1 = WQ_CAP
  BY <1>1, <1>2
<1>3. CASE x + 1 < WQ_CAP
  BY <1>1, <1>3
<1> QED BY <1>1, <1>2, <1>3

\* Rows in use hold real entries, and the worker holds a key while it compiles.
RowsUsed ==
  /\ \A i \in 1 .. s_state_n : s_state[i] \in StateEnt
  /\ Compiling => item \in Keys

\* Only stop() clears s_running, and it then waits: the worker cannot have
\* left while the dispatch thread still enqueues.
ExitOnlyInStop ==
  /\ worker = "exited" => main = "join"
  /\ thread /\ main = "run" => s_running

IInv == TypeOK /\ RowsUsed /\ RingWindow /\ InFlightTracked

\* What state_add leaves behind: rows in use stay entries with distinct keys,
\* the new key is QUEUED, and every in-flight row is still there.
LEMMA StateAddLemma ==
  ASSUME TypeOK, RowsUsed, NEW k \in Keys, ~state_find(k), state_add(k),
         \A i, j \in 1 .. s_state_n : s_state[i].key = s_state[j].key => i = j
  PROVE  /\ s_state' \in [Rows -> StateEnt \cup {NoEnt}]
         /\ s_state_n' \in 0 .. STATE_CAP
         /\ \A i \in 1 .. s_state_n' : s_state'[i] \in StateEnt
         /\ \A i, j \in 1 .. s_state_n' : s_state'[i].key = s_state'[j].key => i = j
         /\ \E i \in 1 .. s_state_n' : s_state'[i] = [key |-> k, state |-> "QUEUED"]
         /\ \A i \in 1 .. s_state_n : s_state[i].state \in InFlight =>
              \E j \in 1 .. s_state_n' : s_state'[j] = s_state[i]
         /\ \A j \in 1 .. s_state_n' :
              \/ s_state'[j] = [key |-> k, state |-> "QUEUED"]
              \/ \E i \in 1 .. s_state_n : s_state'[j] = s_state[i]
<1> DEFINE new == [key |-> k, state |-> "QUEUED"]
<1>0. /\ STATE_CAP \in Nat /\ STATE_CAP > 0 /\ s_state_n \in Nat /\ s_state_n <= STATE_CAP
      /\ s_state \in [Rows -> StateEnt \cup {NoEnt}]
      /\ new \in StateEnt /\ new.key = k
      /\ \A i \in 1 .. s_state_n : s_state[i] \in StateEnt /\ s_state[i].key # k
  BY CapAssumption DEF TypeOK, RowsUsed, StateEnt, InFlight, state_find
<1>1. CASE AddRow(k)
  <2>1. /\ s_state_n < STATE_CAP /\ s_state_n' = s_state_n + 1
        /\ s_state' = [s_state EXCEPT ![s_state_n + 1] = new]
    BY <1>1, Zenon DEF AddRow
  <2>2. s_state'[s_state_n + 1] = new /\ \A i \in 1 .. s_state_n : s_state'[i] = s_state[i]
    BY <1>0, <2>1 DEF Rows
  <2>3. s_state' \in [Rows -> StateEnt \cup {NoEnt}]
    BY <1>0, <2>1, Zenon
  <2> HIDE DEF new
  <2> QED BY <1>0, <2>1, <2>2, <2>3 DEF new
<1>2. CASE EvictAndAdd(k)
  <2>1. PICK e \in Rows : /\ FirstFinished(e)
                          /\ s_state' = [s_state EXCEPT ![e] = s_state[STATE_CAP],
                                                        ![STATE_CAP] = new]
    BY <1>2, Zenon DEF EvictAndAdd
  <2>2. s_state_n = STATE_CAP /\ s_state_n' = STATE_CAP
    BY <1>2, Zenon DEF EvictAndAdd
  <2>3. e \in 1 .. STATE_CAP /\ s_state[e].state \notin InFlight
    BY <2>1, <2>2, Zenon DEF FirstFinished, Finished, InFlight
  <2>4. /\ s_state'[STATE_CAP] = new
        /\ \A i \in 1 .. STATE_CAP : i # e /\ i # STATE_CAP => s_state'[i] = s_state[i]
        /\ e # STATE_CAP => s_state'[e] = s_state[STATE_CAP]
    BY <1>0, <2>1, <2>3 DEF Rows
  <2>5. s_state' \in [Rows -> StateEnt \cup {NoEnt}]
    BY <1>0, <2>1, <2>3 DEF Rows
  <2>6. \A i \in 1 .. STATE_CAP : s_state'[i] \in StateEnt
    BY <1>0, <2>2, <2>3, <2>4
  <2>7. \A i, j \in 1 .. STATE_CAP : s_state'[i].key = s_state'[j].key => i = j
    BY <1>0, <2>2, <2>3, <2>4
  <2>8. \A i \in 1 .. STATE_CAP : s_state[i].state \in InFlight =>
              \E j \in 1 .. STATE_CAP : s_state'[j] = s_state[i]
    <3> SUFFICES ASSUME NEW i \in 1 .. STATE_CAP, s_state[i].state \in InFlight
                 PROVE  \E j \in 1 .. STATE_CAP : s_state'[j] = s_state[i]
      BY Zenon
    <3>1. i # e
      BY <2>3, Zenon
    <3>2. CASE i = STATE_CAP
      BY <3>1, <3>2, <2>3, <2>4, Zenon
    <3>3. CASE i # STATE_CAP
      BY <3>1, <3>3, <2>4, Zenon
    <3> QED BY <3>2, <3>3, Zenon
  <2>9. \A j \in 1 .. STATE_CAP :
              s_state'[j] = new \/ \E i \in 1 .. STATE_CAP : s_state'[j] = s_state[i]
    BY <1>0, <2>3, <2>4
  <2>10. \E i \in 1 .. STATE_CAP : s_state'[i] = new
    BY <1>0, <2>4
  <2> HIDE DEF new
  <2> QED BY <1>0, <2>2, <2>5, <2>6, <2>7, <2>8, <2>9, <2>10 DEF new
<1> QED BY <1>1, <1>2, Zenon DEF state_add

\* The statics' initial values: nothing queued, no row used, no thread.
LEMMA InitEstablishes == Init => IInv
<1> SUFFICES ASSUME Init PROVE IInv
  BY Zenon
<1>1. TypeOK
  <2>1. s_state \in [Rows -> StateEnt \cup {NoEnt}]
    BY Zenon DEF Init
  <2>2. s_q \in [Slots -> Keys \cup {NoKey}]
    BY Zenon DEF Init
  <2>3. 0 \in Slots /\ 0 \in 0 .. WQ_CAP /\ 0 \in 0 .. STATE_CAP
    BY CapAssumption DEF Slots
  <2> QED BY <2>1, <2>2, <2>3, Zenon DEF Init, TypeOK, WorkerPCs
<1>2. RowsUsed /\ RingWindow /\ InFlightTracked
  BY CapAssumption
  DEF Init, RowsUsed, RingWindow, InFlightTracked, InWindow, Compiling, Slots, Rows
<1> QED BY <1>1, <1>2, Zenon DEF IInv

\* A step that leaves the ring, the table, the item and "compiling" alone
\* keeps the ring and the table consistent.
LEMMA FrameLemma ==
  ASSUME IInv, UNCHANGED <<ring, table, item>>, Compiling' = Compiling
  PROVE  RowsUsed' /\ RingWindow' /\ InFlightTracked'
  BY Zenon DEF IInv, RowsUsed, RingWindow, InFlightTracked, InWindow, ring, table

\* overlay_compile_worker_enqueue: a new row and a new ring slot name the same job.
LEMMA EnqueuePreserves ==
  ASSUME IInv, NEW k \in Keys, Enqueue(k)
  PROVE  IInv'
<1>0. /\ WQ_CAP \in Nat /\ WQ_CAP > 0 /\ NoKey \notin Keys
      /\ s_q_head \in Nat /\ s_q_head < WQ_CAP /\ s_q_n \in Nat /\ s_q_n < WQ_CAP
      /\ s_q_tail \in Slots
      /\ s_q \in [Slots -> Keys \cup {NoKey}]
      /\ s_q' = [s_q EXCEPT ![s_q_tail] = k]
      /\ s_q_tail' = (s_q_tail + 1) % WQ_CAP
      /\ s_q_n' = s_q_n + 1 /\ s_q_head' = s_q_head /\ item' = item
  BY CapAssumption, KeyAssumption DEF IInv, TypeOK, Enqueue, Slots
<1>1. s_q_tail' = IF s_q_tail + 1 = WQ_CAP THEN 0 ELSE s_q_tail + 1
  BY <1>0, WrapLemma, Zenon
<1>2. ~InWindow(s_q_tail) /\ s_q[s_q_tail] = NoKey
  BY <1>0 DEF IInv, RingWindow, InWindow, Slots
<1>3. \A s \in Slots : s_q'[s] = IF s = s_q_tail THEN k ELSE s_q[s]
  BY <1>0, Zenon
<1>4. RingWindow'
  <2>1. s_q_tail' = IF s_q_head' + s_q_n' < WQ_CAP THEN s_q_head' + s_q_n'
                    ELSE s_q_head' + s_q_n' - WQ_CAP
    BY <1>0, <1>1 DEF IInv, RingWindow, Slots
  <2>2. \A s \in Slots : InWindow(s)' <=> InWindow(s) \/ s = s_q_tail
    BY <1>0 DEF IInv, RingWindow, InWindow, Slots
  <2> QED BY <1>0, <1>3, <2>1, <2>2, Zenon DEF IInv, RingWindow
<1>5. Compiling' = Compiling
  BY DEF Enqueue, Wake, Compiling
<1>6. /\ s_state' \in [Rows -> StateEnt \cup {NoEnt}]
      /\ s_state_n' \in 0 .. STATE_CAP
      /\ \A i \in 1 .. s_state_n' : s_state'[i] \in StateEnt
      /\ \A i, j \in 1 .. s_state_n' : s_state'[i].key = s_state'[j].key => i = j
      /\ \E i \in 1 .. s_state_n' : s_state'[i] = [key |-> k, state |-> "QUEUED"]
      /\ \A i \in 1 .. s_state_n : s_state[i].state \in InFlight =>
           \E j \in 1 .. s_state_n' : s_state'[j] = s_state[i]
      /\ \A j \in 1 .. s_state_n' :
           \/ s_state'[j] = [key |-> k, state |-> "QUEUED"]
           \/ \E i \in 1 .. s_state_n : s_state'[j] = s_state[i]
  BY StateAddLemma, Zenon DEF IInv, InFlightTracked, Enqueue
<1>7. TypeOK'
  BY <1>0, <1>1, <1>6, SMTT(60) DEF IInv, TypeOK, Enqueue, Wake, WorkerPCs, Slots
<1>8. RowsUsed'
  BY <1>0, <1>5, <1>6, Zenon DEF IInv, RowsUsed
<1>9. InFlightTracked'
  <2>1. \A s \in Slots : s_q[s] # k
    <3> SUFFICES ASSUME NEW s \in Slots, s_q[s] = k PROVE FALSE
      BY Zenon
    <3>1. PICK i \in 1 .. s_state_n : s_state[i] = [key |-> k, state |-> "QUEUED"]
      BY <1>0, Zenon DEF IInv, InFlightTracked
    <3>2. s_state[i].key = k
      BY <3>1
    <3> QED BY <3>2, Zenon DEF Enqueue, state_find
  <2>2. \A r, s \in Slots : s_q'[r] = s_q'[s] /\ s_q'[r] # NoKey => r = s
    BY <1>3, <2>1 DEF IInv, InFlightTracked
  <2>3. \A s \in Slots : s_q'[s] # NoKey =>
          \E i \in 1 .. s_state_n' : s_state'[i] = [key |-> s_q'[s], state |-> "QUEUED"]
    <3> SUFFICES ASSUME NEW s \in Slots, s_q'[s] # NoKey
                 PROVE  \E i \in 1 .. s_state_n' :
                          s_state'[i] = [key |-> s_q'[s], state |-> "QUEUED"]
      BY Zenon
    <3>1. CASE s = s_q_tail
      BY <1>3, <1>6, <3>1, Zenon
    <3>2. CASE s # s_q_tail
      <4>1. s_q'[s] = s_q[s]
        BY <1>3, <3>2, Zenon
      <4>2. PICK i \in 1 .. s_state_n : s_state[i] = [key |-> s_q[s], state |-> "QUEUED"]
        BY <4>1, Zenon DEF IInv, InFlightTracked
      <4>3. s_state[i].state \in InFlight
        BY <4>2 DEF InFlight
      <4> QED BY <4>1, <4>2, <4>3, <1>6
    <3> QED BY <3>1, <3>2, Zenon
  <2>4. Compiling' => \E i \in 1 .. s_state_n' :
                        s_state'[i] = [key |-> item', state |-> "COMPILING"]
    <3> SUFFICES ASSUME Compiling
                 PROVE  \E i \in 1 .. s_state_n' :
                          s_state'[i] = [key |-> item, state |-> "COMPILING"]
      BY <1>0, <1>5, Zenon
    <3>1. PICK i \in 1 .. s_state_n : s_state[i] = [key |-> item, state |-> "COMPILING"]
      BY Zenon DEF IInv, InFlightTracked
    <3>2. s_state[i].state \in InFlight
      BY <3>1 DEF InFlight
    <3> QED BY <3>1, <3>2, <1>6
  <2>5. \A j \in 1 .. s_state_n' :
          /\ s_state'[j].state = "QUEUED" => \E s \in Slots : s_q'[s] = s_state'[j].key
          /\ s_state'[j].state = "COMPILING" => Compiling' /\ item' = s_state'[j].key
    <3> SUFFICES ASSUME NEW j \in 1 .. s_state_n'
        PROVE /\ s_state'[j].state = "QUEUED" => \E s \in Slots : s_q'[s] = s_state'[j].key
              /\ s_state'[j].state = "COMPILING" => Compiling' /\ item' = s_state'[j].key
      BY Zenon
    <3>1. CASE s_state'[j] = [key |-> k, state |-> "QUEUED"]
      BY <1>0, <1>3, <3>1
    <3>2. CASE \E i \in 1 .. s_state_n : s_state'[j] = s_state[i]
      <4>1. PICK i \in 1 .. s_state_n : s_state'[j] = s_state[i]
        BY <3>2, Zenon
      <4>2. s_state[i].state = "QUEUED" => \E s \in Slots : s_q[s] = s_state[i].key
        BY Zenon DEF IInv, InFlightTracked
      <4>3. s_state[i].state = "COMPILING" => Compiling /\ item = s_state[i].key
        BY Zenon DEF IInv, InFlightTracked
      <4>4. s_state[i].key # NoKey
        BY <1>0, Zenon DEF IInv, RowsUsed, StateEnt
      <4>5. \A s \in Slots : s_q[s] = s_state[i].key => s_q'[s] = s_state[i].key
        BY <1>2, <1>3, <4>4, Zenon
      <4> QED BY <4>1, <4>2, <4>3, <4>5, <1>0, <1>5, Zenon
    <3> QED BY <3>1, <3>2, <1>6, Zenon
  <2> QED BY <1>6, <2>2, <2>3, <2>4, <2>5, Zenon DEF InFlightTracked
<1> QED BY <1>4, <1>7, <1>8, <1>9, Zenon DEF IInv

\* SetState rewrites the state of one key's row and nothing else.
LEMMA SetStateLemma ==
  ASSUME IInv, NEW k \in Keys, NEW st \in InFlight \cup Finished,
         s_state' = SetState(k, st), s_state_n' = s_state_n
  PROVE  /\ s_state' \in [Rows -> StateEnt \cup {NoEnt}]
         /\ \A i \in 1 .. s_state_n :
              /\ s_state'[i] \in StateEnt
              /\ s_state'[i].key = s_state[i].key
              /\ s_state'[i] = IF s_state[i].key = k THEN [key |-> k, state |-> st]
                               ELSE s_state[i]
<1>1. s_state \in [Rows -> StateEnt \cup {NoEnt}] /\ 1 .. s_state_n \subseteq Rows
  BY CapAssumption DEF IInv, TypeOK, Rows
<1>2. [key |-> k, state |-> st] \in StateEnt
  BY Zenon DEF StateEnt
<1>3. \A i \in 1 .. s_state_n : s_state[i] \in StateEnt
  BY Zenon DEF IInv, RowsUsed
<1>4. \A i \in Rows : s_state'[i] = IF i <= s_state_n /\ s_state[i].key = k
                                    THEN [key |-> k, state |-> st] ELSE s_state[i]
  BY Zenon DEF SetState
<1>5. s_state' \in [Rows -> StateEnt \cup {NoEnt}]
  BY <1>1, <1>2, Zenon DEF SetState
<1> QED BY <1>1, <1>2, <1>3, <1>4, <1>5

\* The worker takes the head of the ring and marks its row as compiling.
LEMMA PopPreserves ==
  ASSUME IInv, WorkerPop
  PROVE  IInv'
<1> DEFINE k == s_q[s_q_head]
<1>0. /\ WQ_CAP \in Nat /\ WQ_CAP > 0 /\ NoKey \notin Keys
      /\ s_q_head \in Slots /\ s_q_n \in Nat /\ s_q_n > 0 /\ s_q_n <= WQ_CAP
      /\ s_q_tail \in Slots /\ s_q_tail' = s_q_tail
      /\ s_q \in [Slots -> Keys \cup {NoKey}]
      /\ s_q' = [s_q EXCEPT ![s_q_head] = NoKey]
      /\ s_q_head' = (s_q_head + 1) % WQ_CAP
      /\ s_q_n' = s_q_n - 1 /\ item' = k
      /\ s_state_n' = s_state_n /\ s_state' = SetState(k, "COMPILING")
      /\ ~Compiling /\ Compiling'
  BY CapAssumption, KeyAssumption DEF IInv, TypeOK, WorkerPop, Compiling
<1>1. s_q_head' = IF s_q_head + 1 = WQ_CAP THEN 0 ELSE s_q_head + 1
  BY <1>0, WrapLemma, Zenon
<1>2. InWindow(s_q_head) /\ k \in Keys
  BY <1>0 DEF IInv, RingWindow, InWindow, Slots
<1>3. \A s \in Slots : s_q'[s] = IF s = s_q_head THEN NoKey ELSE s_q[s]
  BY <1>0, Zenon
<1> HIDE DEF k
<1>4. RingWindow'
  <2>1. s_q_tail' = IF s_q_head' + s_q_n' < WQ_CAP THEN s_q_head' + s_q_n'
                    ELSE s_q_head' + s_q_n' - WQ_CAP
    BY <1>0, <1>1 DEF IInv, RingWindow, Slots
  <2>2. \A s \in Slots : InWindow(s)' <=> InWindow(s) /\ s # s_q_head
    BY <1>0, <1>1 DEF IInv, RingWindow, InWindow, Slots
  <2> QED BY <1>0, <1>3, <2>1, <2>2, Zenon DEF IInv, RingWindow
<1>5. /\ s_state' \in [Rows -> StateEnt \cup {NoEnt}]
      /\ \A i \in 1 .. s_state_n :
           /\ s_state'[i] \in StateEnt
           /\ s_state'[i].key = s_state[i].key
           /\ s_state'[i] = IF s_state[i].key = k THEN [key |-> k, state |-> "COMPILING"]
                            ELSE s_state[i]
  <2>1. "COMPILING" \in InFlight \cup Finished
    BY Zenon DEF InFlight
  <2> QED BY <1>0, <1>2, <2>1, SetStateLemma, Zenon
<1>6. TypeOK'
  <2>1. s_q_head' \in Slots /\ s_q_n' \in 0 .. WQ_CAP
    BY <1>0, <1>1 DEF Slots
  <2>2. s_q' \in [Slots -> Keys \cup {NoKey}]
    BY <1>0, Zenon
  <2>3. worker' \in WorkerPCs /\ item' \in Keys \cup {NoKey}
    BY <1>0, <1>2, Zenon DEF WorkerPop, WorkerPCs
  <2>4. UNCHANGED <<s_running, s_enq, s_done, s_failed, ok, main, s_q_tail, s_state_n>>
    BY Zenon DEF WorkerPop
  <2> QED BY <1>5, <2>1, <2>2, <2>3, <2>4, Zenon DEF IInv, TypeOK
<1>7. RowsUsed'
  BY <1>0, <1>2, <1>5, Zenon DEF RowsUsed
<1>8. InFlightTracked'
  <2>1. \A i, j \in 1 .. s_state_n : s_state'[i].key = s_state'[j].key => i = j
    BY <1>5, Zenon DEF IInv, InFlightTracked
  <2>2. \A r, s \in Slots : s_q'[r] = s_q'[s] /\ s_q'[r] # NoKey => r = s
    BY <1>3, Zenon DEF IInv, InFlightTracked
  <2>3. \A s \in Slots : s # s_q_head => s_q[s] # k
    BY <1>0, <1>2, Zenon DEF IInv, InFlightTracked, k
  <2>4. \A s \in Slots : s_q'[s] # NoKey =>
          \E i \in 1 .. s_state_n : s_state'[i] = [key |-> s_q'[s], state |-> "QUEUED"]
    <3> SUFFICES ASSUME NEW s \in Slots, s_q'[s] # NoKey
                 PROVE  \E i \in 1 .. s_state_n :
                          s_state'[i] = [key |-> s_q'[s], state |-> "QUEUED"]
      BY Zenon
    <3>1. s # s_q_head /\ s_q'[s] = s_q[s] /\ s_q[s] # k
      BY <1>3, <2>3, Zenon
    <3>2. PICK i \in 1 .. s_state_n : s_state[i] = [key |-> s_q[s], state |-> "QUEUED"]
      BY <3>1, Zenon DEF IInv, InFlightTracked
    <3>3. s_state[i].key # k
      BY <3>1, <3>2
    <3> QED BY <1>5, <3>1, <3>2, <3>3, Zenon
  <2>5. \E i \in 1 .. s_state_n : s_state'[i] = [key |-> k, state |-> "COMPILING"]
    <3>1. PICK i \in 1 .. s_state_n : s_state[i] = [key |-> k, state |-> "QUEUED"]
      BY <1>0, <1>2, Zenon DEF IInv, InFlightTracked, k
    <3>2. s_state[i].key = k
      BY <3>1
    <3> QED BY <1>5, <3>2, Zenon
  <2>6. \A i \in 1 .. s_state_n :
          /\ s_state'[i].state = "QUEUED" => \E s \in Slots : s_q'[s] = s_state'[i].key
          /\ s_state'[i].state = "COMPILING" => k = s_state'[i].key
    <3> SUFFICES ASSUME NEW i \in 1 .. s_state_n
        PROVE /\ s_state'[i].state = "QUEUED" => \E s \in Slots : s_q'[s] = s_state'[i].key
              /\ s_state'[i].state = "COMPILING" => k = s_state'[i].key
      BY Zenon
    <3>1. CASE s_state[i].key = k
      BY <1>5, <3>1
    <3>2. CASE s_state[i].key # k
      <4>1. s_state'[i] = s_state[i] /\ s_state[i].state # "COMPILING"
        BY <1>0, <1>5, <3>2, Zenon DEF IInv, InFlightTracked
      <4>2. s_state[i].state = "QUEUED" => \E s \in Slots : s_q[s] = s_state[i].key
        BY Zenon DEF IInv, InFlightTracked
      <4>3. \A s \in Slots : s_q[s] = s_state[i].key => s_q'[s] = s_state[i].key
        BY <1>3, <3>2, Zenon DEF k
      <4> QED BY <4>1, <4>2, <4>3, Zenon
    <3> QED BY <3>1, <3>2, Zenon
  <2> QED BY <1>0, <2>1, <2>2, <2>4, <2>5, <2>6, Zenon DEF InFlightTracked
<1> QED BY <1>4, <1>6, <1>7, <1>8, Zenon DEF IInv

\* The worker records the outcome of the job it compiled in the job's row.
LEMMA FinishPreserves ==
  ASSUME IInv, WorkerFinish
  PROVE  IInv'
<1> DEFINE st == IF ok THEN "DONE" ELSE "FAILED"
<1>0. /\ item \in Keys /\ st \in Finished /\ st \notin InFlight /\ UNCHANGED ring
      /\ s_state_n' = s_state_n /\ s_state' = SetState(item, st)
      /\ Compiling /\ ~Compiling'
  BY Zenon DEF IInv, RowsUsed, WorkerFinish, Compiling, Finished, InFlight
<1> HIDE DEF st
<1>1. /\ s_state' \in [Rows -> StateEnt \cup {NoEnt}]
      /\ \A i \in 1 .. s_state_n :
           /\ s_state'[i] \in StateEnt
           /\ s_state'[i].key = s_state[i].key
           /\ s_state'[i] = IF s_state[i].key = item THEN [key |-> item, state |-> st]
                            ELSE s_state[i]
  BY <1>0, SetStateLemma, Zenon
<1>2. TypeOK'
  <2>1. s_done' \in Nat /\ s_failed' \in Nat /\ s_enq' \in Nat
    BY DEF IInv, TypeOK, WorkerFinish
  <2>2. item' \in Keys \cup {NoKey} /\ ok' \in BOOLEAN /\ worker' \in WorkerPCs
    BY Zenon DEF WorkerFinish, WorkerPCs
  <2>3. /\ s_running' \in BOOLEAN /\ main' \in {"run", "join"}
        /\ s_state_n' \in 0 .. STATE_CAP
    BY Zenon DEF IInv, TypeOK, WorkerFinish
  <2> QED BY <1>0, <1>1, <2>1, <2>2, <2>3, Zenon DEF IInv, TypeOK, ring
<1>3. RowsUsed' /\ RingWindow'
  BY <1>0, <1>1, Zenon DEF IInv, RowsUsed, RingWindow, InWindow, ring
<1>4. InFlightTracked'
  <2>1. \A s \in Slots : s_q[s] # NoKey => s_q[s] # item
    <3> SUFFICES ASSUME NEW s \in Slots, s_q[s] # NoKey, s_q[s] = item PROVE FALSE
      BY Zenon
    <3>1. PICK i \in 1 .. s_state_n : s_state[i] = [key |-> item, state |-> "QUEUED"]
      BY Zenon DEF IInv, InFlightTracked
    <3>2. PICK j \in 1 .. s_state_n : s_state[j] = [key |-> item, state |-> "COMPILING"]
      BY <1>0, Zenon DEF IInv, InFlightTracked
    <3>3. i = j
      BY <3>1, <3>2 DEF IInv, InFlightTracked
    <3> QED BY <3>1, <3>2, <3>3
  <2>2. \A s \in Slots : s_q[s] # NoKey =>
          \E i \in 1 .. s_state_n : s_state'[i] = [key |-> s_q[s], state |-> "QUEUED"]
    <3> SUFFICES ASSUME NEW s \in Slots, s_q[s] # NoKey
                 PROVE  \E i \in 1 .. s_state_n :
                          s_state'[i] = [key |-> s_q[s], state |-> "QUEUED"]
      BY Zenon
    <3>1. PICK i \in 1 .. s_state_n : s_state[i] = [key |-> s_q[s], state |-> "QUEUED"]
      BY Zenon DEF IInv, InFlightTracked
    <3>2. s_state[i].key # item
      BY <2>1, <3>1
    <3> QED BY <1>1, <3>1, <3>2, Zenon
  <2>3. \A i \in 1 .. s_state_n :
          /\ s_state'[i].state = "QUEUED" => \E s \in Slots : s_q[s] = s_state'[i].key
          /\ s_state'[i].state # "COMPILING"
    <3> SUFFICES ASSUME NEW i \in 1 .. s_state_n
        PROVE /\ s_state'[i].state = "QUEUED" => \E s \in Slots : s_q[s] = s_state'[i].key
              /\ s_state'[i].state # "COMPILING"
      BY Zenon
    <3>1. CASE s_state[i].key = item
      BY <1>0, <1>1, <3>1 DEF InFlight
    <3>2. CASE s_state[i].key # item
      BY <1>1, <3>2 DEF IInv, InFlightTracked
    <3> QED BY <3>1, <3>2, Zenon
  <2>4. \A i, j \in 1 .. s_state_n : s_state'[i].key = s_state'[j].key => i = j
    BY <1>1, Zenon DEF IInv, InFlightTracked
  <2>5. \A r, s \in Slots : s_q[r] = s_q[s] /\ s_q[r] # NoKey => r = s
    BY Zenon DEF IInv, InFlightTracked
  <2> QED BY <1>0, <2>2, <2>3, <2>4, <2>5, Zenon DEF InFlightTracked, ring
<1> QED BY <1>2, <1>3, <1>4, Zenon DEF IInv

\* The worker's exit and the drain in stop(): the ring is already empty.
LEMMA NextPreserves ==
  ASSUME IInv, ExitOnlyInStop, StopLosesNothing, [Next]_vars
  PROVE  IInv' /\ ExitOnlyInStop' /\ StopLosesNothing'
<1>0. ExitOnlyInStop'
  <2>1. CASE \E k \in Keys : Enqueue(k)
    BY <2>1 DEF Enqueue, Wake, thread, ExitOnlyInStop
  <2>2. CASE Start \/ StopSignal \/ StopJoin
    BY <2>2, Zenon DEF Start, StopSignal, StopJoin, Wake, thread, ExitOnlyInStop
  <2>3. CASE Worker \/ SpuriousWake
    BY <2>3, Zenon DEF Worker, WorkerWait, WorkerPop, WorkerCompile, WorkerFinish, WorkerExit,
                SpuriousWake, thread, ExitOnlyInStop, IInv, TypeOK
  <2>4. CASE UNCHANGED vars
    BY <2>4, Zenon DEF vars, thread, ExitOnlyInStop
  <2> QED BY <2>1, <2>2, <2>3, <2>4, Zenon DEF Next, Dispatch
<1>1. CASE \E k \in Keys : Enqueue(k)
  <2>1. StopLosesNothing'
    BY <1>1, Zenon DEF StopLosesNothing, ExitOnlyInStop, Enqueue, Wake, thread
  <2> QED BY <1>1, <1>0, <2>1, EnqueuePreserves, Zenon
<1>2. CASE WorkerPop
  BY <1>0, <1>2, PopPreserves, Zenon DEF StopLosesNothing, WorkerPop
<1>3. CASE WorkerFinish
  BY <1>0, <1>3, FinishPreserves, Zenon DEF StopLosesNothing, WorkerFinish
<1>4. CASE Start \/ StopSignal \/ WorkerWait \/ SpuriousWake \/ WorkerCompile \/ WorkerExit
  <2>1. UNCHANGED <<ring, table, item>> /\ Compiling' = Compiling
    BY <1>4 DEF Start, StopSignal, WorkerWait, SpuriousWake, WorkerCompile, WorkerExit,
                Wake, Compiling, thread
  <2>2. TypeOK'
    BY <1>4, <2>1, Zenon DEF Start, StopSignal, WorkerWait, SpuriousWake, WorkerCompile,
                WorkerExit, Wake, TypeOK, IInv, WorkerPCs, ring, table
  <2>3. StopLosesNothing'
    <3>1. worker' \in {"exited", "none"} => worker' = worker \/ s_q_n = 0
      BY <1>4, Zenon DEF Start, StopSignal, WorkerWait, SpuriousWake, WorkerCompile, WorkerExit, Wake
    <3> QED BY <2>1, <3>1, Zenon DEF StopLosesNothing, ring
  <2> QED BY <1>0, <2>1, <2>2, <2>3, FrameLemma, Zenon DEF IInv
<1>5. CASE StopJoin
  <2>1. s_q_n = 0
    BY <1>5, Zenon DEF StopJoin, StopLosesNothing
  <2>2. \A s \in Slots : s_q[s] = NoKey
    BY <2>1, CapAssumption DEF IInv, TypeOK, RingWindow, InWindow, Slots
  <2>3. s_q_tail = s_q_head
    BY <2>1, CapAssumption DEF IInv, TypeOK, RingWindow, Slots
  <2>4. s_q' = s_q
    BY <1>5, <2>2, Zenon DEF StopJoin, IInv, TypeOK
  <2>5. UNCHANGED <<ring, table, item>> /\ Compiling' = Compiling
    BY <1>5, <2>1, <2>3, <2>4 DEF StopJoin, ring, Compiling
  <2>6. TypeOK' /\ StopLosesNothing'
    BY <1>5, <2>5, Zenon DEF StopJoin, TypeOK, IInv, WorkerPCs, StopLosesNothing, ring, table
  <2> QED BY <1>0, <2>5, <2>6, FrameLemma, Zenon DEF IInv
<1>6. CASE UNCHANGED vars
  <2>1. UNCHANGED <<ring, table, item>> /\ Compiling' = Compiling
    BY <1>6, Zenon DEF vars, ring, table, Compiling
  <2>2. TypeOK' /\ StopLosesNothing'
    BY <1>6, Zenon DEF vars, ring, table, TypeOK, IInv, StopLosesNothing
  <2> QED BY <1>0, <2>1, <2>2, FrameLemma, Zenon DEF IInv
<1> QED BY <1>0, <1>1, <1>2, <1>3, <1>4, <1>5, <1>6, Zenon DEF Next, Dispatch, Worker

\* For every ring size, table size and key set: the ring never loses or
\* overwrites an item, the dedup table agrees with the work in flight, and the
\* worker exits only with an empty ring (overlay_compile_worker.c).
THEOREM WorkerSafe == Spec => [](TypeOK /\ RingWindow /\ InFlightTracked /\ StopLosesNothing)
<1>1. Init => IInv /\ ExitOnlyInStop /\ StopLosesNothing
  BY InitEstablishes, Zenon DEF Init, ExitOnlyInStop, StopLosesNothing, thread
<1>2. IInv /\ ExitOnlyInStop /\ StopLosesNothing /\ [Next]_vars =>
        IInv' /\ ExitOnlyInStop' /\ StopLosesNothing'
  BY NextPreserves, Zenon
<1>3. IInv => TypeOK /\ RingWindow /\ InFlightTracked
  BY Zenon DEF IInv
<1> QED BY <1>1, <1>2, <1>3, PTL DEF Spec

\* The telemetry counters account for every accepted request, for any number
\* of requests: nothing is counted twice and no outcome is dropped.
THEOREM CountersAlwaysBalance == Spec => []CountersBalance
<1> DEFINE Inv == IInv /\ ExitOnlyInStop /\ StopLosesNothing
<1>1. Init => CountersBalance
  BY DEF Init, CountersBalance, Compiling
<1>2. Inv /\ CountersBalance /\ [Next]_vars => CountersBalance'
  <2> SUFFICES ASSUME IInv, StopLosesNothing, CountersBalance, [Next]_vars
               PROVE  CountersBalance'
    BY Zenon
  <2> USE DEF CountersBalance, Compiling
  <2>0. s_enq \in Nat /\ s_done \in Nat /\ s_failed \in Nat /\ s_q_n \in Nat
    BY CapAssumption DEF IInv, TypeOK
  <2>1. CASE \E k \in Keys : Enqueue(k)
    BY <2>0, <2>1 DEF Enqueue, Wake
  <2>2. CASE WorkerPop
    BY <2>0, <2>2 DEF WorkerPop
  <2>3. CASE WorkerFinish
    BY <2>0, <2>3 DEF WorkerFinish, ring
  <2>4. CASE Start \/ StopSignal \/ WorkerWait \/ SpuriousWake \/ WorkerCompile \/ WorkerExit
    BY <2>0, <2>4, Zenon DEF Start, StopSignal, WorkerWait, SpuriousWake, WorkerCompile,
                      WorkerExit, Wake, ring, thread
  <2>5. CASE StopJoin
    BY <2>0, <2>5, Zenon DEF StopJoin, StopLosesNothing
  <2>6. CASE UNCHANGED vars
    BY <2>0, <2>6, Zenon DEF vars, ring
  <2> QED BY <2>1, <2>2, <2>3, <2>4, <2>5, <2>6, Zenon DEF Next, Dispatch, Worker
<1>3. Init => Inv
  BY InitEstablishes, Zenon DEF Init, ExitOnlyInStop, StopLosesNothing, thread
<1>4. Inv /\ [Next]_vars => Inv'
  BY NextPreserves, Zenon
<1> HIDE DEF Inv
<1> QED BY <1>1, <1>2, <1>3, <1>4, PTL DEF Spec

-----------------------------------------------------------------------------
(* The worker implements CompileQueue. *)

\* worker_main holds no item outside its compile section.
ItemHeld == ~Compiling => item = NoKey

\* No step leaves an item behind outside the compile section.
LEMMA ItemHeldStep == ASSUME ItemHeld, [Next]_vars PROVE ItemHeld'
  BY Zenon DEF ItemHeld, Compiling, Next, Dispatch, Worker, Start, Enqueue, StopSignal, StopJoin,
         WorkerWait, WorkerPop, WorkerCompile, WorkerFinish, WorkerExit, SpuriousWake, Wake,
         vars, thread

\* A step that leaves ring, table and item alone is invisible to the queue's users.
LEMMA QueueFrame ==
  ASSUME UNCHANGED <<ring, table, item>>
  PROVE  UNCHANGED Queue!qvars
  BY Zenon DEF ring, table, Queue!qvars, Waiting, RingSlot, Known

\* The initial state of the worker maps to the initial state of the queue.
LEMMA QueueInit == Init => Queue!QInit
<1> SUFFICES ASSUME Init PROVE Queue!QInit
  BY Zenon
<1>1. Waiting = <<>>
  BY DEF Init, Waiting
<1>2. Known = {}
  BY DEF Init, Known
<1> QED BY <1>1, <1>2, Zenon DEF Queue!QInit, Init

\* The slots of the ring, counted from its head.
LEMMA RingSlots ==
  ASSUME IInv
  PROVE  /\ Len(Waiting) = s_q_n /\ Waiting \in Seq(Keys)
         /\ \A i \in 1 .. s_q_n : /\ Waiting[i] = s_q[RingSlot(i)]
                                  /\ RingSlot(i) \in Slots /\ s_q[RingSlot(i)] \in Keys
<1>1. /\ WQ_CAP \in Nat /\ s_q_head \in 0 .. WQ_CAP - 1 /\ s_q_n \in 0 .. WQ_CAP
      /\ s_q \in [Slots -> Keys \cup {NoKey}]
  BY CapAssumption, Zenon DEF IInv, TypeOK, Slots
<1>2. \A i \in 1 .. s_q_n : RingSlot(i) \in Slots /\ InWindow(RingSlot(i))
  BY <1>1 DEF RingSlot, Slots, InWindow
<1>3. \A i \in 1 .. s_q_n : s_q[RingSlot(i)] \in Keys
  BY <1>1, <1>2, Zenon DEF IInv, RingWindow
<1> QED BY <1>1, <1>2, <1>3 DEF Waiting

\* Every key the queue has in flight has a row in the dedup table.
LEMMA InFlightHasRow ==
  ASSUME IInv, ItemHeld, NEW k \in Keys, ~state_find(k)
  PROVE  k \notin Queue!InFlightKeys /\ k \notin Known
<1>1. \A i \in 1 .. s_q_n : Waiting[i] # k
  <2> SUFFICES ASSUME NEW i \in 1 .. s_q_n, Waiting[i] = k PROVE FALSE
    BY Zenon
  <2>1. RingSlot(i) \in Slots /\ s_q[RingSlot(i)] = k /\ k # NoKey
    BY RingSlots, KeyAssumption, Zenon
  <2>2. PICK j \in 1 .. s_state_n : s_state[j] = [key |-> k, state |-> "QUEUED"]
    BY <2>1 DEF IInv, InFlightTracked
  <2> QED BY <2>2 DEF state_find
<1>2. item # k
  <2> SUFFICES ASSUME item = k PROVE FALSE
    BY Zenon
  <2>1. Compiling
    BY KeyAssumption, Zenon DEF ItemHeld
  <2>2. PICK j \in 1 .. s_state_n : s_state[j] = [key |-> item, state |-> "COMPILING"]
    BY <2>1, Zenon DEF IInv, InFlightTracked
  <2> QED BY <2>2 DEF state_find
<1>3. k \notin Known
  BY Zenon DEF Known, state_find
<1> QED BY <1>1, <1>2, <1>3, RingSlots, Zenon DEF Queue!InFlightKeys

\* A row added by state_add is not finished; the row it may evict is.
LEMMA KnownAfterAdd ==
  ASSUME IInv, NEW k \in Keys, ~state_find(k), state_add(k)
  PROVE  Known' = Known \/ \E old \in Known : Known' = Known \ {old}
<1>0. /\ STATE_CAP \in Nat /\ STATE_CAP > 0 /\ s_state_n \in 0 .. STATE_CAP
      /\ s_state \in [Rows -> StateEnt \cup {NoEnt}]
      /\ \A i \in 1 .. s_state_n : s_state[i] \in StateEnt
      /\ \A i, j \in 1 .. s_state_n : s_state[i].key = s_state[j].key => i = j
  BY CapAssumption DEF IInv, TypeOK, RowsUsed, InFlightTracked
<1>1. CASE AddRow(k)
  <2>1. s_state_n' = s_state_n + 1 /\ s_state_n + 1 \in Rows
    BY <1>0, <1>1 DEF AddRow, Rows
  <2>2. \A i \in 1 .. s_state_n : s_state'[i] = s_state[i]
    BY <1>0, <1>1 DEF AddRow, Rows
  <2>3. s_state'[s_state_n + 1].state = "QUEUED"
    BY <1>0, <1>1, <2>1, Zenon DEF AddRow
  <2>4. 1 .. s_state_n' = (1 .. s_state_n) \cup {s_state_n + 1}
    BY <1>0, <2>1
  <2> QED BY <2>2, <2>3, <2>4, Zenon DEF Known, Finished
<1>2. CASE EvictAndAdd(k)
  <2>1. PICK i \in Rows :
          /\ FirstFinished(i)
          /\ s_state' = [s_state EXCEPT ![i] = s_state[STATE_CAP],
                                        ![STATE_CAP] = [key |-> k, state |-> "QUEUED"]]
    BY <1>2, Zenon DEF EvictAndAdd
  <2>2. s_state_n = STATE_CAP /\ s_state_n' = STATE_CAP
    BY <1>2, Zenon DEF EvictAndAdd
  <2>. DEFINE old == s_state[i].key
  <2>3. old \in Known
    BY <1>0, <2>1, <2>2, Zenon DEF FirstFinished, Known, StateEnt
  <2>4. s_state'[STATE_CAP].state = "QUEUED"
    BY <1>0, <2>1 DEF Rows
  <2>5. \A j \in 1 .. STATE_CAP - 1 : s_state'[j] = IF j = i THEN s_state[STATE_CAP] ELSE s_state[j]
    BY <1>0, <2>1 DEF Rows
  <2>6. ASSUME NEW q \in Known' PROVE q \in Known \ {old}
    <3>1. PICK j \in 1 .. STATE_CAP : s_state'[j].key = q /\ s_state'[j].state \in Finished
      BY <2>2, <2>6, Zenon DEF Known
    <3>2. j \in 1 .. STATE_CAP - 1
      BY <1>0, <2>4, <3>1 DEF Finished
    <3>3. CASE j = i
      BY <1>0, <2>1, <2>2, <2>5, <2>6, <3>1, <3>2, <3>3 DEF Known, Rows
    <3>4. CASE j # i
      BY <1>0, <2>1, <2>2, <2>5, <2>6, <3>1, <3>2, <3>4 DEF Known, Rows
    <3> QED BY <3>3, <3>4, Zenon
  <2>7. ASSUME NEW q \in Known, q # old PROVE q \in Known'
    <3>1. PICK j \in 1 .. STATE_CAP : s_state[j].key = q /\ s_state[j].state \in Finished
      BY <2>2, <2>7, Zenon DEF Known
    <3>2. j # i
      BY <2>7, <3>1, Zenon
    <3>3. CASE j = STATE_CAP
      <4>1. i \in 1 .. STATE_CAP - 1
        BY <1>0, <3>2, <3>3 DEF Rows
      <4> QED BY <1>0, <2>2, <2>5, <2>7, <3>1, <3>3, <4>1 DEF Known
    <3>4. CASE j \in 1 .. STATE_CAP - 1
      BY <1>0, <2>2, <2>5, <2>7, <3>1, <3>2, <3>4, Zenon DEF Known
    <3> QED BY <1>0, <3>1, <3>3, <3>4
  <2> QED BY <2>3, <2>6, <2>7, Zenon
<1> QED BY <1>1, <1>2, Zenon DEF state_add

\* overlay_compile_worker_enqueue appends to the queue: the tail index is one past the
\* last waiting slot, across the wrap.
LEMMA EnqueueAccepts ==
  ASSUME IInv, ItemHeld, NEW k \in Keys, Enqueue(k)
  PROVE  Queue!Accept(k)
<1>0. /\ WQ_CAP \in Nat /\ s_q_head \in 0 .. WQ_CAP - 1
      /\ s_q_n \in 0 .. WQ_CAP - 1 /\ s_q_n' = s_q_n + 1 /\ s_q_head' = s_q_head
      /\ s_q \in [Slots -> Keys \cup {NoKey}] /\ s_q_tail \in Slots
      /\ s_q' = [s_q EXCEPT ![s_q_tail] = k] /\ item' = item
  BY CapAssumption DEF IInv, TypeOK, Slots, Enqueue
<1>1. s_q_tail = RingSlot(s_q_n + 1)
  BY <1>0 DEF IInv, RingWindow, RingSlot
<1>2. \A i \in 1 .. s_q_n : RingSlot(i) # s_q_tail /\ RingSlot(i) \in Slots
  BY <1>0, <1>1 DEF RingSlot, Slots
<1>3. \A i : RingSlot(i)' = RingSlot(i)
  BY <1>0, Zenon DEF RingSlot
<1>4. Waiting' = Append(Waiting, k)
  <2>1. Waiting' = [i \in 1 .. s_q_n + 1 |-> s_q'[RingSlot(i)]]
    BY <1>0, <1>3 DEF Waiting
  <2>2. \A i \in 1 .. s_q_n : s_q'[RingSlot(i)] = s_q[RingSlot(i)]
    BY <1>0, <1>2, Zenon
  <2>3. s_q'[RingSlot(s_q_n + 1)] = k
    BY <1>0, <1>1, Zenon
  <2>4. /\ Len(Waiting) = s_q_n /\ Waiting \in Seq(Keys)
        /\ \A i \in 1 .. s_q_n : Waiting[i] = s_q[RingSlot(i)]
    BY RingSlots, Zenon
  <2>5. Waiting' \in Seq(Keys) /\ Len(Waiting') = s_q_n + 1
    <3>1. \A i \in 1 .. s_q_n : s_q[RingSlot(i)] \in Keys
      BY RingSlots, Zenon
    <3>2. \A i \in 1 .. s_q_n + 1 : s_q'[RingSlot(i)] \in Keys
      BY <1>0, <2>2, <2>3, <3>1
    <3> QED BY <1>0, <2>1, <3>2
  <2>6. /\ Append(Waiting, k) \in Seq(Keys) /\ Len(Append(Waiting, k)) = s_q_n + 1
        /\ \A i \in 1 .. s_q_n : Append(Waiting, k)[i] = Waiting[i]
        /\ Append(Waiting, k)[s_q_n + 1] = k
    BY <2>4, AppendProperties
  <2>7. \A i \in 1 .. s_q_n + 1 : Waiting'[i] = Append(Waiting, k)[i]
    BY <1>0, <2>1, <2>2, <2>3, <2>4, <2>6
  <2> QED BY <2>5, <2>6, <2>7, SeqEqual, Zenon
<1>5. Known' = Known \/ \E old \in Known : Known' = Known \ {old}
  BY KnownAfterAdd, Zenon DEF Enqueue
<1>6. k \notin Queue!InFlightKeys /\ k \notin Known
  BY InFlightHasRow, Zenon DEF Enqueue
<1>7. Len(Waiting) < WQ_CAP
  BY <1>0, RingSlots
<1> QED BY <1>0, <1>4, <1>5, <1>6, <1>7, Zenon DEF Queue!Accept

\* worker_main's pop takes the oldest request; marking its row changes no finished row.
LEMMA PopTakes ==
  ASSUME IInv, ItemHeld, WorkerPop
  PROVE  Queue!Take
<1>. DEFINE k == s_q[s_q_head]
<1>0. /\ WQ_CAP \in Nat /\ s_q_head \in 0 .. WQ_CAP - 1 /\ s_q_head \in Slots
      /\ s_q_n \in 1 .. WQ_CAP /\ s_q_n' = s_q_n - 1
      /\ s_q_head' = (s_q_head + 1) % WQ_CAP
      /\ s_q \in [Slots -> Keys \cup {NoKey}]
      /\ s_q' = [s_q EXCEPT ![s_q_head] = NoKey] /\ item' = k
      /\ s_state' = SetState(k, "COMPILING") /\ s_state_n' = s_state_n
  BY CapAssumption DEF IInv, TypeOK, Slots, WorkerPop
<1>1. RingSlot(1) = s_q_head
  BY <1>0 DEF RingSlot
<1>2. \A i \in 1 .. s_q_n - 1 :
        RingSlot(i)' = RingSlot(i + 1) /\ RingSlot(i + 1) # s_q_head /\ RingSlot(i + 1) \in Slots
  <2>1. s_q_head' = IF s_q_head + 1 = WQ_CAP THEN 0 ELSE s_q_head + 1
    BY <1>0, WrapLemma, Zenon
  <2> QED BY <1>0, <2>1 DEF RingSlot, Slots
<1>3. /\ Len(Waiting) = s_q_n /\ Waiting \in Seq(Keys)
      /\ \A i \in 1 .. s_q_n : Waiting[i] = s_q[RingSlot(i)]
  BY RingSlots, Zenon
<1>4. Waiting # <<>> /\ Head(Waiting) = k /\ k \in Keys
  BY <1>0, <1>1, <1>3
<1>5. Waiting' = Tail(Waiting)
  <2>1. Waiting' = [i \in 1 .. s_q_n - 1 |-> s_q[RingSlot(i + 1)]]
    BY <1>0, <1>2, Zenon DEF Waiting
  <2>2. /\ Tail(Waiting) \in Seq(Keys) /\ Len(Tail(Waiting)) = s_q_n - 1
        /\ \A i \in 1 .. s_q_n - 1 : Tail(Waiting)[i] = Waiting[i + 1]
    BY <1>3, <1>4, HeadTailProperties, ZenonT(60)
  <2>3. Waiting' \in Seq(Keys) /\ Len(Waiting') = s_q_n - 1
    <3>1. ASSUME NEW i \in 1 .. s_q_n - 1 PROVE s_q[RingSlot(i + 1)] \in Keys
      <4>1. i + 1 \in 1 .. s_q_n
        BY <1>0
      <4> QED BY <4>1, RingSlots, Zenon
    <3> QED BY <1>0, <2>1, <3>1
  <2>4. \A i \in 1 .. s_q_n - 1 : Waiting'[i] = Tail(Waiting)[i]
    BY <1>0, <1>3, <2>1, <2>2
  <2> QED BY <2>2, <2>3, <2>4, SeqEqual, Zenon
<1>6. item = NoKey
  BY Zenon DEF ItemHeld, Compiling, WorkerPop
<1>7. Known' = Known
  <2>1. PICK j \in 1 .. s_state_n : s_state[j] = [key |-> k, state |-> "QUEUED"]
    BY <1>0, <1>4, KeyAssumption, Zenon DEF IInv, InFlightTracked
  <2>2. \A i \in 1 .. s_state_n : s_state[i].key = k => s_state[i].state \notin Finished
    BY <2>1 DEF IInv, InFlightTracked, Finished
  <2>3. \A i \in 1 .. s_state_n :
          s_state'[i] = IF s_state[i].key = k THEN [key |-> k, state |-> "COMPILING"]
                        ELSE s_state[i]
    BY <1>0, CapAssumption DEF SetState, IInv, TypeOK, Rows
  <2>4. "COMPILING" \notin Finished
    BY Zenon DEF Finished
  <2> QED BY <1>0, <2>2, <2>3, <2>4 DEF Known
<1> QED BY <1>0, <1>4, <1>5, <1>6, <1>7, Zenon DEF Queue!Take

\* The end of worker_main's loop remembers the request, compiled or declined.
LEMMA FinishFinishes ==
  ASSUME IInv, WorkerFinish
  PROVE  Queue!Finish
<1>. DEFINE st == IF ok THEN "DONE" ELSE "FAILED"
<1>0. /\ item \in Keys /\ item # NoKey /\ item' = NoKey /\ UNCHANGED ring
      /\ s_state' = SetState(item, st) /\ s_state_n' = s_state_n /\ st \in Finished
  BY KeyAssumption, Zenon DEF IInv, RowsUsed, Compiling, WorkerFinish, Finished
<1>1. Waiting' = Waiting
  BY <1>0, Zenon DEF Waiting, RingSlot, ring
<1>. HIDE DEF st
<1>2. PICK j \in 1 .. s_state_n : s_state[j] = [key |-> item, state |-> "COMPILING"]
  BY Zenon DEF IInv, InFlightTracked, WorkerFinish, Compiling
<1>3. \A i \in 1 .. s_state_n :
        s_state'[i] = IF s_state[i].key = item THEN [key |-> item, state |-> st] ELSE s_state[i]
  <2>1. \A i \in 1 .. s_state_n : i \in Rows /\ i <= s_state_n
    BY CapAssumption DEF IInv, TypeOK, Rows
  <2> QED BY <1>0, <2>1, Zenon DEF SetState
<1>4. Known' = Known \cup {item}
  <2>1. \A i \in 1 .. s_state_n :
          /\ s_state'[i].key = s_state[i].key
          /\ s_state'[i].state \in Finished <=> s_state[i].key = item \/ s_state[i].state \in Finished
    BY <1>0, <1>3
  <2>2. ASSUME NEW q \in Keys PROVE q \in Known' <=> q \in Known \/ q = item
    BY <1>0, <1>2, <2>1 DEF Known
  <2>3. Known \subseteq Keys /\ Known' \subseteq Keys
    BY Zenon DEF Known
  <2> QED BY <1>0, <2>2, <2>3, Zenon
<1> QED BY <1>0, <1>1, <1>4, Zenon DEF Queue!Finish

\* Every step of the worker maps to a step of the queue or leaves it alone.
LEMMA QueueStep ==
  ASSUME IInv, ItemHeld, StopLosesNothing, [Next]_vars
  PROVE  [Queue!QNext]_(Queue!qvars)
<1>1. CASE \E k \in Keys : Enqueue(k)
  BY <1>1, EnqueueAccepts, Zenon DEF Queue!QNext
<1>2. CASE WorkerPop
  BY <1>2, PopTakes, Zenon DEF Queue!QNext
<1>3. CASE WorkerFinish
  BY <1>3, FinishFinishes, Zenon DEF Queue!QNext
<1>4. CASE Start \/ StopSignal \/ WorkerWait \/ SpuriousWake \/ WorkerCompile \/ WorkerExit
  <2>1. UNCHANGED <<ring, table, item>>
    BY <1>4, Zenon DEF Start, StopSignal, WorkerWait, SpuriousWake, WorkerCompile, WorkerExit
  <2> QED BY <2>1, QueueFrame, Zenon
<1>5. CASE StopJoin
  <2>1. s_q_n = 0 /\ s_q_n' = 0
    BY <1>5, Zenon DEF StopJoin, StopLosesNothing
  <2>2. Waiting' = Waiting
    BY <2>1 DEF Waiting
  <2>3. UNCHANGED <<table, item>>
    BY <1>5, Zenon DEF StopJoin
  <2> QED BY <2>2, <2>3, Zenon DEF Queue!qvars, Known, table
<1>6. CASE UNCHANGED vars
  BY <1>6, QueueFrame, Zenon DEF vars
<1> QED BY <1>1, <1>2, <1>3, <1>4, <1>5, <1>6, Zenon DEF Next, Dispatch, Worker

\* For every ring size, table size and key set the worker (overlay_compile_worker.c) is a
\* first-come-first-served queue that serves one request at a time and accepts none that
\* is in flight or remembered: every step is a step of CompileQueue or invisible to it.
THEOREM WorkerIsQueue == Spec => ImplementsQueue
<1>. DEFINE Inv == IInv /\ ExitOnlyInStop /\ StopLosesNothing /\ ItemHeld
<1>1. Init => Inv
  BY InitEstablishes, Zenon DEF Init, ExitOnlyInStop, StopLosesNothing, thread, ItemHeld
<1>2. Inv /\ [Next]_vars => Inv'
  BY NextPreserves, ItemHeldStep, Zenon
<1>3. Inv /\ [Next]_vars => [Queue!QNext]_(Queue!qvars)
  BY QueueStep, Zenon
<1>. HIDE DEF Inv
<1> QED BY <1>1, <1>2, <1>3, QueueInit, PTL DEF Spec, ImplementsQueue, Queue!QSpec

-----------------------------------------------------------------------------
(* The shard cache *)

\* Nothing is left to enumerate outside a scan, and a file the memo knows was registered,
\* unless the candidate table was already full.
CacheInv ==
  /\ regs \in [ShardKeys -> Nat]
  /\ dpc # "scan" => todo = {}
  /\ CandRoom => \A k \in loaded \cap ShardKeys : regs[k] > 0
  /\ NoShardMissed

\* A shard is registered without entering the memo only when the memo is full, and once if
\* it entered it.
MemoInv ==
  /\ IsFiniteSet(loaded) /\ Cardinality(loaded) <= MAX_LOADED_BLOBS
  /\ \A k \in ShardKeys \ loaded : regs[k] > 0 => Cardinality(loaded) = MAX_LOADED_BLOBS
  /\ \A k \in ShardKeys \cap loaded : regs[k] <= 1

\* The shard cache's invariant holds initially
LEMMA CacheInitInv == ShardInit => CacheInv /\ MemoInv
<1>1. SUFFICES ASSUME ShardInit PROVE CacheInv /\ MemoInv
  BY Zenon
<1>2. /\ dir \in SUBSET ShardKeys /\ loaded = dir \ Bad /\ Cardinality(loaded) <= MAX_LOADED_BLOBS
      /\ regs = [k \in ShardKeys |-> IF k \in loaded THEN 1 ELSE 0] /\ dpc = "run" /\ todo = {}
  BY <1>1, Zenon DEF ShardInit
<1>3. regs \in [ShardKeys -> Nat] /\ \A k \in ShardKeys : regs[k] = IF k \in loaded THEN 1 ELSE 0
  BY <1>2, Zenon
<1>4. IsFiniteSet(loaded)
  BY <1>2, ShardAssumption, FS_Subset, Zenon DEF ShardKeys
<1>5. CacheInv
  BY <1>2, <1>3 DEF CacheInv, NoShardMissed
<1>6. MemoInv
  BY <1>2, <1>3, <1>4 DEF MemoInv
<1> QED BY <1>5, <1>6, Zenon

\* One file of a scan.
LEMMA ScanFileInv ==
  ASSUME CacheInv, MemoInv, NEW k \in ShardKeys, ScanFile(k)
  PROVE  CacheInv' /\ MemoInv'
<1>1. /\ dpc = "scan" /\ dpc' = "scan" /\ k \in todo /\ todo' = todo \ {k}
      /\ dir' = dir /\ flag' = flag /\ pub' = pub
  BY Zenon DEF ScanFile
<1>2. regs \in [ShardKeys -> Nat] /\ Cardinality(loaded) \in Nat /\ MAX_LOADED_BLOBS \in Nat
  BY ShardAssumption, FS_CardinalityType, Zenon DEF CacheInv, MemoInv
<1>3. CASE k \in loaded \/ k \in Bad
  <2>1. regs' = regs /\ loaded' = loaded
    BY <1>3, Zenon DEF ScanFile
  <2>2. CandRoom' <=> CandRoom
    BY <2>1, Zenon DEF CandRoom
  <2>3. CacheInv'
    BY <1>1, <1>2, <1>3, <2>1, <2>2 DEF CacheInv, NoShardMissed
  <2> QED BY <2>1, <2>3, Zenon DEF MemoInv
<1>4. CASE ~(k \in loaded \/ k \in Bad)
  <2>1. /\ regs' = IF CandRoom THEN [regs EXCEPT ![k] = @ + 1] ELSE regs
        /\ loaded' = IF Cardinality(loaded) < MAX_LOADED_BLOBS THEN loaded \cup {k} ELSE loaded
    BY <1>4, Zenon DEF ScanFile, register_sljit_candidate, blob_mark_loaded
  <2>2. CandRoom' => CandRoom
    <3>1. CASE ~CandRoom
      <4>1. regs' = regs
        BY <2>1, <3>1, Zenon
      <4> QED BY <3>1, <4>1, Zenon DEF CandRoom
    <3> QED BY <3>1, Zenon
  <2>3. /\ regs' \in [ShardKeys -> Nat]
        /\ \A j \in ShardKeys \ {k} : regs'[j] = regs[j]
        /\ CandRoom => regs'[k] = regs[k] + 1
        /\ ~CandRoom => regs'[k] = regs[k]
    BY <1>2, <2>1
  <2>4. \A j \in loaded' : j # k => j \in loaded
    BY <2>1, Zenon
  <2>5. CacheInv'
    BY <1>1, <1>2, <2>2, <2>3, <2>4 DEF CacheInv, NoShardMissed
  <2>6. CASE Cardinality(loaded) < MAX_LOADED_BLOBS
    <3>1. loaded' = loaded \cup {k} /\ k \notin loaded
      BY <1>4, <2>1, <2>6, Zenon
    <3>2. IsFiniteSet(loaded') /\ Cardinality(loaded') = Cardinality(loaded) + 1
      BY <3>1, FS_AddElement, Zenon DEF MemoInv
    <3>3. Cardinality(loaded') <= MAX_LOADED_BLOBS
      BY <1>2, <2>6, <3>2
    <3>4. \A j \in ShardKeys \ loaded : regs[j] = 0
      BY <1>2, <2>6 DEF MemoInv
    <3>5. regs'[k] <= 1
      BY <1>4, <2>3, <3>4
    <3>6. \A j \in ShardKeys \ loaded' : regs'[j] = 0
      BY <2>3, <3>1, <3>4, Zenon
    <3>7. \A j \in ShardKeys \cap loaded' : regs'[j] <= 1
      BY <2>3, <3>1, <3>5, Zenon DEF MemoInv
    <3>8. MemoInv'
      BY <3>2, <3>3, <3>6, <3>7 DEF MemoInv
    <3> QED BY <2>5, <3>8, Zenon
  <2>7. CASE ~(Cardinality(loaded) < MAX_LOADED_BLOBS)
    <3>1. loaded' = loaded /\ Cardinality(loaded) = MAX_LOADED_BLOBS
      BY <1>2, <2>1, <2>7 DEF MemoInv
    <3>2. \A j \in ShardKeys \cap loaded' : regs'[j] <= 1
      BY <1>4, <2>3, <3>1, Zenon DEF MemoInv
    <3>3. MemoInv'
      BY <3>1, <3>2, Zenon DEF MemoInv
    <3> QED BY <2>5, <3>3, Zenon
  <2> QED BY <2>6, <2>7, Zenon
<1> QED BY <1>3, <1>4, Zenon

\* and is kept by every step of the cache.
LEMMA CacheStep == CacheInv /\ MemoInv /\ [ShardNext]_cacheVars => CacheInv' /\ MemoInv'
<1>1. SUFFICES ASSUME CacheInv, MemoInv, [ShardNext]_cacheVars PROVE CacheInv' /\ MemoInv'
  BY Zenon
\* Steps that touch neither the memo nor the candidates.
<1>2. ASSUME regs' = regs, loaded' = loaded, dpc' # "scan" => todo' = {},
             \A k \in (dir' \ Bad) \cap ShardKeys :
               k \in dir /\ (flag \/ pub = "renamed" \/ k \in todo) =>
                 flag' \/ pub' = "renamed" \/ k \in todo',
             \A k \in dir' \ dir : pub' = "renamed"
      PROVE  CacheInv' /\ MemoInv'
  <2>1. CandRoom' <=> CandRoom
    BY <1>2, Zenon DEF CandRoom
  <2>2. CacheInv'
    BY <1>1, <1>2, <2>1, Zenon DEF CacheInv, NoShardMissed
  <2> QED BY <1>1, <1>2, <2>2, Zenon DEF MemoInv
<1>3. dpc # "scan" => todo = {}
  BY <1>1, Zenon DEF CacheInv
<1>4. CASE \E k \in ShardKeys : LoadOverlay(k)
  BY <1>2, <1>3, <1>4 DEF LoadOverlay
<1>5. CASE \E p \in Phys : Miss(p)
  BY <1>2, <1>3, <1>5, Zenon DEF Miss
<1>6. CASE \E k \in ShardKeys : ScanFile(k)
  BY <1>1, <1>6, ScanFileInv, Zenon
<1>7. CASE ScanEnd
  BY <1>2, <1>3, <1>7, Zenon DEF ScanEnd
<1>8. CASE MissRest
  BY <1>2, <1>3, <1>8, Zenon DEF MissRest
<1>9. CASE UNCHANGED shardVars
  BY <1>2, <1>3, <1>9, Zenon DEF shardVars
<1>10. CASE PublishRename
  BY <1>2, <1>3, <1>10, Zenon DEF PublishRename
<1>11. CASE PublishFails
  BY <1>2, <1>3, <1>11, Zenon DEF PublishFails
<1>12. CASE PublishFlag
  BY <1>2, <1>3, <1>12, Zenon DEF PublishFlag
<1>13. CASE CompileEnds
  BY <1>2, <1>3, <1>13, Zenon DEF CompileEnds
<1> QED BY <1>1, <1>4, <1>5, <1>6, <1>7, <1>8, <1>9, <1>10, <1>11, <1>12, <1>13, Zenon
         DEF ShardNext, DispatchRest, ShardWorker, StartStop, WorkerRest, cacheVars

\* While the candidate table has room, no readable shard file is overlooked: it is
\* registered, ahead of the scan under way, or announced (async_publish renames before it
\* raises the flag, dispatch_impl lowers the flag before it scans).
THEOREM NoShardEverMissed == ShardSpec => []NoShardMissed
<1>1. CacheInv => NoShardMissed
  BY Zenon DEF CacheInv
<1> QED BY <1>1, CacheInitInv, CacheStep, PTL DEF ShardSpec

\* A shard is registered twice only if it came when the memo of loaded files was full, for
\* every size of the memo and of the candidate table.
THEOREM AlwaysRegisteredOnce == ShardSpec => []RegisteredOnce
<1>1. CacheInv /\ MemoInv => RegisteredOnce
  BY DEF CacheInv, MemoInv, RegisteredOnce
<1> QED BY <1>1, CacheInitInv, CacheStep, PTL DEF ShardSpec
=============================================================================
