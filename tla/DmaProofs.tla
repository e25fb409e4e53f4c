------------------------------ MODULE DmaProofs ------------------------------
(***************************************************************************)
(* The DMA controller, for every set of channels, transfer lengths and     *)
(* word costs: IRQ3 is raised once per level of the master flag, a stopped *)
(* channel has nothing in flight, no transfer ends before the distance the *)
(* scheduler was given, and a started one ends when enough cycles have     *)
(* been charged.  With the decoder behind it (Mdec): no word that DMA      *)
(* feeds makes the decoder overwrite output nobody has read.               *)
(*                                                                         *)
(* An advance handles one channel after the other; the lemmas follow one   *)
(* channel c through it: the others leave c alone (Beside), c's own turn   *)
(* either moves some of its words or finishes it (ChannelCases).           *)
(***************************************************************************)
EXTENDS Mdec, WellFoundedInduction, TLAPS

-----------------------------------------------------------------------------
(* Counting cycles and words *)

\* A set of numbers of words has a least one.
LEMMA LeastCount ==
  ASSUME NEW T \in SUBSET Nat, T # {}
  PROVE  \E x \in T : \A y \in T : x <= y
<1>. DEFINE R == OpToRel(<, Nat)
<1>1. \A x, y \in Nat : x < y => <<x, y>> \in R
  BY DEF OpToRel
<1>2. IsWellFoundedOn(R, Nat)
  BY NatLessThanWellFounded, Zenon
<1>. HIDE DEF R
<1>3. PICK x \in T : \A y \in T : ~ (<<y, x>> \in R)
  BY <1>2, WFMin, Zenon
<1>4. \A y \in T : ~ (y < x)
  BY <1>1, <1>3, Zenon
<1>5. \A y \in T : x <= y
  BY <1>4
<1>. QED
  BY <1>5, Zenon

\* What holds of no cycles, and of one more whenever of some, holds of every number of them.
LEMMA CountInduction ==
  ASSUME NEW S \in SUBSET Nat, 0 \in S, \A n \in S : n + 1 \in S
  PROVE  S = Nat
<1>. SUFFICES ASSUME Nat \ S # {} PROVE FALSE
  BY Zenon
<1>1. PICK m \in Nat \ S : \A y \in Nat \ S : m <= y
  BY LeastCount, Zenon
<1>2. m # 0 /\ m - 1 \in Nat
  BY <1>1
<1>3. m - 1 \in S
  BY <1>1, <1>2
<1>. QED
  BY <1>1, <1>2, <1>3

\* h follows F from a for n steps; f follows it for ever.
Follows(h, a, F, n) == h[0] = a /\ \A k \in 0..(n - 1) : h[k + 1] = F[h[k]]
Iterates(f, a, F) == f[0] = a /\ \A n \in Nat : f[n + 1] = F[f[n]]

\* A controller, or a decoder, that one step keeps in a set can be stepped for ever.
LEMMA IterationExists ==
  ASSUME NEW V, NEW a \in V, NEW F \in [V -> V]
  PROVE  \E f \in [Nat -> V] : Iterates(f, a, F)
<1>. DEFINE H == [Nat -> V]
            N == {n \in Nat : \E h \in H : Follows(h, a, F, n)}
<1>1. 0 \in N
  <2>. DEFINE h == [k \in Nat |-> a]
  <2>1. h \in H /\ Follows(h, a, F, 0)
    BY DEF Follows
  <2>. QED
    BY <2>1
<1>2. ASSUME NEW n \in N PROVE n + 1 \in N
  <2>1. PICK h \in H : Follows(h, a, F, n)
    BY <1>2
  <2>2. n \in Nat /\ n + 1 \in Nat /\ h[n] \in V /\ F[h[n]] \in V
    BY <1>2
  <2>. DEFINE g == [h EXCEPT ![n + 1] = F[h[n]]]
  <2>3. g \in H /\ g[n + 1] = F[h[n]] /\ \A k \in 0..n : g[k] = h[k]
    BY <2>2
  <2>. HIDE DEF g
  <2>4. g[0] = a
    BY <2>1, <2>2, <2>3 DEF Follows
  <2>5. ASSUME NEW k \in 0..((n + 1) - 1) PROVE g[k + 1] = F[g[k]]
    <3>1. CASE k = n
      BY <2>2, <2>3, <3>1
    <3>2. CASE k # n
      <4>1. k \in 0..(n - 1) /\ k \in 0..n /\ k + 1 \in 0..n
        BY <2>2, <3>2
      <4>. QED
        BY <2>1, <2>3, <4>1, Zenon DEF Follows
    <3>. QED
      BY <3>1, <3>2, Zenon
  <2>6. Follows(g, a, F, n + 1)
    BY <2>4, <2>5, Zenon DEF Follows
  <2>. QED
    BY <2>2, <2>3, <2>6, Zenon
<1>3. N = Nat
  <2>1. N \in SUBSET Nat
    OBVIOUS
  <2>. HIDE DEF N
  <2>. QED
    BY <1>1, <1>2, <2>1, CountInduction
<1>. DEFINE G(n) == CHOOSE h \in H : Follows(h, a, F, n)
<1>4. \A n \in Nat : G(n) \in H /\ Follows(G(n), a, F, n)
  BY <1>3, Zenon
<1>. HIDE DEF G, N
<1>5. ASSUME NEW n \in Nat, NEW i \in 0..n PROVE G(n)[i] = G(n + 1)[i]
  <2>. DEFINE g == G(n)
              h == G(n + 1)
              S == {k \in Nat : k <= n => g[k] = h[k]}
  <2>1. n + 1 \in Nat
    OBVIOUS
  <2>2. Follows(g, a, F, n) /\ Follows(h, a, F, n + 1)
    BY <1>4, <2>1, Zenon
  <2>. HIDE DEF g, h
  <2>3. 0 \in S
    BY <2>2 DEF Follows
  <2>4. ASSUME NEW k \in S PROVE k + 1 \in S
    <3>1. k \in Nat /\ k + 1 \in Nat /\ (k <= n => g[k] = h[k])
      BY <2>4
    <3>. SUFFICES ASSUME k + 1 <= n PROVE g[k + 1] = h[k + 1]
      BY <3>1
    <3>2. k <= n /\ k \in 0..(n - 1) /\ k \in 0..((n + 1) - 1)
      BY <3>1
    <3>. QED
      BY <2>2, <3>1, <3>2, Zenon DEF Follows
  <2>5. S = Nat
    <3>1. S \in SUBSET Nat
      OBVIOUS
    <3>. HIDE DEF S
    <3>. QED
      BY <2>3, <2>4, <3>1, CountInduction
  <2>6. i \in Nat /\ i <= n
    OBVIOUS
  <2>7. g[i] = h[i]
    BY <2>5, <2>6, Zenon
  <2>. QED
    BY <2>7, Zenon DEF g, h
<1>. DEFINE f == [n \in Nat |-> G(n)[n]]
<1>6. f \in H
  BY <1>4
<1>7. ASSUME NEW n \in Nat PROVE f[n + 1] = F[f[n]]
  <2>1. n + 1 \in Nat /\ n \in 0..n /\ n \in 0..((n + 1) - 1)
    OBVIOUS
  <2>2. f[n + 1] = G(n + 1)[n + 1] /\ f[n] = G(n)[n]
    BY <2>1, Zenon
  <2>3. G(n + 1)[n + 1] = F[G(n + 1)[n]]
    BY <1>4, <2>1, Zenon DEF Follows
  <2>4. G(n)[n] = G(n + 1)[n]
    BY <1>5, <2>1, Zenon
  <2>. HIDE DEF f
  <2>. QED
    BY <2>2, <2>3, <2>4, Zenon
<1>8. f[0] = a
  <2>1. 0 \in Nat
    OBVIOUS
  <2>. QED
    BY <1>4, <2>1, Zenon DEF Follows
<1>. HIDE DEF f
<1>. QED
  BY <1>6, <1>7, <1>8, Zenon DEF Iterates

\* Quotient and remainder of a cycle budget by the cost of a word.
LEMMA Quotient ==
  ASSUME NEW n \in Nat, NEW d \in Nat \ {0}
  PROVE  /\ n \div d \in Nat /\ n % d \in 0..(d - 1)
         /\ n = (n \div d) * d + (n % d)
<1>1. n \div d \in Nat /\ n = d * (n \div d) + (n % d)
  BY SMT
<1>2. n % d \in 0..(d - 1)
  BY SMT
<1>3. d * (n \div d) = (n \div d) * d
  BY <1>1, SMT
<1>. QED
  BY <1>1, <1>2, <1>3

-----------------------------------------------------------------------------
\* One controller: well formed, and one IRQ per level of its master flag.
Good(d) ==
  /\ d \in DmaController
  /\ d.raised = IF dicr_master_flag(d) THEN 1 ELSE 0

\* A budget of a \div b words pays for the words it moves.
LEMMA BudgetPays ==
  ASSUME NEW a \in Nat, NEW b \in Nat \ {0}, NEW m \in Nat, m <= a \div b
  PROVE  m * b <= a
<1>. DEFINE q == a \div b
<1>1. q \in Nat /\ q * b <= a
  BY SMT
<1>. HIDE DEF q
<1>2. m <= q
  BY Zenon DEF q
<1>3. PICK r \in Nat : q = m + r
  <2>1. q - m \in Nat /\ q = m + (q - m)
    BY <1>1, <1>2
  <2>. QED BY <2>1, Zenon
<1>4. q * b = m * b + r * b /\ r * b >= 0
  BY <1>1, <1>3, SMT
<1>5. m * b \in Nat /\ q * b \in Nat /\ r * b \in Nat
  BY <1>1, SMT
<1>. QED
  BY <1>1, <1>4, <1>5

\* A controller stays one when one of its fields gets a value of the field's type.
LEMMA Fields ==
  \A d \in DmaController :
    /\ \A v \in ChannelSets : [d EXCEPT !.busy = v] \in DmaController
    /\ \A v \in ReverseSets : [d EXCEPT !.reverse = v] \in DmaController
    /\ \A v \in ChannelSets : [d EXCEPT !.enabled = v] \in DmaController
    /\ \A v \in BOOLEAN : [d EXCEPT !.bus_error = v] \in DmaController
    /\ \A v \in BOOLEAN : [d EXCEPT !.master_en = v] \in DmaController
    /\ \A v \in ChannelSets : [d EXCEPT !.irq_en = v] \in DmaController
    /\ \A v \in ChannelSets : [d EXCEPT !.flags = v] \in DmaController
    /\ \A v \in ChannelSets : [d EXCEPT !.active = v] \in DmaController
    /\ \A v \in Counts : [d EXCEPT !.left = v] \in DmaController
    /\ \A v \in Budgets : [d EXCEPT !.accum = v] \in DmaController
    /\ \A v \in BOOLEAN : [d EXCEPT !.i_stat = v] \in DmaController
    /\ \A v \in Nat : [d EXCEPT !.raised = v] \in DmaController
BY DEF DmaController

\* Adding or removing a channel keeps a set of channels one.
LEMMA SetFacts ==
  ASSUME NEW S \in ChannelSets, NEW c \in Channels
  PROVE  S \cup {c} \in ChannelSets /\ S \ {c} \in ChannelSets
BY Zenon DEF ChannelSets

\* Setting one channel's entry keeps the per-channel tables well formed.
LEMMA TableFacts ==
  ASSUME NEW c \in Channels
  PROVE  /\ \A f \in Counts, n \in Nat : [f EXCEPT ![c] = n] \in Counts
         /\ \A f \in Budgets, n \in 0..MaxAccum : [f EXCEPT ![c] = n] \in Budgets
BY Zenon DEF Counts, Budgets

\* What a controller's master flag and IRQ count depend on.
LEMMA SameLevel ==
  ASSUME NEW d, Good(d), NEW e \in DmaController,
         e.raised = d.raised, e.flags = d.flags, e.bus_error = d.bus_error,
         e.master_en = d.master_en
  PROVE  Good(e)
BY Zenon DEF Good, dicr_master_flag

\* raise_dma_irq_on_master_edge keeps one IRQ per level, whatever changed the level.
LEMMA EdgeGood ==
  ASSUME NEW d, Good(d), NEW e \in DmaController, e.raised = d.raised
  PROVE  LET r == raise_dma_irq_on_master_edge(d, e) IN
         Good(r) /\ r.active = e.active /\ r.busy = e.busy
<1>. DEFINE edge == ~dicr_master_flag(d) /\ dicr_master_flag(e)
            n == IF ~dicr_master_flag(e) THEN 0 ELSE IF edge THEN e.raised + 1 ELSE e.raised
            r1 == [e EXCEPT !.i_stat = e.i_stat \/ edge]
            r == [r1 EXCEPT !.raised = n]
<1>1. (e.i_stat \/ edge) \in BOOLEAN /\ e.raised \in Nat
  BY Zenon DEF DmaController
<1>2. n \in Nat /\ n = IF dicr_master_flag(e) THEN 1 ELSE 0
  BY <1>1 DEF Good
<1>. HIDE DEF n
<1>3. r1 \in DmaController
  BY <1>1, Fields, Zenon
<1>4. r1.flags = e.flags /\ r1.bus_error = e.bus_error /\ r1.master_en = e.master_en
      /\ r1.active = e.active /\ r1.busy = e.busy
  BY Zenon DEF DmaController
<1>5. raise_dma_irq_on_master_edge(d, e) = r
  BY Zenon DEF raise_dma_irq_on_master_edge, n, DmaController
<1>. HIDE DEF r1
<1>6. r \in DmaController
  BY <1>2, <1>3, Fields, Zenon
<1>7. r.raised = n /\ r.flags = e.flags /\ r.bus_error = e.bus_error
      /\ r.master_en = e.master_en /\ r.active = e.active /\ r.busy = e.busy
  BY <1>3, <1>4, Zenon DEF DmaController
<1>. HIDE DEF r
<1>8. Good(r)
  BY <1>2, <1>6, <1>7, Zenon DEF Good, dicr_master_flag
<1>. QED
  BY <1>5, <1>7, <1>8, Zenon

\* A completion retires its channel's start bit and raises at most the one IRQ.
LEMMA CompleteGood ==
  ASSUME NEW d, Good(d), NEW c \in Channels
  PROVE  LET r == complete_transfer(d, c) IN
         Good(r) /\ r.active = d.active /\ r.busy = d.busy \ {c}
<1>. DEFINE idle == [d EXCEPT !.busy = d.busy \ {c}]
            e == [idle EXCEPT !.flags = idle.flags \cup {c}]
<1>0. d \in DmaController /\ d.busy \in ChannelSets /\ d.flags \in ChannelSets
  BY Zenon DEF Good, DmaController
<1>1. idle \in DmaController
  BY <1>0, SetFacts, Fields, Zenon
<1>2. /\ idle.busy = d.busy \ {c} /\ idle.flags = d.flags /\ idle.active = d.active
      /\ idle.raised = d.raised /\ idle.bus_error = d.bus_error
      /\ idle.master_en = d.master_en
  BY <1>0, Zenon DEF DmaController
<1>. HIDE DEF idle
<1>3. e \in DmaController
  BY <1>0, <1>1, <1>2, SetFacts, Fields, Zenon
<1>4. e.raised = d.raised /\ e.active = d.active /\ e.busy = d.busy \ {c}
  BY <1>1, <1>2, Zenon DEF DmaController
<1>. HIDE DEF e
<1>5. CASE channel_irq_flag_armed(d, c)
  <2>1. complete_transfer(d, c) = raise_dma_irq_on_master_edge(d, e)
    BY <1>5, Zenon DEF complete_transfer, idle, e
  <2>. QED
    BY <2>1, <1>3, <1>4, EdgeGood
<1>6. CASE ~channel_irq_flag_armed(d, c)
  <2>1. complete_transfer(d, c) = idle
    BY <1>6, Zenon DEF complete_transfer, idle
  <2>2. Good(idle)
    BY <1>1, <1>2, SameLevel, Zenon
  <2>. QED
    BY <2>1, <2>2, <1>2, Zenon
<1>. QED
  BY <1>5, <1>6, Zenon

\* The updates the functions of dma.c make to a channel's transfer record.
Armed(d, c, A, n, k) == [d EXCEPT !.active = A, !.left[c] = n, !.accum[c] = k]
Scheduled(d, c, A, n) == [d EXCEPT !.active = A, !.left[c] = n]
Counted(d, c, n) == [d EXCEPT !.left[c] = n]

\* They leave the interrupt level and the start bits alone.
Keeps(d, e, A) == Good(e) /\ e.active = A /\ e.busy = d.busy

\* Each form of record update the transfer code makes keeps the controller good.
LEMMA TransferGood ==
  ASSUME NEW d, Good(d), NEW c \in Channels
  PROVE  /\ \A A \in ChannelSets, n \in Nat, k \in 0..MaxAccum :
              Keeps(d, Armed(d, c, A, n, k), A)
         /\ \A A \in ChannelSets, n \in Nat : Keeps(d, Scheduled(d, c, A, n), A)
         /\ \A n \in Nat, k \in 0..MaxAccum : Keeps(d, Moved(d, c, n, k), d.active)
         /\ \A n \in Nat : Keeps(d, Counted(d, c, n), d.active)
<1>. DEFINE P1(A, n, k) == Keeps(d, Armed(d, c, A, n, k), A)
            P2(A, n) == Keeps(d, Scheduled(d, c, A, n), A)
            P3(n, k) == Keeps(d, Moved(d, c, n, k), d.active)
            P4(n) == Keeps(d, Counted(d, c, n), d.active)
<1>1. ASSUME NEW A \in ChannelSets, NEW n \in Nat, NEW k \in 0..MaxAccum
      PROVE  P1(A, n, k) /\ P2(A, n) /\ P3(n, k) /\ P4(n)
  <2>. DEFINE L == [d.left EXCEPT ![c] = n]
              K == [d.accum EXCEPT ![c] = k]
  <2>0. d \in DmaController /\ L \in Counts /\ K \in Budgets
    <3>1. d \in DmaController /\ d.left \in Counts /\ d.accum \in Budgets
      BY Zenon DEF Good, DmaController
    <3>. QED
      BY <3>1, TableFacts, Zenon
  <2>. HIDE DEF L, K
  <2>1. ASSUME NEW e, Good(e), e.left = d.left, e.accum = d.accum
        PROVE  LET f == [e EXCEPT !.left = L] IN
               Good(f) /\ f.active = e.active /\ f.busy = e.busy /\ f.accum = d.accum
    <3>. DEFINE f == [e EXCEPT !.left = L]
    <3>1. e \in DmaController
      BY <2>1, Zenon DEF Good
    <3>2. f \in DmaController
      BY <2>0, <3>1, Fields, Zenon
    <3>3. /\ f.raised = e.raised /\ f.flags = e.flags /\ f.bus_error = e.bus_error
          /\ f.master_en = e.master_en /\ f.active = e.active /\ f.busy = e.busy
          /\ f.accum = e.accum
      BY <3>1, Zenon DEF DmaController
    <3>. HIDE DEF f
    <3>. QED
      BY <2>1, <3>2, <3>3, SameLevel, Zenon DEF f
  <2>2. ASSUME NEW e, Good(e), e.accum = d.accum
        PROVE  LET f == [e EXCEPT !.accum = K] IN
               Good(f) /\ f.active = e.active /\ f.busy = e.busy
    <3>. DEFINE f == [e EXCEPT !.accum = K]
    <3>1. e \in DmaController
      BY <2>2, Zenon DEF Good
    <3>2. f \in DmaController
      BY <2>0, <3>1, Fields, Zenon
    <3>3. /\ f.raised = e.raised /\ f.flags = e.flags /\ f.bus_error = e.bus_error
          /\ f.master_en = e.master_en /\ f.active = e.active /\ f.busy = e.busy
      BY <3>1, Zenon DEF DmaController
    <3>. HIDE DEF f
    <3>. QED
      BY <2>2, <3>2, <3>3, SameLevel, Zenon DEF f
  <2>. DEFINE a == [d EXCEPT !.active = A]
              al == [a EXCEPT !.left = L]
              dl == [d EXCEPT !.left = L]
  <2>3. Good(a) /\ a.active = A /\ a.busy = d.busy /\ a.left = d.left /\ a.accum = d.accum
    <3>1. a \in DmaController
      BY <2>0, Fields, Zenon
    <3>2. /\ a.raised = d.raised /\ a.flags = d.flags /\ a.bus_error = d.bus_error
          /\ a.master_en = d.master_en /\ a.active = A /\ a.busy = d.busy
          /\ a.left = d.left /\ a.accum = d.accum
      BY <2>0, Zenon DEF DmaController
    <3>. HIDE DEF a
    <3>. QED
      BY <3>1, <3>2, SameLevel, Zenon
  <2>4. /\ [d EXCEPT !.active = A, !.left[c] = n, !.accum[c] = k] = [al EXCEPT !.accum = K]
        /\ [d EXCEPT !.active = A, !.left[c] = n] = al
        /\ [d EXCEPT !.left[c] = n, !.accum[c] = k] = [dl EXCEPT !.accum = K]
        /\ [d EXCEPT !.left[c] = n] = dl
    BY <2>0, Zenon DEF L, K, DmaController
  <2>. HIDE DEF a
  <2>5. Good(al) /\ al.active = A /\ al.busy = d.busy /\ al.accum = d.accum
    BY <2>1, <2>3, Zenon
  <2>6. Good(dl) /\ dl.active = d.active /\ dl.busy = d.busy /\ dl.accum = d.accum
    BY <2>1, Zenon
  <2>. HIDE DEF al, dl
  <2>7. LET f == [al EXCEPT !.accum = K] IN Good(f) /\ f.active = A /\ f.busy = d.busy
    BY <2>2, <2>5, Zenon
  <2>8. LET f == [dl EXCEPT !.accum = K] IN Good(f) /\ f.active = d.active /\ f.busy = d.busy
    BY <2>2, <2>6, Zenon
  <2>. QED
    BY <2>4, <2>5, <2>6, <2>7, <2>8, Zenon
       DEF Keeps, Armed, Scheduled, Moved, Counted
<1>2. MaxAccum \in Nat /\ d.active \in ChannelSets
  BY DmaAssumption, Zenon DEF Good, DmaController
<1>3. 0 \in 0..MaxAccum
  BY <1>2
<1>. HIDE DEF P1, P2, P3, P4
<1>4. /\ \A A \in ChannelSets, n \in Nat, k \in 0..MaxAccum : P1(A, n, k)
      /\ \A A \in ChannelSets, n \in Nat : P2(A, n)
      /\ \A n \in Nat, k \in 0..MaxAccum : P3(n, k)
      /\ \A n \in Nat : P4(n)
  BY <1>1, <1>2, <1>3, Zenon
<1>. QED
  BY <1>4, Zenon DEF P1, P2, P3, P4

\* The four updates, one at a time.
LEMMA ArmedGood ==
  ASSUME NEW d, Good(d), NEW c \in Channels, NEW A \in ChannelSets, NEW n \in Nat,
         NEW k \in 0..MaxAccum
  PROVE  Keeps(d, Armed(d, c, A, n, k), A)
<1>1. \A B \in ChannelSets, m \in Nat, j \in 0..MaxAccum : Keeps(d, Armed(d, c, B, m, j), B)
  BY TransferGood, Zenon
<1>. QED
  BY <1>1, Zenon

\* The update of schedule_delayed_complete, instantiated.
LEMMA ScheduledGood ==
  ASSUME NEW d, Good(d), NEW c \in Channels, NEW A \in ChannelSets, NEW n \in Nat
  PROVE  Keeps(d, Scheduled(d, c, A, n), A)
<1>1. \A B \in ChannelSets, m \in Nat : Keeps(d, Scheduled(d, c, B, m), B)
  BY TransferGood, Zenon
<1>. QED
  BY <1>1, Zenon

\* The update of a paced channel that moved words, instantiated.
LEMMA MovedGood ==
  ASSUME NEW d, Good(d), NEW c \in Channels, NEW n \in Nat, NEW k \in 0..MaxAccum
  PROVE  Keeps(d, Moved(d, c, n, k), d.active)
<1>1. \A m \in Nat, j \in 0..MaxAccum : Keeps(d, Moved(d, c, m, j), d.active)
  BY TransferGood, Zenon
<1>. QED
  BY <1>1, Zenon

\* The update of a delay that counts down, instantiated.
LEMMA CountedGood ==
  ASSUME NEW d, Good(d), NEW c \in Channels, NEW n \in Nat
  PROVE  Keeps(d, Counted(d, c, n), d.active)
<1>1. \A m \in Nat : Keeps(d, Counted(d, c, m), d.active)
  BY TransferGood, Zenon
<1>. QED
  BY <1>1, Zenon

\* No transfer is in flight on a channel whose start bit is clear, and none ever on a
\* channel that completes at once.
Idle(d) == d.active \subseteq d.busy /\ d.active \cap Immediate = {}

\* The guests for which that holds: no channel is started against its device's direction,
\* and no GPU or SPU transfer is empty.
Ordinary == Reversible = {} /\ \A c \in Delayed : 0 \notin Lengths[c]

\* The three classes of channels do not overlap.
LEMMA Classes ==
  /\ \A c \in Paced \cup Delayed : c \notin Immediate /\ c \in Channels
  /\ \A c \in Paced : c \notin Delayed
  /\ \A c \in Channels : c \in Paced \/ c \in Delayed \/ c \in Immediate
BY DmaAssumption DEF Channels, CDROM

\* The sets and tables of a controller have their types.
LEMMA Parts ==
  ASSUME NEW d, Good(d)
  PROVE  /\ d.active \in ChannelSets /\ d.busy \in ChannelSets /\ d.enabled \in ChannelSets
         /\ d.reverse \in ReverseSets /\ d.left \in Counts /\ d.accum \in Budgets
BY Zenon DEF Good, DmaController

\* Finishing a paced transfer retires both its record and its start bit.
LEMMA FinishGood ==
  ASSUME NEW d, Good(d), NEW c \in Channels
  PROVE  LET r == Finish(d, c)
             q == cancel_async_transfer(d, c) IN
         /\ Good(q) /\ q.active = d.active \ {c} /\ q.busy = d.busy
         /\ Good(r) /\ r.active = d.active \ {c} /\ r.busy = d.busy \ {c}
<1>. DEFINE q == cancel_async_transfer(d, c)
<1>1. MaxAccum \in Nat
  BY DmaAssumption, Zenon
<1>2. /\ 0 \in 0..MaxAccum /\ 0 \in Nat
      /\ d.active \ {c} \in ChannelSets
  <2>1. 0 \in 0..MaxAccum /\ 0 \in Nat
    BY <1>1
  <2>. QED
    BY <2>1, Parts, SetFacts, Zenon
<1>3. Good(q) /\ q.active = d.active \ {c} /\ q.busy = d.busy
  <2>1. q = Armed(d, c, d.active \ {c}, 0, 0)
    BY Zenon DEF cancel_async_transfer, Armed
  <2>. HIDE DEF q
  <2>2. Keeps(d, Armed(d, c, d.active \ {c}, 0, 0), d.active \ {c})
    BY <1>2, ArmedGood, Zenon
  <2>. QED
    BY <2>1, <2>2, Zenon DEF Keeps
<1>. HIDE DEF q
<1>4. Finish(d, c) = complete_transfer(q, c)
  BY Zenon DEF Finish, q
<1>. QED
  BY <1>3, <1>4, CompleteGood DEF q

\* A delayed transfer is recorded, or completes at once when it is empty.
LEMMA ScheduleGood ==
  ASSUME NEW d, Good(d), NEW c \in Channels, NEW words \in Nat
  PROVE  LET r == schedule_delayed_complete(d, c, words) IN
         /\ Good(r)
         /\ words # 0 => r.active = d.active \cup {c} /\ r.busy = d.busy
<1>1. CASE words = 0
  BY <1>1, CompleteGood, Zenon DEF schedule_delayed_complete
<1>2. CASE words # 0
  <2>1. CyclesPerWord[c] \in Nat
    BY DmaAssumption, Zenon
  <2>2. words * CyclesPerWord[c] \in Nat
    BY <2>1
  <2>3. d.active \cup {c} \in ChannelSets
    BY Parts, SetFacts, Zenon
  <2>4. schedule_delayed_complete(d, c, words)
          = Scheduled(d, c, d.active \cup {c}, words * CyclesPerWord[c])
    BY <1>2, Zenon DEF schedule_delayed_complete, Scheduled
  <2>5. Keeps(d, Scheduled(d, c, d.active \cup {c}, words * CyclesPerWord[c]),
              d.active \cup {c})
    BY <2>2, <2>3, ScheduledGood, Zenon
  <2>. QED
    BY <2>4, <2>5, Zenon DEF Keeps
<1>. QED
  BY <1>1, <1>2, Zenon

\* A paced transfer starts, goes on, or completes at once when it is empty.
LEMMA StartPacedGood ==
  ASSUME NEW d, Good(d), NEW c \in Channels, NEW words \in Nat
  PROVE  LET r == StartPaced(d, c, words) IN
         /\ Good(r)
         /\ \/ r.active = d.active /\ r.busy = d.busy
            \/ r.active = d.active \cup {c} /\ r.busy = d.busy
            \/ r.active = (d.active \cup {c}) \ {c} /\ r.busy = d.busy \ {c}
<1>. DEFINE s == Armed(d, c, d.active \cup {c}, words, 0)
<1>1. MaxAccum \in Nat
  BY DmaAssumption, Zenon
<1>2. /\ 0 \in 0..MaxAccum /\ 0 \in Nat
      /\ d.active \cup {c} \in ChannelSets
  <2>1. 0 \in 0..MaxAccum /\ 0 \in Nat
    BY <1>1
  <2>. QED
    BY <2>1, Parts, SetFacts, Zenon
<1>3. Good(s) /\ s.active = d.active \cup {c} /\ s.busy = d.busy
  <2>1. Keeps(d, s, d.active \cup {c})
    BY <1>2, ArmedGood, Zenon
  <2>. QED
    BY <2>1, Zenon DEF Keeps
<1>4. StartPaced(d, c, words) = IF c \in d.active THEN d
                                ELSE IF words = 0 /\ c = CDROM THEN Finish(s, c) ELSE s
  BY Zenon DEF StartPaced, Armed
<1>. HIDE DEF s
<1>5. LET r == Finish(s, c) IN
      Good(r) /\ r.active = (d.active \cup {c}) \ {c} /\ r.busy = d.busy \ {c}
  BY <1>3, FinishGood
<1>. QED
  BY <1>3, <1>4, <1>5, Zenon

\* A start runs the transfer, or completes it.
LEMMA TryGood ==
  ASSUME NEW d, Good(d), NEW c \in Channels, NEW words \in Nat
  PROVE  LET r == try_execute(d, c, words) IN
         /\ Good(r)
         /\ Idle(d) /\ Reversible = {} /\ (c \in Delayed => words # 0) => Idle(r)
<1>. DEFINE r == try_execute(d, c, words)
            Ok == Idle(d) /\ Reversible = {} /\ (c \in Delayed => words # 0) => Idle(r)
<1>1. CASE c \notin d.busy \cap d.enabled
  BY <1>1, Zenon DEF try_execute
<1>2. CASE c \in d.busy \cap d.enabled /\ c = CDROM /\ c \in d.reverse
  <2>. DEFINE e == [d EXCEPT !.busy = d.busy \ {c}]
  <2>1. r = e
    BY <1>2, Zenon DEF try_execute
  <2>2. d \in DmaController /\ d.busy \in ChannelSets
    BY Zenon DEF Good, DmaController
  <2>3. e \in DmaController
    BY <2>2, SetFacts, Fields, Zenon
  <2>4. /\ e.raised = d.raised /\ e.flags = d.flags /\ e.bus_error = d.bus_error
        /\ e.master_en = d.master_en
    BY <2>2, Zenon DEF DmaController
  <2>5. Reversible # {}
    BY <1>2, Parts, Zenon DEF ReverseSets
  <2>. HIDE DEF e
  <2>6. Good(e)
    BY <2>3, <2>4, SameLevel, Zenon
  <2>. QED
    BY <2>1, <2>5, <2>6, Zenon
<1>3. CASE c \in d.busy \cap d.enabled /\ ~(c = CDROM /\ c \in d.reverse) /\ c \in Paced
  <2>1. r = StartPaced(d, c, words)
    BY <1>3, Zenon DEF try_execute
  <2>. HIDE DEF r
  <2>2. Good(r) /\ \/ r.active = d.active /\ r.busy = d.busy
                   \/ r.active = d.active \cup {c} /\ r.busy = d.busy
                   \/ r.active = (d.active \cup {c}) \ {c} /\ r.busy = d.busy \ {c}
    BY <2>1, StartPacedGood, ZenonT(60)
  <2>3. Idle(d) => Idle(r)
    BY <1>3, <2>2, Classes, Zenon DEF Idle
  <2>. QED
    BY <2>2, <2>3, Zenon DEF r
<1>4. CASE c \in d.busy \cap d.enabled /\ c \in Delayed
  <2>1. c \notin Paced /\ c # CDROM /\ c \notin Immediate
    BY <1>4, Classes, DmaAssumption DEF CDROM
  <2>2. r = schedule_delayed_complete(d, c, words)
    BY <1>4, <2>1, Zenon DEF try_execute
  <2>. HIDE DEF r
  <2>3. Good(r) /\ (words # 0 => r.active = d.active \cup {c} /\ r.busy = d.busy)
    BY <2>2, ScheduleGood, Zenon
  <2>4. Idle(d) /\ words # 0 => Idle(r)
    BY <1>4, <2>1, <2>3, Zenon DEF Idle
  <2>. QED
    BY <1>4, <2>3, <2>4, Zenon DEF r
<1>5. CASE c \in d.busy \cap d.enabled /\ c \in Immediate
  <2>1. c \notin Paced /\ c # CDROM /\ c \notin Delayed
    BY <1>5, DmaAssumption DEF CDROM
  <2>2. r = complete_transfer(d, c)
    BY <1>5, <2>1, Zenon DEF try_execute
  <2>. HIDE DEF r
  <2>3. Good(r) /\ r.active = d.active /\ r.busy = d.busy \ {c}
    BY <2>2, CompleteGood, Zenon
  <2>4. Idle(d) => Idle(r)
    BY <1>5, <2>3, Zenon DEF Idle
  <2>. QED
    BY <2>3, <2>4, Zenon DEF r
<1>6. c \in Paced \/ c \in Delayed \/ c \in Immediate
  BY Classes, Zenon
<1>. HIDE DEF r
<1>7. Good(r) /\ Ok
  BY <1>1, <1>2, <1>3, <1>4, <1>5, <1>6, Zenon DEF r
<1>. QED
  BY <1>7, Zenon DEF r

\* A channel that is not paced, not active or not enabled is left alone.
LEMMA ChannelRests ==
  ASSUME NEW d, NEW c, NEW cycles, NEW avail,
         c \notin Paced \cap d.active \cap d.busy \cap d.enabled
  PROVE  advance_channel(d, c, cycles, avail) = d
  BY Zenon DEF advance_channel

\* A paced channel never moves more words than are left, nor than its budget pays for.
LEMMA ChannelGood ==
  ASSUME NEW d, Good(d), NEW c \in {0, 1, CDROM}, NEW cycles \in Nat, NEW avail \in [Paced -> Nat]
  PROVE  LET r == advance_channel(d, c, cycles, avail) IN Good(r) /\ (Idle(d) => Idle(r))
<1>. DEFINE accum == Lesser(d.accum[c] + cycles, MaxAccum)
            words == Lesser(d.left[c], avail[c])
            moved == Lesser(words, accum \div CyclesPerWord[c])
            m == Moved(d, c, d.left[c] - moved, accum - moved * CyclesPerWord[c])
            r == advance_channel(d, c, cycles, avail)
<1>1. CASE c \notin Paced \cap d.active \cap d.busy \cap d.enabled
  <2>1. r = d
    BY <1>1, ChannelRests, Zenon
  <2>. QED
    BY <2>1, Zenon
<1>2. CASE c \in Paced \cap d.active \cap d.busy \cap d.enabled
  <2>1. c \in Channels /\ c \in Paced
    BY <1>2, Zenon DEF Channels
  <2>2. /\ d.accum[c] \in 0..MaxAccum /\ d.left[c] \in Nat /\ avail[c] \in Nat
        /\ CyclesPerWord[c] \in Nat \ {0} /\ MaxAccum \in Nat
    BY <2>1, Parts, DmaAssumption, ZenonT(60) DEF Budgets, Counts
  <2>3. accum \in 0..MaxAccum /\ words \in Nat /\ words <= d.left[c]
    BY <2>2 DEF Lesser
  <2>. HIDE DEF accum, words
  <2>4. accum \div CyclesPerWord[c] \in Nat
    BY <2>2, <2>3, SMT
  <2>5. moved \in Nat /\ moved <= d.left[c] /\ moved <= accum \div CyclesPerWord[c]
    BY <2>2, <2>3, <2>4 DEF Lesser
  <2>. HIDE DEF moved
  <2>6. moved * CyclesPerWord[c] <= accum /\ moved * CyclesPerWord[c] \in Nat
    <3>1. accum \in Nat
      BY <2>2, <2>3
    <3>. QED
      BY <2>2, <2>5, <3>1, BudgetPays
  <2>7. d.left[c] - moved \in Nat /\ accum - moved * CyclesPerWord[c] \in 0..MaxAccum
    BY <2>2, <2>3, <2>5, <2>6
  <2>8. Good(m) /\ m.active = d.active /\ m.busy = d.busy
    <3>1. Keeps(d, m, d.active)
      BY <2>1, <2>7, MovedGood, Zenon
    <3>. QED
      BY <3>1, Zenon DEF Keeps
  <2>9. r = d \/ r = m \/ r = Finish(d, c) \/ r = Finish(m, c)
    <3>1. m = After(d, c, cycles, avail)
      BY Zenon DEF After, Words, Budget, accum, words, moved
    <3>. HIDE DEF m
    <3>. QED
      BY <3>1, Zenon DEF advance_channel
  <2>. HIDE DEF m, r
  <2>10. ASSUME NEW e, Good(e), e.active = d.active, e.busy = d.busy, r = e \/ r = Finish(e, c)
         PROVE  Good(r) /\ (Idle(d) => Idle(r))
    <3>1. CASE r = e
      BY <2>10, <3>1, Zenon DEF Idle
    <3>2. CASE r = Finish(e, c)
      <4>1. Good(r) /\ r.active = d.active \ {c} /\ r.busy = d.busy \ {c}
        BY <2>1, <2>10, <3>2, FinishGood
      <4>. QED
        BY <4>1, Zenon DEF Idle
    <3>. QED
      BY <2>10, <3>1, <3>2, Zenon
  <2>. QED
    BY <2>8, <2>9, <2>10, Zenon DEF r
<1>. HIDE DEF r
<1>3. Good(r) /\ (Idle(d) => Idle(r))
  BY <1>1, <1>2, Zenon DEF r
<1>. QED
  BY <1>3, Zenon DEF r

\* A delayed channel counts down, or retires its record and its start bit together.
LEMMA DelayedGood ==
  ASSUME NEW d, Good(d), NEW c \in {2, 4}, NEW cycles \in Nat
  PROVE  LET r == advance_delayed_complete(d, c, cycles) IN Good(r) /\ (Idle(d) => Idle(r))
<1>. DEFINE e == Scheduled(d, c, d.active \ {c}, 0)
            f == Counted(d, c, d.left[c] - cycles)
            r == advance_delayed_complete(d, c, cycles)
<1>1. CASE c \notin d.active \cap Delayed
  <2>1. r = d
    BY <1>1, Zenon DEF advance_delayed_complete
  <2>. QED
    BY <2>1, Zenon
<1>2. CASE c \in d.active \cap Delayed /\ cycles < d.left[c]
  <2>1. c \in Channels
    BY <1>2, Zenon DEF Channels
  <2>2. d.left[c] - cycles \in Nat
    BY <1>2, <2>1, Parts DEF Counts
  <2>3. Keeps(d, f, d.active)
    BY <2>1, <2>2, CountedGood, Zenon
  <2>4. r = f
    BY <1>2, Zenon DEF advance_delayed_complete, Counted
  <2>. HIDE DEF f, r
  <2>. QED
    BY <2>3, <2>4, Zenon DEF Keeps, Idle, r
<1>3. CASE c \in d.active \cap Delayed /\ ~(cycles < d.left[c])
  <2>1. c \in Channels /\ 0 \in Nat
    BY <1>3, Zenon DEF Channels
  <2>2. d.active \ {c} \in ChannelSets
    BY <2>1, Parts, SetFacts, Zenon
  <2>3. Keeps(d, e, d.active \ {c})
    BY <2>1, <2>2, ScheduledGood, Zenon
  <2>4. r = complete_transfer(e, c)
    BY <1>3, Zenon DEF advance_delayed_complete, Scheduled
  <2>. HIDE DEF e, r
  <2>5. Good(r) /\ r.active = e.active /\ r.busy = e.busy \ {c}
    BY <2>1, <2>3, <2>4, CompleteGood, Zenon DEF Keeps
  <2>. QED
    BY <2>3, <2>5, Zenon DEF Keeps, Idle, r
<1>. QED
  BY <1>1, <1>2, <1>3, Zenon

\* dma_advance composes the channels' advances.
LEMMA AdvanceGood ==
  ASSUME NEW d, Good(d), NEW cycles \in Nat, NEW avail \in [Paced -> Nat]
  PROVE  LET r == dma_advance(d, cycles, avail) IN Good(r) /\ (Idle(d) => Idle(r))
<1>. DEFINE d0 == advance_channel(d, 0, cycles, avail)
            d1 == advance_channel(d0, 1, cycles, avail)
            d3 == advance_channel(d1, CDROM, cycles, avail)
            e2 == advance_delayed_complete(d3, 2, cycles)
            e4 == advance_delayed_complete(e2, 4, cycles)
<1>1. dma_advance(d, cycles, avail) = e4
  BY Zenon DEF dma_advance
<1>2. Good(d0) /\ (Idle(d) => Idle(d0))
  BY ChannelGood, Zenon
<1>. HIDE DEF d0
<1>3. Good(d1) /\ (Idle(d0) => Idle(d1))
  BY <1>2, ChannelGood, Zenon
<1>. HIDE DEF d1
<1>4. Good(d3) /\ (Idle(d1) => Idle(d3))
  BY <1>3, ChannelGood, Zenon
<1>. HIDE DEF d3
<1>5. Good(e2) /\ (Idle(d3) => Idle(e2))
  BY <1>4, DelayedGood, Zenon
<1>. HIDE DEF e2
<1>6. Good(e4) /\ (Idle(e2) => Idle(e4))
  BY <1>5, DelayedGood, Zenon
<1>. HIDE DEF e4
<1>. QED
  BY <1>1, <1>2, <1>3, <1>4, <1>5, <1>6, Zenon

\* The inductive invariant.
Inv == Good(dma) /\ (Ordinary => Idle(dma))

\* dma_init leaves no channel busy or active and the interrupt level low.
LEMMA InitInv == DmaInit => Inv
<1>. SUFFICES ASSUME DmaInit PROVE Inv
  BY Zenon
<1>1. MaxAccum \in Nat
  BY DmaAssumption, Zenon
<1>2. 0 \in 0..MaxAccum
  BY <1>1
<1>3. [c \in Channels |-> 0] \in Budgets /\ [c \in Channels |-> 0] \in Counts
  BY <1>2, Zenon DEF Budgets, Counts
<1>4. {} \in ChannelSets /\ {} \in ReverseSets
  BY Zenon DEF ChannelSets, ReverseSets
<1>5. dma \in DmaController
  BY <1>3, <1>4, Zenon DEF DmaInit, dma_init, DmaController
<1>6. dma.raised = 0 /\ dma.active = {} /\ dma.flags = {} /\ dma.bus_error = FALSE
  BY Zenon DEF DmaInit, dma_init
<1>. QED
  BY <1>5, <1>6, Zenon DEF Inv, Good, Idle, dicr_master_flag

\* A CHCR write sets the start and direction bits before anything else happens.
LEMMA ChcrGood ==
  ASSUME Inv, NEW c \in Channels, NEW rev \in BOOLEAN, rev => c \in Reversible,
         NEW B \in ChannelSets
  PROVE  LET e == [Direction(c, rev) EXCEPT !.busy = B] IN
         Good(e) /\ e.active = dma.active /\ e.busy = B
<1>. DEFINE R == IF rev THEN dma.reverse \cup {c} ELSE dma.reverse \ {c}
            f == [dma EXCEPT !.reverse = R]
            e == [f EXCEPT !.busy = B]
<1>1. dma \in DmaController /\ Good(dma) /\ R \in ReverseSets
  BY Parts, Zenon DEF Inv, Good, ReverseSets
<1>2. Direction(c, rev) = f
  BY Zenon DEF Direction
<1>. HIDE DEF R
<1>3. f \in DmaController
  BY <1>1, Fields, Zenon
<1>4. /\ f.raised = dma.raised /\ f.flags = dma.flags /\ f.bus_error = dma.bus_error
      /\ f.master_en = dma.master_en /\ f.active = dma.active
  BY <1>1, Zenon DEF DmaController
<1>. HIDE DEF f
<1>5. e \in DmaController
  BY <1>3, Fields, Zenon
<1>6. /\ e.raised = dma.raised /\ e.flags = dma.flags /\ e.bus_error = dma.bus_error
      /\ e.master_en = dma.master_en /\ e.active = dma.active /\ e.busy = B
  BY <1>3, <1>4, Zenon DEF DmaController
<1>. HIDE DEF e
<1>7. Good(e)
  BY <1>1, <1>5, <1>6, SameLevel, Zenon
<1>. QED
  BY <1>2, <1>6, <1>7, Zenon DEF e

\* Every register write, acknowledge and advance preserves the invariant.
LEMMA NextInv == Inv /\ [DmaNext]_dmaVars => Inv'
<1>. SUFFICES ASSUME Inv, [DmaNext]_dmaVars PROVE Inv'
  BY Zenon
<1>0. Good(dma) /\ dma \in DmaController
  BY Zenon DEF Inv, Good
<1>1. ASSUME NEW on \in SUBSET Channels, WriteDPCR(on) PROVE Inv'
  <2>. DEFINE e == [dma EXCEPT !.enabled = on]
  <2>1. e \in DmaController
    BY <1>0, Fields, Zenon DEF ChannelSets
  <2>2. /\ e.raised = dma.raised /\ e.flags = dma.flags /\ e.bus_error = dma.bus_error
        /\ e.master_en = dma.master_en /\ e.active = dma.active /\ e.busy = dma.busy
    BY <1>0, Zenon DEF DmaController
  <2>3. dma' = e
    BY <1>1, Zenon DEF WriteDPCR
  <2>. HIDE DEF e
  <2>4. Good(e)
    BY <1>0, <2>1, <2>2, SameLevel, Zenon
  <2>. QED
    BY <2>2, <2>3, <2>4, Zenon DEF Inv, Good, Idle, dicr_master_flag, Ordinary
<1>2. ASSUME NEW error \in BOOLEAN, NEW master \in BOOLEAN, NEW en \in SUBSET Channels,
             NEW ack \in SUBSET Channels, WriteDICR(error, master, en, ack)
      PROVE  Inv'
  <2>. DEFINE e1 == [dma EXCEPT !.bus_error = error]
              e2 == [e1 EXCEPT !.master_en = master]
              e3 == [e2 EXCEPT !.irq_en = en]
              e == [e3 EXCEPT !.flags = dma.flags \ ack]
              r == raise_dma_irq_on_master_edge(dma, e)
  <2>1. dma.flags \ ack \in ChannelSets /\ en \in ChannelSets
    BY <1>0, Zenon DEF DmaController, ChannelSets
  <2>2. e1 \in DmaController
    BY <1>0, Fields, Zenon
  <2>3. e1.raised = dma.raised /\ e1.active = dma.active /\ e1.busy = dma.busy
    BY <1>0, Zenon DEF DmaController
  <2>4. dma' = r
    BY <1>0, <1>2, Zenon DEF WriteDICR, DmaController
  <2>. HIDE DEF e1
  <2>5. e2 \in DmaController /\ e2.raised = dma.raised /\ e2.active = dma.active /\ e2.busy = dma.busy
    BY <2>2, <2>3, Fields DEF DmaController
  <2>. HIDE DEF e2
  <2>6. e3 \in DmaController /\ e3.raised = dma.raised /\ e3.active = dma.active /\ e3.busy = dma.busy
    BY <2>1, <2>5, Fields DEF DmaController
  <2>. HIDE DEF e3
  <2>7. e \in DmaController /\ e.raised = dma.raised /\ e.active = dma.active /\ e.busy = dma.busy
    BY <2>1, <2>6, Fields, SMTT(60) DEF DmaController
  <2>. HIDE DEF e
  <2>8. Good(r) /\ r.active = dma.active /\ r.busy = dma.busy
    BY <1>0, <2>7, EdgeGood, Zenon
  <2>. HIDE DEF r
  <2>. QED
    BY <2>4, <2>8, Zenon DEF Inv, Good, Idle, dicr_master_flag, Ordinary
<1>3. ASSUME NEW c \in Channels, NEW rev \in {FALSE} \cup {c \in Reversible}, Stop(c, rev)
      PROVE  Inv'
  <2>. DEFINE B == dma.busy \ {c}
              e == [Direction(c, rev) EXCEPT !.busy = B]
              r == cancel_async_transfer(e, c)
  <2>1. rev \in BOOLEAN /\ (rev => c \in Reversible) /\ B \in ChannelSets
    BY <1>0, <1>3, Parts, SetFacts, Zenon
  <2>3. dma' = r
    BY <1>0, <1>3, Zenon DEF Stop, Direction, DmaController
  <2>. HIDE DEF B
  <2>2. Good(e) /\ e.active = dma.active /\ e.busy = B
    BY <2>1, ChcrGood, ZenonT(60)
  <2>. HIDE DEF e
  <2>4. Good(r) /\ r.active = dma.active \ {c} /\ r.busy = dma.busy \ {c}
    BY <2>2, FinishGood DEF B
  <2>. HIDE DEF r
  <2>. QED
    BY <2>3, <2>4, Zenon DEF Inv, Good, Idle, dicr_master_flag, Ordinary
<1>4. ASSUME NEW c \in Channels, NEW rev \in {FALSE} \cup {c \in Reversible},
             NEW words \in Lengths[c], Start(c, rev, words)
      PROVE  Inv'
  <2>. DEFINE B == dma.busy \cup {c}
              e == [Direction(c, rev) EXCEPT !.busy = B]
              r == try_execute(e, c, words)
  <2>1. rev \in BOOLEAN /\ (rev => c \in Reversible) /\ B \in ChannelSets
    BY <1>0, <1>4, Parts, SetFacts, Zenon
  <2>3. dma' = r
    BY <1>0, <1>4, Zenon DEF Start, Direction, DmaController
  <2>. HIDE DEF B
  <2>2. Good(e) /\ e.active = dma.active /\ e.busy = B
    BY <2>1, ChcrGood, Zenon
  <2>. HIDE DEF e
  <2>4. words \in Nat
    BY <1>4, DmaAssumption
  <2>5. Good(r) /\ (Idle(e) /\ Reversible = {} /\ (c \in Delayed => words # 0) => Idle(r))
    BY <2>2, <2>4, TryGood, Zenon
  <2>. HIDE DEF r
  <2>6. Ordinary => Idle(r)
    BY <1>4, <2>2, <2>5, Zenon DEF Inv, Idle, Ordinary, B
  <2>. QED
    BY <2>3, <2>5, <2>6, Zenon DEF Inv, Good, Idle, dicr_master_flag, Ordinary
<1>5. ASSUME NEW cycles \in 1..MaxDmaStep, NEW avail \in Avail, AdvanceDma(cycles, avail)
      PROVE  Inv'
  <2>. DEFINE r == dma_advance(dma, cycles, avail)
  <2>1. cycles \in Nat /\ avail \in [Paced -> Nat]
    BY <1>5, DmaAssumption DEF Avail
  <2>2. Good(r) /\ (Idle(dma) => Idle(r))
    BY <1>0, <2>1, AdvanceGood, Zenon
  <2>3. dma' = r
    BY <1>5, Zenon DEF AdvanceDma
  <2>. HIDE DEF r
  <2>. QED
    BY <2>2, <2>3, Zenon DEF Inv, Good, Idle, dicr_master_flag, Ordinary
<1>6. ASSUME Acknowledge PROVE Inv'
  <2>. DEFINE e == [dma EXCEPT !.i_stat = FALSE]
  <2>1. e \in DmaController
    BY <1>0, Fields, Zenon
  <2>2. /\ e.raised = dma.raised /\ e.flags = dma.flags /\ e.bus_error = dma.bus_error
        /\ e.master_en = dma.master_en /\ e.active = dma.active /\ e.busy = dma.busy
    BY <1>0, Zenon DEF DmaController
  <2>3. dma' = e
    BY <1>6, Zenon DEF Acknowledge
  <2>. HIDE DEF e
  <2>4. Good(e)
    BY <1>0, <2>1, <2>2, SameLevel, Zenon
  <2>. QED
    BY <2>2, <2>3, <2>4, Zenon DEF Inv, Good, Idle, dicr_master_flag, Ordinary
<1>7. ASSUME UNCHANGED dmaVars PROVE Inv'
  BY <1>7, Zenon DEF dmaVars, Inv, Good, Idle, dicr_master_flag, Ordinary
<1>. QED
  BY <1>1, <1>2, <1>3, <1>4, <1>5, <1>6, <1>7, Zenon DEF DmaNext, Uses

\* IRQ3 is raised exactly once each time DICR's master flag goes up, and the controller
\* stays well formed, for every set of channels, lengths, word costs and directions.
THEOREM OneIrqAlways == DmaSpec => [](DmaTypeOK /\ OneIrqPerLevel)
<1>1. Inv => DmaTypeOK /\ OneIrqPerLevel
  BY Zenon DEF Inv, Good, DmaTypeOK, OneIrqPerLevel
<1>. QED
  BY <1>1, InitInv, NextInv, PTL DEF DmaSpec

\* A stopped channel never has a transfer in flight, provided no channel is started against
\* its device's direction and no GPU or SPU transfer is empty.
THEOREM StoppedIsInactive == Ordinary => (DmaSpec => []IdleIsInactive)
<1>. SUFFICES ASSUME Ordinary PROVE DmaSpec => []IdleIsInactive
  BY Zenon
<1>1. Inv => IdleIsInactive
  BY Zenon DEF Inv, Idle, IdleIsInactive
<1>. QED
  BY <1>1, InitInv, NextInv, PTL DEF DmaSpec

-----------------------------------------------------------------------------
(* One channel through an advance *)

\* What an advance of channel c leaves alone: the register bits it only reads, and the
\* transfers of the other channels.
Beside(d, r, c) ==
  /\ r.enabled = d.enabled /\ r.reverse = d.reverse
  /\ \A b \in Channels \ {c} :
       /\ r.left[b] = d.left[b] /\ r.accum[b] = d.accum[b]
       /\ b \in r.active <=> b \in d.active
       /\ b \in r.busy <=> b \in d.busy

\* A completion leaves every transfer record and the DPCR and direction bits alone.
LEMMA CompleteBeside ==
  ASSUME NEW d, Good(d), NEW c \in Channels
  PROVE  LET r == complete_transfer(d, c) IN
         /\ r.left = d.left /\ r.accum = d.accum /\ r.enabled = d.enabled
         /\ r.reverse = d.reverse
<1>. DEFINE idle == [d EXCEPT !.busy = d.busy \ {c}]
            e == [idle EXCEPT !.flags = idle.flags \cup {c}]
            r == raise_dma_irq_on_master_edge(d, e)
<1>1. d \in DmaController
  BY Zenon DEF Good
<1>2. /\ idle.left = d.left /\ idle.accum = d.accum /\ idle.enabled = d.enabled
      /\ idle.reverse = d.reverse
  BY <1>1, Zenon DEF DmaController
<1>3. /\ e.left = d.left /\ e.accum = d.accum /\ e.enabled = d.enabled
      /\ e.reverse = d.reverse
  BY <1>1, Zenon DEF DmaController
<1>4. /\ r.left = e.left /\ r.accum = e.accum /\ r.enabled = e.enabled
      /\ r.reverse = e.reverse
  <2>1. DOMAIN e = DOMAIN d
    BY Zenon DEF DmaController
  <2>2. e = [e EXCEPT !.left = e.left]
    BY <1>1, Zenon DEF DmaController
  <2>. HIDE DEF e
  <2>. QED
    BY <1>1, <2>1, Zenon DEF raise_dma_irq_on_master_edge, DmaController
<1>5. complete_transfer(d, c) = idle \/ complete_transfer(d, c) = r
  BY Zenon DEF complete_transfer
<1>. HIDE DEF idle, e, r
<1>. QED
  BY <1>2, <1>3, <1>4, <1>5, Zenon

\* The fields of a controller whose channel was armed.
LEMMA ArmedFields ==
  ASSUME NEW d \in DmaController, NEW c \in Channels, NEW A, NEW n, NEW k
  PROVE  LET r == Armed(d, c, A, n, k) IN
         /\ r.active = A /\ r.busy = d.busy /\ r.enabled = d.enabled
         /\ r.reverse = d.reverse /\ r.i_stat = d.i_stat
         /\ r.left = [d.left EXCEPT ![c] = n] /\ r.accum = [d.accum EXCEPT ![c] = k]
BY Zenon DEF Armed, DmaController

\* The same for a transfer put on the schedule,
LEMMA ScheduledFields ==
  ASSUME NEW d \in DmaController, NEW c \in Channels, NEW A, NEW n
  PROVE  LET r == Scheduled(d, c, A, n) IN
         /\ r.active = A /\ r.busy = d.busy /\ r.enabled = d.enabled
         /\ r.reverse = d.reverse /\ r.i_stat = d.i_stat
         /\ r.left = [d.left EXCEPT ![c] = n] /\ r.accum = d.accum
BY Zenon DEF Scheduled, DmaController

\* for words moved out of a budget,
LEMMA MovedFields ==
  ASSUME NEW d \in DmaController, NEW c \in Channels, NEW n, NEW k
  PROVE  LET r == Moved(d, c, n, k) IN
         /\ r.active = d.active /\ r.busy = d.busy /\ r.enabled = d.enabled
         /\ r.reverse = d.reverse /\ r.i_stat = d.i_stat
         /\ r.left = [d.left EXCEPT ![c] = n] /\ r.accum = [d.accum EXCEPT ![c] = k]
BY Zenon DEF Moved, DmaController

\* and for a delay counted down.
LEMMA CountedFields ==
  ASSUME NEW d \in DmaController, NEW c \in Channels, NEW n
  PROVE  LET r == Counted(d, c, n) IN
         /\ r.active = d.active /\ r.busy = d.busy /\ r.enabled = d.enabled
         /\ r.reverse = d.reverse /\ r.i_stat = d.i_stat
         /\ r.left = [d.left EXCEPT ![c] = n] /\ r.accum = d.accum
BY Zenon DEF Counted, DmaController

\* Only entry c of the tables changes.
LEMMA TableBeside ==
  ASSUME NEW c \in Channels
  PROVE  /\ \A f \in Counts, n \in Nat :
              [f EXCEPT ![c] = n][c] = n /\ \A b \in Channels \ {c} : [f EXCEPT ![c] = n][b] = f[b]
         /\ \A f \in Budgets, n \in Nat :
              [f EXCEPT ![c] = n][c] = n /\ \A b \in Channels \ {c} : [f EXCEPT ![c] = n][b] = f[b]
BY Zenon DEF Counts, Budgets

\* Finishing a paced transfer touches its own channel only.
LEMMA FinishBeside ==
  ASSUME NEW d, Good(d), NEW c \in Channels
  PROVE  Beside(d, Finish(d, c), c)
<1>. DEFINE q == cancel_async_transfer(d, c)
<1>0. d \in DmaController /\ d.left \in Counts /\ d.accum \in Budgets
  BY Parts, Zenon DEF Good
<1>1. q = Armed(d, c, d.active \ {c}, 0, 0)
  BY Zenon DEF cancel_async_transfer, Armed
<1>2. Finish(d, c) = complete_transfer(q, c)
  BY Zenon DEF Finish
<1>. HIDE DEF q
<1>3. /\ q.active = d.active \ {c} /\ q.busy = d.busy /\ q.enabled = d.enabled
      /\ q.reverse = d.reverse
      /\ q.left = [d.left EXCEPT ![c] = 0] /\ q.accum = [d.accum EXCEPT ![c] = 0]
  BY <1>0, <1>1, ArmedFields
<1>4. Good(q)
  BY FinishGood, Zenon DEF q
<1>. DEFINE r == complete_transfer(q, c)
<1>5. r.active = q.active /\ r.busy = q.busy \ {c}
  BY <1>4, CompleteGood, Zenon
<1>6. r.left = q.left /\ r.accum = q.accum /\ r.enabled = q.enabled /\ r.reverse = q.reverse
  BY <1>4, CompleteBeside, Zenon
<1>. HIDE DEF r
<1>7. \A b \in Channels \ {c} : r.left[b] = d.left[b] /\ r.accum[b] = d.accum[b]
  BY <1>0, <1>3, <1>6, TableBeside
<1>. QED
  BY <1>2, <1>3, <1>5, <1>6, <1>7, ZenonT(60) DEF Beside, r

\* The budget, the words it pays for and the record they leave have their types.
LEMMA AfterFacts ==
  ASSUME NEW d, Good(d), NEW c \in Paced, NEW cycles \in Nat, NEW avail \in [Paced -> Nat]
  PROVE  LET m == After(d, c, cycles, avail)
             w == Words(d, c, cycles, avail)
             n == Budget(d, c, cycles) IN
         /\ n \in 0..MaxAccum /\ w \in Nat /\ w <= d.left[c] /\ w <= avail[c]
         /\ n \div CyclesPerWord[c] \in Nat /\ w <= n \div CyclesPerWord[c]
         /\ w * CyclesPerWord[c] \in Nat /\ w * CyclesPerWord[c] <= n
         /\ Good(m) /\ Beside(d, m, c)
         /\ m.left[c] = d.left[c] - w /\ m.accum[c] = n - w * CyclesPerWord[c]
         /\ m.active = d.active /\ m.busy = d.busy /\ m.i_stat = d.i_stat
<1>. DEFINE n == Budget(d, c, cycles)
            w == Words(d, c, cycles, avail)
            m == Moved(d, c, d.left[c] - w, n - w * CyclesPerWord[c])
<1>1. c \in Channels
  BY Zenon DEF Channels
<1>2. /\ d.accum[c] \in 0..MaxAccum /\ d.left[c] \in Nat /\ avail[c] \in Nat
      /\ CyclesPerWord[c] \in Nat \ {0} /\ MaxAccum \in Nat
  BY <1>1, Parts, DmaAssumption DEF Budgets, Counts
<1>3. n \in 0..MaxAccum /\ n \in Nat
  BY <1>2 DEF Budget, Lesser
<1>4. n \div CyclesPerWord[c] \in Nat
  BY <1>2, <1>3, SMT
<1>5. w = Lesser(Lesser(d.left[c], avail[c]), n \div CyclesPerWord[c])
  BY Zenon DEF Words
<1>. HIDE DEF n, w
<1>6. w \in Nat /\ w <= d.left[c] /\ w <= avail[c] /\ w <= n \div CyclesPerWord[c]
  BY <1>2, <1>4, <1>5 DEF Lesser
<1>7. w * CyclesPerWord[c] <= n /\ w * CyclesPerWord[c] \in Nat
  BY <1>2, <1>3, <1>6, BudgetPays
<1>8. d.left[c] - w \in Nat /\ n - w * CyclesPerWord[c] \in 0..MaxAccum
  BY <1>2, <1>3, <1>6, <1>7
<1>9. Good(m)
  <2>1. Keeps(d, m, d.active)
    BY <1>1, <1>8, MovedGood, Zenon
  <2>. QED
    BY <2>1, Zenon DEF Keeps
<1>10. d \in DmaController /\ d.left \in Counts /\ d.accum \in Budgets
  BY Parts, Zenon DEF Good
<1>11. /\ m.active = d.active /\ m.busy = d.busy /\ m.enabled = d.enabled
       /\ m.reverse = d.reverse /\ m.i_stat = d.i_stat
       /\ m.left = [d.left EXCEPT ![c] = d.left[c] - w]
       /\ m.accum = [d.accum EXCEPT ![c] = n - w * CyclesPerWord[c]]
  BY <1>1, <1>10, MovedFields
<1>12. After(d, c, cycles, avail) = m
  BY Zenon DEF After, n, w
<1>. HIDE DEF m
<1>13. /\ m.left[c] = d.left[c] - w /\ m.accum[c] = n - w * CyclesPerWord[c]
       /\ \A b \in Channels \ {c} : m.left[b] = d.left[b] /\ m.accum[b] = d.accum[b]
  BY <1>1, <1>8, <1>10, <1>11, TableBeside
<1>14. Beside(d, m, c)
  BY <1>11, <1>13, Zenon DEF Beside
<1>. QED
  BY <1>3, <1>4, <1>6, <1>7, <1>9, <1>11, <1>12, <1>13, <1>14, Zenon DEF n, w

\* A paced channel started in its device's direction rests, moves words, or moves its last
\* word and finishes.
LEMMA ForwardCases ==
  ASSUME NEW d, NEW c, NEW cycles, NEW avail, c \notin d.reverse
  PROVE  LET r == advance_channel(d, c, cycles, avail)
             m == After(d, c, cycles, avail)
             w == Words(d, c, cycles, avail)
             on == c \in Paced \cap d.active \cap d.busy \cap d.enabled IN
         /\ ~on \/ avail[c] = 0 => r = d
         /\ on /\ avail[c] # 0 /\ w > 0 /\ m.left[c] = 0 => r = Finish(m, c)
         /\ on /\ avail[c] # 0 /\ ~(w > 0 /\ m.left[c] = 0) => r = m
BY Zenon DEF advance_channel

\* The same when no channel can be started in the other direction.
LEMMA ChannelCases ==
  ASSUME NEW d, Good(d), NEW c \in {0, 1, CDROM}, NEW cycles \in Nat,
         NEW avail \in [Paced -> Nat], Reversible = {}
  PROVE  LET r == advance_channel(d, c, cycles, avail)
             m == After(d, c, cycles, avail)
             w == Words(d, c, cycles, avail)
             on == c \in Paced \cap d.active \cap d.busy \cap d.enabled IN
         /\ ~on \/ avail[c] = 0 => r = d
         /\ on /\ avail[c] # 0 /\ w > 0 /\ m.left[c] = 0 => r = Finish(m, c)
         /\ on /\ avail[c] # 0 /\ ~(w > 0 /\ m.left[c] = 0) => r = m
<1>1. c \notin d.reverse
  BY Parts, Zenon DEF ReverseSets
<1>. QED
  BY <1>1, ForwardCases

\* An advance of one channel leaves the others alone.
LEMMA ChannelBeside ==
  ASSUME NEW d, Good(d), NEW c \in {0, 1, CDROM}, NEW cycles \in Nat,
         NEW avail \in [Paced -> Nat], Reversible = {}
  PROVE  Beside(d, advance_channel(d, c, cycles, avail), c)
<1>. DEFINE r == advance_channel(d, c, cycles, avail)
            m == After(d, c, cycles, avail)
            w == Words(d, c, cycles, avail)
            on == c \in Paced \cap d.active \cap d.busy \cap d.enabled
<1>1. Beside(d, d, c)
  BY Zenon DEF Beside
<1>2. on => c \in Paced /\ c \in Channels
  BY Zenon DEF Channels
<1>3. on => Good(m) /\ Beside(d, m, c)
  BY <1>2, AfterFacts, Zenon
<1>4. r = d \/ (on /\ (r = Finish(m, c) \/ r = m))
  BY ChannelCases
<1>. HIDE DEF m, r, on
<1>5. on => Beside(m, Finish(m, c), c)
  BY <1>2, <1>3, FinishBeside, Zenon
<1>6. on => Beside(d, Finish(m, c), c)
  BY <1>3, <1>5, Zenon DEF Beside
<1>. QED
  BY <1>1, <1>3, <1>4, <1>6, Zenon DEF r

\* A delayed completion touches its own channel only.
LEMMA DelayedBeside ==
  ASSUME NEW d, Good(d), NEW c \in {2, 4}, NEW cycles \in Nat
  PROVE  Beside(d, advance_delayed_complete(d, c, cycles), c)
<1>. DEFINE e == Scheduled(d, c, d.active \ {c}, 0)
            f == Counted(d, c, d.left[c] - cycles)
            r == advance_delayed_complete(d, c, cycles)
            q == complete_transfer(e, c)
<1>1. r = d \/ (c \in Delayed /\ c \in d.active /\ ((cycles < d.left[c] /\ r = f) \/ r = q))
  BY Zenon DEF advance_delayed_complete, Scheduled, Counted
<1>2. Beside(d, d, c)
  BY Zenon DEF Beside
<1>3. ASSUME c \in Delayed PROVE (cycles < d.left[c] => Beside(d, f, c)) /\ Beside(d, q, c)
  <2>1. c \in Channels /\ 0 \in Nat
    BY <1>3, Zenon DEF Channels
  <2>2. d.active \ {c} \in ChannelSets
    BY <2>1, Parts, SetFacts, Zenon
  <2>3. Keeps(d, e, d.active \ {c})
    BY <2>1, <2>2, ScheduledGood, Zenon
  <2>4. d \in DmaController /\ d.left \in Counts /\ d.accum \in Budgets /\ d.left[c] \in Nat
    BY <2>1, Parts, Zenon DEF Good, Counts
  <2>5. /\ e.active = d.active \ {c} /\ e.busy = d.busy /\ e.enabled = d.enabled
        /\ e.reverse = d.reverse
        /\ e.left = [d.left EXCEPT ![c] = 0] /\ e.accum = d.accum
    BY <2>1, <2>4, ScheduledFields
  <2>6. /\ f.active = d.active /\ f.busy = d.busy /\ f.enabled = d.enabled
        /\ f.reverse = d.reverse
        /\ f.left = [d.left EXCEPT ![c] = d.left[c] - cycles] /\ f.accum = d.accum
    BY <2>1, <2>4, CountedFields
  <2>. HIDE DEF e, f
  <2>7. Good(e)
    BY <2>3, Zenon DEF Keeps
  <2>8. q.active = e.active /\ q.busy = e.busy \ {c}
    BY <2>1, <2>7, CompleteGood, Zenon
  <2>9. q.left = e.left /\ q.accum = e.accum /\ q.enabled = e.enabled /\ q.reverse = e.reverse
    BY <2>1, <2>7, CompleteBeside, Zenon
  <2>. HIDE DEF q
  <2>10. cycles < d.left[c] => Beside(d, f, c)
    <3>1. cycles < d.left[c] => d.left[c] - cycles \in Nat
      BY <2>4
    <3>. QED
      BY <2>1, <2>4, <2>6, <3>1, TableBeside DEF Beside
  <2>11. Beside(d, q, c)
    BY <2>1, <2>4, <2>5, <2>8, <2>9, TableBeside DEF Beside
  <2>. QED
    BY <2>10, <2>11, Zenon
<1>. HIDE DEF e, f, q, r
<1>. QED
  BY <1>1, <1>2, <1>3, Zenon DEF r

-----------------------------------------------------------------------------
(* No transfer ends before its distance *)

\* Channel c raises nothing in the next cycles: its words cost more than its budget and
\* those cycles, or its delay outlasts them.
Quiet(d, c, cycles) ==
  /\ c \in Paced \cap d.active /\ d.left[c] > 0 => d.accum[c] + cycles < d.left[c]
  /\ c \in Delayed \cap d.active => cycles < d.left[c]

\* The estimates of dma_cycles_to_irq.
Estimate(d, c) == IF d.left[c] > d.accum[c] THEN d.left[c] - d.accum[c] ELSE 0
Due(d) ==
  {Estimate(d, c) : c \in {p \in d.active \cap Paced : d.left[p] > 0}}
    \cup {d.left[c] : c \in d.active \cap Delayed}

\* Nothing is due within less than dma_cycles_to_irq.
LEMMA DistanceQuiet ==
  ASSUME NEW d, Good(d), NEW cycles \in Nat, cycles < dma_cycles_to_irq(d), NEW c
  PROVE  Quiet(d, c, cycles)
<1>. DEFINE T == Due(d) \cup {DmaNever}
            k == CHOOSE x \in T : \A y \in T : x <= y
<1>1. dma_cycles_to_irq(d) = k
  BY Zenon DEF dma_cycles_to_irq, Due, Estimate
<1>2. \A b \in Paced \cup Delayed : d.left[b] \in Nat /\ d.accum[b] \in Nat
  <2>1. \A x \in 0..MaxAccum : x \in Nat
    BY DmaAssumption
  <2>2. \A b \in Paced \cup Delayed : d.left[b] \in Nat /\ d.accum[b] \in 0..MaxAccum
    BY Parts, Zenon DEF Counts, Budgets, Channels
  <2>. QED
    BY <2>1, <2>2, Zenon
<1>3. \A b \in Paced : Estimate(d, b) \in Nat
  <2>1. \A x, y \in Nat : (IF x > y THEN x - y ELSE 0) \in Nat
    OBVIOUS
  <2>. QED
    BY <1>2, <2>1, Zenon DEF Estimate
<1>4. T \in SUBSET Nat /\ T # {}
  BY <1>2, <1>3 DEF Due, DmaNever
<1>5. \A y \in T : k <= y
  <2>1. \E x \in T : \A y \in T : x <= y
    BY <1>4, LeastCount, Zenon
  <2>. QED
    BY <2>1, Zenon
<1>6. k \in T
  <2>1. \E x \in T : \A y \in T : x <= y
    BY <1>4, LeastCount, Zenon
  <2>. QED
    BY <2>1, Zenon
<1>. HIDE DEF k
<1>7. k \in Nat /\ cycles < k
  BY <1>1, <1>4, <1>6, Zenon
<1>8. ASSUME c \in Paced \cap d.active, d.left[c] > 0 PROVE d.accum[c] + cycles < d.left[c]
  <2>1. Estimate(d, c) \in T
    BY <1>8, Zenon DEF Due
  <2>2. cycles < Estimate(d, c)
    BY <1>3, <1>5, <1>7, <1>8, <2>1
  <2>. QED
    BY <1>2, <1>8, <2>2 DEF Estimate
<1>9. ASSUME c \in Delayed \cap d.active PROVE cycles < d.left[c]
  <2>1. d.left[c] \in T
    BY <1>9, Zenon DEF Due
  <2>. QED
    BY <1>2, <1>5, <1>7, <1>9, <2>1, SMTT(60)
<1>. QED
  BY <1>8, <1>9, Zenon DEF Quiet

\* A channel stays quiet while another advances.
LEMMA QuietBeside ==
  ASSUME NEW d, NEW r, NEW c, NEW b, b # c, NEW cycles, Beside(d, r, c), Quiet(d, b, cycles)
  PROVE  Quiet(r, b, cycles)
BY Zenon DEF Quiet, Beside, Channels

\* A quiet paced channel has no last word to move.
LEMMA QuietChannel ==
  ASSUME NEW d, Good(d), NEW c \in {0, 1, CDROM}, NEW cycles \in Nat,
         NEW avail \in [Paced -> Nat], Reversible = {}, Quiet(d, c, cycles)
  PROVE  advance_channel(d, c, cycles, avail).i_stat = d.i_stat
<1>. DEFINE r == advance_channel(d, c, cycles, avail)
            m == After(d, c, cycles, avail)
            w == Words(d, c, cycles, avail)
            n == Budget(d, c, cycles)
            p == CyclesPerWord[c]
            on == c \in Paced \cap d.active \cap d.busy \cap d.enabled
<1>1. CASE ~on \/ avail[c] = 0
  BY <1>1, ChannelCases, Zenon
<1>2. CASE on /\ avail[c] # 0
  <2>1. c \in Paced /\ c \in d.active
    BY <1>2, Zenon
  <2>2. /\ n \in 0..MaxAccum /\ w \in Nat /\ w <= d.left[c]
        /\ w * p \in Nat /\ w * p <= n
        /\ m.left[c] = d.left[c] - w /\ m.i_stat = d.i_stat
    BY <2>1, AfterFacts, Zenon
  <2>3. /\ d.left[c] \in Nat /\ d.accum[c] \in Nat /\ p \in Nat \ {0} /\ MaxAccum \in Nat
    BY <2>1, Parts, DmaAssumption DEF Counts, Budgets, Channels
  <2>4. n <= d.accum[c] + cycles /\ n \in Nat
    BY <2>2, <2>3 DEF Budget, Lesser
  <2>5. on /\ avail[c] # 0 /\ ~(w > 0 /\ m.left[c] = 0) => r = m
    BY ChannelCases, Zenon
  <2>. HIDE DEF n, w, m, p, r
  <2>6. w <= w * p
    BY <2>2, <2>3, SMT
  <2>7. d.left[c] > 0 => d.accum[c] + cycles < d.left[c]
    BY <2>1, Zenon DEF Quiet
  <2>8. ~(w > 0 /\ m.left[c] = 0)
    BY <2>2, <2>3, <2>4, <2>6, <2>7
  <2>. QED
    BY <1>2, <2>2, <2>5, <2>8, Zenon DEF r
<1>. QED
  BY <1>1, <1>2, Zenon

\* A quiet delayed channel only counts down.
LEMMA QuietDelayed ==
  ASSUME NEW d, Good(d), NEW c \in {2, 4}, NEW cycles \in Nat, Quiet(d, c, cycles)
  PROVE  advance_delayed_complete(d, c, cycles).i_stat = d.i_stat
<1>. DEFINE f == Counted(d, c, d.left[c] - cycles)
            r == advance_delayed_complete(d, c, cycles)
<1>1. r = d \/ (c \in Delayed /\ r = f)
  BY Zenon DEF advance_delayed_complete, Counted, Quiet
<1>2. ASSUME c \in Delayed PROVE f.i_stat = d.i_stat
  <2>1. c \in Channels /\ d \in DmaController
    BY <1>2, Zenon DEF Channels, Good
  <2>. QED
    BY <2>1, Zenon DEF Counted, DmaController
<1>. HIDE DEF f, r
<1>. QED
  BY <1>1, <1>2, Zenon DEF r

\* An advance in which every channel is quiet raises nothing.
LEMMA QuietAdvance ==
  ASSUME NEW d, Good(d), NEW cycles \in Nat, NEW avail \in [Paced -> Nat], Reversible = {},
         \A c : Quiet(d, c, cycles)
  PROVE  dma_advance(d, cycles, avail).i_stat = d.i_stat
<1>. DEFINE d0 == advance_channel(d, 0, cycles, avail)
            d1 == advance_channel(d0, 1, cycles, avail)
            d3 == advance_channel(d1, CDROM, cycles, avail)
            e2 == advance_delayed_complete(d3, 2, cycles)
            e4 == advance_delayed_complete(e2, 4, cycles)
<1>1. dma_advance(d, cycles, avail) = e4
  BY Zenon DEF dma_advance
<1>2. /\ Quiet(d, 0, cycles) /\ Quiet(d, 1, cycles) /\ Quiet(d, CDROM, cycles)
      /\ Quiet(d, 2, cycles) /\ Quiet(d, 4, cycles)
  BY Zenon
<1>3. Good(d0) /\ Beside(d, d0, 0) /\ d0.i_stat = d.i_stat
  BY <1>2, ChannelGood, ChannelBeside, QuietChannel, Zenon
<1>. HIDE DEF d0
<1>4. /\ Quiet(d0, 1, cycles) /\ Quiet(d0, CDROM, cycles)
      /\ Quiet(d0, 2, cycles) /\ Quiet(d0, 4, cycles)
  BY <1>2, <1>3, QuietBeside DEF CDROM
<1>5. Good(d1) /\ Beside(d0, d1, 1) /\ d1.i_stat = d.i_stat
  BY <1>3, <1>4, ChannelGood, ChannelBeside, QuietChannel, Zenon
<1>. HIDE DEF d1
<1>6. Quiet(d1, CDROM, cycles) /\ Quiet(d1, 2, cycles) /\ Quiet(d1, 4, cycles)
  BY <1>4, <1>5, QuietBeside DEF CDROM
<1>7. Good(d3) /\ Beside(d1, d3, CDROM) /\ d3.i_stat = d.i_stat
  BY <1>5, <1>6, ChannelGood, ChannelBeside, QuietChannel, Zenon
<1>. HIDE DEF d3
<1>8. Quiet(d3, 2, cycles) /\ Quiet(d3, 4, cycles)
  BY <1>6, <1>7, QuietBeside DEF CDROM
<1>9. Good(e2) /\ Beside(d3, e2, 2) /\ e2.i_stat = d.i_stat
  BY <1>7, <1>8, DelayedGood, DelayedBeside, QuietDelayed, Zenon
<1>. HIDE DEF e2
<1>10. Quiet(e2, 4, cycles)
  BY <1>8, <1>9, QuietBeside
<1>11. e4.i_stat = d.i_stat
  BY <1>9, <1>10, QuietDelayed, Zenon
<1>. HIDE DEF e4
<1>. QED
  BY <1>1, <1>11, Zenon

\* dma_cycles_to_irq never over-estimates: no advance shorter than its answer raises IRQ3,
\* whatever words the devices have ready, for every set of channels, lengths and word
\* costs, provided no channel is started against its device's direction.
THEOREM DmaAlwaysOnTime == Reversible = {} => (DmaSpec => []DmaNeverLate)
<1>. SUFFICES ASSUME Reversible = {} PROVE DmaSpec => []DmaNeverLate
  BY Zenon
<1>1. Inv => DmaNeverLate
  <2>. SUFFICES ASSUME Inv, NEW cycles \in 1..MaxDmaStep, NEW avail \in Avail,
                       cycles < dma_cycles_to_irq(dma)
                PROVE  dma_advance(dma, cycles, avail).i_stat = dma.i_stat
    BY Zenon DEF DmaNeverLate
  <2>1. Good(dma) /\ cycles \in Nat /\ avail \in [Paced -> Nat]
    BY DmaAssumption DEF Inv, Avail
  <2>2. \A c : Quiet(dma, c, cycles)
    BY <2>1, DistanceQuiet, Zenon
  <2>. QED
    BY <2>1, <2>2, QuietAdvance, Zenon
<1>. QED
  BY <1>1, InitInv, NextInv, PTL DEF DmaSpec

-----------------------------------------------------------------------------
(* A started transfer comes nearer to its end *)

\* A paced transfer that time moves on.
Running(d, c) == c \in Paced \cap d.active \cap d.busy \cap d.enabled /\ d.left[c] > 0

\* The most cycles it still needs: those of its words, less what its budget already pays.
Need(d, c) == d.left[c] * CyclesPerWord[c] - Lesser(d.accum[c], CyclesPerWord[c] - 1)

\* From d to r the transfer finishes, or runs on and needs less; and a finished one stays so.
Nearer(d, r, c) ==
  /\ c \notin d.busy => c \notin r.busy
  /\ Running(d, c) => c \notin r.busy \/ (Running(r, c) /\ Need(r, c) < Need(d, c))

\* From d to r the transfer does not change.
Still(d, r, c) ==
  /\ r.left[c] = d.left[c] /\ r.accum[c] = d.accum[c] /\ r.enabled = d.enabled
  /\ c \in r.active <=> c \in d.active
  /\ c \in r.busy <=> c \in d.busy

\* The budget is large enough for a word of every paced channel, and only a CD-ROM transfer
\* may be empty: transfer_word_count is zero only for a CD-ROM with no sector loaded.
Sized ==
  \A c \in Paced : CyclesPerWord[c] <= MaxAccum /\ (c # CDROM => 0 \notin Lengths[c])

\* A device with one word ready on each channel.
Ones == [p \in Paced |-> 1]

\* The transfer does not change while other channels advance.
LEMMA StillBeside ==
  ASSUME NEW d, NEW r, NEW b, NEW c \in Channels, c # b, Beside(d, r, b)
  PROVE  Still(d, r, c)
BY Zenon DEF Still, Beside

\* What one cycle moves, and what it leaves of the need.
LEMMA OneCycle ==
  ASSUME NEW L \in Nat, L > 0, NEW M \in Nat, NEW a \in 0..M, NEW p \in Nat \ {0}, p <= M,
         NEW n, n = Lesser(a + 1, M), NEW w, w = Lesser(Lesser(L, 1), n \div p)
  PROVE  /\ w = 0 \/ w = 1
         /\ L - w > 0 => (L - w) * p - Lesser(n - w * p, p - 1) < L * p - Lesser(a, p - 1)
         /\ L - w = 0 => w > 0
<1>1. n \in Nat /\ n <= a + 1 /\ (n < p => n = a + 1) /\ (n >= p => a + 1 >= p)
  BY DEF Lesser
<1>2. n \div p \in Nat
  BY <1>1, Quotient, Zenon
<1>3. L * p \in Nat
  BY SMT
<1>4. CASE n < p
  <2>1. n \div p < 1
    <3>1. n = (n \div p) * p + (n % p) /\ n % p \in Nat
      <4>1. n = (n \div p) * p + (n % p) /\ n % p \in 0..(p - 1)
        BY <1>1, Quotient, Zenon
      <4>. QED
        BY <4>1
    <3>. SUFFICES ASSUME n \div p >= 1 PROVE FALSE
      BY <1>2
    <3>2. (n \div p) * p >= p
      BY <1>2, SMT
    <3>. QED
      BY <1>1, <1>2, <1>4, <3>1, <3>2
  <2>2. n \div p = 0
    BY <1>2, <2>1
  <2>3. w = 0
    BY <2>2 DEF Lesser
  <2>4. Lesser(n, p - 1) = a + 1 /\ Lesser(a, p - 1) = a
    BY <1>1, <1>4 DEF Lesser
  <2>5. (L - w) * p = L * p /\ w * p = 0 /\ n - w * p = n
    BY <1>1, <2>3
  <2>. QED BY <1>3, <2>3, <2>4, <2>5
<1>5. CASE p <= n
  <2>1. n \div p >= 1
    <3>. SUFFICES ASSUME n \div p = 0 PROVE FALSE
      BY <1>2
    <3>1. n = (n \div p) * p + (n % p) /\ n % p \in 0..(p - 1)
      BY <1>1, Quotient, Zenon
    <3>2. n % p \in Nat /\ n % p < p /\ (n \div p) * p = 0
      BY <3>1
    <3>. QED BY <1>1, <1>5, <3>1, <3>2
  <2>2. w = 1
    BY <1>2, <2>1 DEF Lesser
  <2>3. (L - w) * p = L * p - p /\ w * p = p
    BY <2>2, SMT
  <2>4. Lesser(n - p, p - 1) >= 0 /\ Lesser(n - p, p - 1) \in Int
    BY <1>1, <1>5 DEF Lesser
  <2>5. Lesser(a, p - 1) = p - 1
    BY <1>1, <1>5 DEF Lesser
  <2>. QED BY <1>3, <2>2, <2>3, <2>4, <2>5
<1>. QED BY <1>1, <1>4, <1>5

\* One cycle, and a word if its budget pays for one, brings the channel nearer to its end.
LEMMA ChannelNearer ==
  ASSUME NEW d, Good(d), NEW c \in {0, 1, CDROM}, c \in Paced, Reversible = {}, Sized
  PROVE  Nearer(d, advance_channel(d, c, 1, Ones), c)
<1>. DEFINE r == advance_channel(d, c, 1, Ones)
            m == After(d, c, 1, Ones)
            w == Words(d, c, 1, Ones)
            n == Budget(d, c, 1)
            p == CyclesPerWord[c]
            on == c \in Paced \cap d.active \cap d.busy \cap d.enabled
<1>1. Ones \in [Paced -> Nat] /\ Ones[c] = 1 /\ 1 \in Nat
  BY Zenon DEF Ones
<1>2. /\ Good(m) /\ Beside(d, m, c)
      /\ m.left[c] = d.left[c] - w /\ m.accum[c] = n - w * p
      /\ m.active = d.active /\ m.busy = d.busy
  BY <1>1, AfterFacts, ZenonT(60)
<1>3. /\ ~on => r = d
      /\ on /\ w > 0 /\ m.left[c] = 0 => r = Finish(m, c)
      /\ on /\ ~(w > 0 /\ m.left[c] = 0) => r = m
  <2>1. /\ ~on \/ Ones[c] = 0 => r = d
        /\ on /\ Ones[c] # 0 /\ w > 0 /\ m.left[c] = 0 => r = Finish(m, c)
        /\ on /\ Ones[c] # 0 /\ ~(w > 0 /\ m.left[c] = 0) => r = m
    BY <1>1, ChannelCases, Zenon
  <2>2. Ones[c] # 0
    BY <1>1
  <2>. HIDE DEF r, m, w, on
  <2>. QED BY <2>1, <2>2, Zenon
<1>4. c \in Channels
  BY Zenon DEF Channels
<1>5. /\ d.left[c] \in Nat /\ d.accum[c] \in 0..MaxAccum /\ p \in Nat \ {0} /\ MaxAccum \in Nat
      /\ p <= MaxAccum
  BY <1>4, Parts, DmaAssumption, Zenon DEF Counts, Budgets, Sized
<1>6. n = Lesser(d.accum[c] + 1, MaxAccum) /\ w = Lesser(Lesser(d.left[c], 1), n \div p)
  BY <1>1, Zenon DEF Budget, Words
<1>. HIDE DEF m, w, n, r
<1>7. ASSUME c \notin d.busy PROVE c \notin r.busy
  BY <1>3, <1>7, Zenon
<1>8. ASSUME Running(d, c) PROVE c \notin r.busy \/ (Running(r, c) /\ Need(r, c) < Need(d, c))
  <2>1. on /\ d.left[c] > 0
    BY <1>8, Zenon DEF Running
  <2>2. /\ w = 0 \/ w = 1
        /\ d.left[c] - w > 0 =>
             (d.left[c] - w) * p - Lesser(n - w * p, p - 1)
               < d.left[c] * p - Lesser(d.accum[c], p - 1)
        /\ d.left[c] - w = 0 => w > 0
    BY <1>5, <1>6, <2>1, OneCycle
  <2>3. CASE d.left[c] - w = 0
    <3>1. r = Finish(m, c)
      BY <1>2, <1>3, <2>1, <2>2, <2>3, Zenon
    <3>2. Finish(m, c).busy = m.busy \ {c}
      BY <1>2, <1>4, FinishGood, Zenon
    <3>. QED BY <3>1, <3>2, Zenon
  <2>4. CASE d.left[c] - w # 0
    <3>1. r = m
      BY <1>2, <1>3, <2>1, <2>4, Zenon
    <3>2. d.left[c] - w > 0
      BY <1>5, <2>1, <2>2, <2>4
    <3>3. m.enabled = d.enabled
      BY <1>2, Zenon DEF Beside
    <3>4. Running(m, c)
      BY <1>2, <2>1, <3>2, <3>3, Zenon DEF Running
    <3>5. Need(m, c) < Need(d, c)
      BY <1>2, <2>2, <3>2, Zenon DEF Need
    <3>. QED BY <3>1, <3>4, <3>5, Zenon
  <2>. QED BY <2>3, <2>4, Zenon
<1>. QED BY <1>7, <1>8, Zenon DEF Nearer, r

\* It gets no nearer and no farther while the others advance.
LEMMA NearerStill ==
  ASSUME NEW d, NEW e, NEW f, NEW r, NEW c, Still(d, e, c), Nearer(e, f, c), Still(f, r, c)
  PROVE  Nearer(d, r, c)
<1>1. (Running(d, c) <=> Running(e, c)) /\ (Running(f, c) <=> Running(r, c))
  BY Zenon DEF Still, Running
<1>2. Need(d, c) = Need(e, c) /\ Need(f, c) = Need(r, c)
  BY Zenon DEF Still, Need
<1>3. (c \in d.busy <=> c \in e.busy) /\ (c \in f.busy <=> c \in r.busy)
  BY Zenon DEF Still
<1>. QED BY <1>1, <1>2, <1>3, Zenon DEF Nearer

\* One cycle of dma_advance brings every running transfer nearer to its end.
LEMMA AdvanceNearer ==
  ASSUME NEW d, Good(d), NEW c \in Paced, Reversible = {}, Sized
  PROVE  Nearer(d, dma_advance(d, 1, Ones), c)
<1>. DEFINE d0 == advance_channel(d, 0, 1, Ones)
            d1 == advance_channel(d0, 1, 1, Ones)
            d3 == advance_channel(d1, CDROM, 1, Ones)
            e2 == advance_delayed_complete(d3, 2, 1)
            e4 == advance_delayed_complete(e2, 4, 1)
<1>0. /\ Ones \in [Paced -> Nat] /\ 1 \in Nat /\ c \in Channels /\ c # 2 /\ c # 4
      /\ c = 0 \/ c = 1 \/ c = CDROM
  BY DmaAssumption DEF Ones, Channels, CDROM
<1>1. dma_advance(d, 1, Ones) = e4
  BY Zenon DEF dma_advance
<1>2. Good(d0) /\ Beside(d, d0, 0) /\ (c = 0 => Nearer(d, d0, c))
  BY <1>0, ChannelGood, ChannelBeside, ChannelNearer, Zenon
<1>. HIDE DEF d0
<1>3. Good(d1) /\ Beside(d0, d1, 1) /\ (c = 1 => Nearer(d0, d1, c))
  BY <1>0, <1>2, ChannelGood, ChannelBeside, ChannelNearer, Zenon
<1>. HIDE DEF d1
<1>4. Good(d3) /\ Beside(d1, d3, CDROM) /\ (c = CDROM => Nearer(d1, d3, c))
  BY <1>0, <1>3, ChannelGood, ChannelBeside, ChannelNearer, Zenon
<1>. HIDE DEF d3
<1>5. Good(e2) /\ Beside(d3, e2, 2)
  BY <1>0, <1>4, DelayedGood, DelayedBeside, Zenon
<1>. HIDE DEF e2
<1>6. Beside(e2, e4, 4)
  BY <1>0, <1>5, DelayedBeside, Zenon
<1>. HIDE DEF e4
<1>7. Still(d3, e4, c)
  <2>1. Still(d3, e2, c) /\ Still(e2, e4, c)
    BY <1>0, <1>5, <1>6, StillBeside, Zenon
  <2>. QED BY <2>1, Zenon DEF Still
<1>8. /\ c # 0 => Still(d, d0, c)
      /\ c # 1 => Still(d0, d1, c)
      /\ c # CDROM => Still(d1, d3, c)
  BY <1>0, <1>2, <1>3, <1>4, StillBeside, Zenon
<1>9. CASE c = 0
  <2>1. Still(d, d, c) /\ Still(d0, e4, c)
    BY <1>7, <1>8, <1>9 DEF Still, CDROM
  <2>. QED BY <1>1, <1>2, <1>9, <2>1, NearerStill, Zenon
<1>10. CASE c = 1
  <2>1. Still(d, d0, c) /\ Still(d1, e4, c)
    BY <1>7, <1>8, <1>10 DEF Still, CDROM
  <2>. QED BY <1>1, <1>3, <1>10, <2>1, NearerStill, Zenon
<1>11. CASE c = CDROM
  <2>1. Still(d, d1, c) /\ Still(d3, e4, c)
    BY <1>7, <1>8, <1>11 DEF Still, CDROM
  <2>. QED BY <1>1, <1>4, <1>11, <2>1, NearerStill, Zenon
<1>. QED BY <1>0, <1>9, <1>10, <1>11, Zenon

\* Every paced transfer in flight has words to go.
Loaded(d) == \A c \in Paced : c \in d.active => d.left[c] > 0

\* It is enough to look at the channel that changed.
LEMMA LoadedBut ==
  ASSUME NEW d, NEW r, NEW c, Loaded(d), Beside(d, r, c),
         c \in Paced /\ c \in r.active => r.left[c] > 0
  PROVE  Loaded(r)
BY Zenon DEF Loaded, Beside, Channels

\* A finished transfer is not in flight.
LEMMA FinishLoaded ==
  ASSUME NEW d, Good(d), NEW c \in Channels,
         Loaded(d) \/ \A b \in Paced \ {c} : b \in d.active => d.left[b] > 0
  PROVE  Loaded(Finish(d, c))
<1>. DEFINE r == Finish(d, c)
<1>1. Beside(d, r, c) /\ r.active = d.active \ {c}
  BY FinishBeside, FinishGood, Zenon
<1>. HIDE DEF r
<1>2. Loaded(r)
  BY <1>1, Zenon DEF Loaded, Beside, Channels
<1>. QED BY <1>2, Zenon DEF r

\* A paced channel that moves its last word finishes.
LEMMA ChannelLoaded ==
  ASSUME NEW d, Good(d), NEW c \in {0, 1, CDROM}, NEW cycles \in Nat,
         NEW avail \in [Paced -> Nat], Reversible = {}, Loaded(d)
  PROVE  Loaded(advance_channel(d, c, cycles, avail))
<1>. DEFINE r == advance_channel(d, c, cycles, avail)
            m == After(d, c, cycles, avail)
            w == Words(d, c, cycles, avail)
            on == c \in Paced \cap d.active \cap d.busy \cap d.enabled
<1>1. CASE ~on \/ avail[c] = 0
  BY <1>1, ChannelCases, Zenon
<1>2. CASE on /\ avail[c] # 0
  <2>1. c \in Paced /\ c \in d.active /\ c \in Channels
    BY <1>2, Zenon DEF Channels
  <2>2. /\ w \in Nat /\ w <= d.left[c] /\ Good(m) /\ Beside(d, m, c)
        /\ m.left[c] = d.left[c] - w /\ m.active = d.active
    BY <2>1, AfterFacts, Zenon
  <2>3. d.left[c] \in Nat /\ d.left[c] > 0
    BY <2>1, Parts, Zenon DEF Counts, Loaded
  <2>4. /\ on /\ avail[c] # 0 /\ w > 0 /\ m.left[c] = 0 => r = Finish(m, c)
        /\ on /\ avail[c] # 0 /\ ~(w > 0 /\ m.left[c] = 0) => r = m
    BY ChannelCases, Zenon
  <2>. HIDE DEF m, w, r
  <2>5. CASE w > 0 /\ m.left[c] = 0
    <3>1. \A b \in Paced \ {c} : b \in m.active => m.left[b] > 0
      BY <2>2, Zenon DEF Beside, Loaded, Channels
    <3>2. Loaded(Finish(m, c))
      BY <2>1, <2>2, <3>1, FinishLoaded, Zenon
    <3>. QED BY <1>2, <2>4, <2>5, <3>2, Zenon DEF r
  <2>6. CASE ~(w > 0 /\ m.left[c] = 0)
    <3>1. m.left[c] > 0
      BY <2>2, <2>3, <2>6
    <3>2. Loaded(m)
      BY <2>2, <3>1, LoadedBut, Zenon
    <3>. QED BY <1>2, <2>4, <2>6, <3>2, Zenon DEF r
  <2>. QED BY <2>5, <2>6, Zenon
<1>. QED BY <1>1, <1>2, Zenon

\* An advance leaves words to go in every paced transfer still in flight.
LEMMA AdvanceLoaded ==
  ASSUME NEW d, Good(d), NEW cycles \in Nat, NEW avail \in [Paced -> Nat], Reversible = {},
         Loaded(d)
  PROVE  Loaded(dma_advance(d, cycles, avail))
<1>. DEFINE d0 == advance_channel(d, 0, cycles, avail)
            d1 == advance_channel(d0, 1, cycles, avail)
            d3 == advance_channel(d1, CDROM, cycles, avail)
            e2 == advance_delayed_complete(d3, 2, cycles)
            e4 == advance_delayed_complete(e2, 4, cycles)
<1>0. 2 \notin Paced /\ 4 \notin Paced
  BY DmaAssumption DEF CDROM
<1>1. dma_advance(d, cycles, avail) = e4
  BY Zenon DEF dma_advance
<1>2. Good(d0) /\ Loaded(d0)
  BY ChannelGood, ChannelLoaded, Zenon
<1>. HIDE DEF d0
<1>3. Good(d1) /\ Loaded(d1)
  BY <1>2, ChannelGood, ChannelLoaded, Zenon
<1>. HIDE DEF d1
<1>4. Good(d3) /\ Loaded(d3)
  BY <1>3, ChannelGood, ChannelLoaded, Zenon
<1>. HIDE DEF d3
<1>5. Good(e2) /\ Beside(d3, e2, 2)
  BY <1>4, DelayedGood, DelayedBeside, Zenon
<1>6. Loaded(e2)
  BY <1>0, <1>4, <1>5, LoadedBut, Zenon
<1>. HIDE DEF e2
<1>7. Beside(e2, e4, 4)
  BY <1>5, DelayedBeside, Zenon
<1>8. Loaded(e4)
  BY <1>0, <1>6, <1>7, LoadedBut
<1>. HIDE DEF e4
<1>. QED BY <1>1, <1>8, Zenon

\* A start never leaves an empty paced transfer in flight: the CD-ROM's finishes at once.
LEMMA TryLoaded ==
  ASSUME NEW d, Good(d), NEW c \in Channels, NEW words \in Nat, Reversible = {}, Loaded(d),
         c \in Paced /\ c # CDROM => words # 0
  PROVE  Loaded(try_execute(d, c, words))
<1>. DEFINE r == try_execute(d, c, words)
            s == Armed(d, c, d.active \cup {c}, words, 0)
            q == complete_transfer(d, c)
            t == Scheduled(d, c, d.active \cup {c}, words * CyclesPerWord[c])
<1>0. c \notin d.reverse /\ d \in DmaController /\ d.left \in Counts /\ d.accum \in Budgets
  BY Parts, Zenon DEF ReverseSets, Good
<1>1. \/ r = d \/ r = q
      \/ c \in Paced /\ (IF words = 0 /\ c = CDROM THEN r = Finish(s, c) ELSE r = s)
      \/ c \in Delayed /\ r = t
  BY <1>0, Zenon DEF try_execute, StartPaced, schedule_delayed_complete, Armed, Scheduled
<1>2. CASE r = d
  BY <1>2, Zenon
<1>3. CASE r = q
  <2>1. q.left = d.left /\ q.active = d.active
    BY CompleteBeside, CompleteGood, Zenon
  <2>. HIDE DEF q, r
  <2>. QED BY <1>3, <2>1, Zenon DEF Loaded, r
<1>4. CASE c \in Paced /\ (IF words = 0 /\ c = CDROM THEN r = Finish(s, c) ELSE r = s)
  <2>1. /\ s.active = d.active \cup {c}
        /\ s.left = [d.left EXCEPT ![c] = words]
    BY <1>0, Zenon DEF Armed, DmaController
  <2>2. Good(s)
    <3>1. MaxAccum \in Nat /\ d.active \cup {c} \in ChannelSets
      BY Parts, SetFacts, DmaAssumption, Zenon
    <3>2. 0 \in 0..MaxAccum
      BY <3>1
    <3>3. Keeps(d, s, d.active \cup {c})
      BY <3>1, <3>2, ArmedGood, Zenon
    <3>. QED BY <3>3, Zenon DEF Keeps
  <2>. HIDE DEF s, r
  <2>3. s.left[c] = words /\ \A b \in Channels \ {c} : s.left[b] = d.left[b]
    BY <1>0, <2>1, TableBeside
  <2>4. \A b \in Paced \ {c} : b \in s.active => s.left[b] > 0
    BY <2>1, <2>3, Zenon DEF Loaded, Channels
  <2>5. CASE words = 0 /\ c = CDROM
    <3>1. Loaded(Finish(s, c))
      BY <2>2, <2>4, FinishLoaded, Zenon
    <3>. QED BY <1>4, <2>5, <3>1, Zenon DEF r
  <2>6. CASE ~(words = 0 /\ c = CDROM)
    <3>1. words > 0
      BY <1>4, <2>6
    <3>2. Loaded(s)
      BY <2>3, <2>4, <3>1, Zenon DEF Loaded
    <3>. QED BY <1>4, <2>6, <3>2, Zenon DEF r
  <2>. QED BY <2>5, <2>6, Zenon
<1>5. CASE c \in Delayed /\ r = t
  <2>1. /\ t.active = d.active \cup {c}
        /\ t.left = [d.left EXCEPT ![c] = words * CyclesPerWord[c]]
    BY <1>0, Zenon DEF Scheduled, DmaController
  <2>2. c \notin Paced
    BY <1>5, Classes, Zenon
  <2>. HIDE DEF t, r
  <2>3. \A b \in Paced : b \in Channels /\ b # c /\ t.left[b] = d.left[b]
    BY <1>0, <2>1, <2>2, Zenon DEF Counts, Channels
  <2>. QED BY <1>5, <2>1, <2>3, Zenon DEF Loaded, r
<1>. HIDE DEF r, s, q, t
<1>6. Loaded(r)
  BY <1>1, <1>2, <1>3, <1>4, <1>5, Zenon DEF r
<1>. QED BY <1>6, Zenon DEF r

\* Every register write and every advance leaves words to go in the transfers in flight.
LEMMA NextLoaded ==
  ASSUME Reversible = {}, Sized, Inv, Loaded(dma), [DmaNext]_dmaVars
  PROVE  Loaded(dma')
<1>0. Good(dma) /\ dma \in DmaController
  BY Zenon DEF Inv, Good
<1>1. ASSUME NEW e, e.left = dma.left, e.active = dma.active PROVE Loaded(e)
  BY <1>1, Zenon DEF Loaded
<1>2. ASSUME NEW on, WriteDPCR(on) PROVE Loaded(dma')
  <2>1. dma'.left = dma.left /\ dma'.active = dma.active
    BY <1>0, <1>2, Zenon DEF WriteDPCR, DmaController
  <2>. QED BY <1>1, <2>1, Zenon
<1>3. ASSUME NEW error, NEW master, NEW en, NEW ack, WriteDICR(error, master, en, ack)
      PROVE  Loaded(dma')
  <2>. DEFINE e == [dma EXCEPT !.bus_error = error, !.master_en = master, !.irq_en = en,
                               !.flags = dma.flags \ ack]
  <2>1. /\ e.left = dma.left /\ e.active = dma.active
        /\ DOMAIN e = DOMAIN dma /\ "left" \in DOMAIN dma /\ "active" \in DOMAIN dma
    BY <1>0, Zenon DEF DmaController
  <2>2. dma' = raise_dma_irq_on_master_edge(dma, e)
    BY <1>3, Zenon DEF WriteDICR
  <2>. HIDE DEF e
  <2>3. dma'.left = dma.left /\ dma'.active = dma.active
    BY <2>1, <2>2, Zenon DEF raise_dma_irq_on_master_edge
  <2>. QED BY <1>1, <2>3, Zenon
<1>4. ASSUME NEW c \in Channels, NEW rev \in {FALSE} \cup {c \in Reversible}
      PROVE  /\ Stop(c, rev) => Loaded(dma')
             /\ \A words \in Lengths[c] : Start(c, rev, words) => Loaded(dma')
  <2>1. rev \in BOOLEAN /\ (rev => c \in Reversible)
    BY <1>4, Zenon
  <2>2. ASSUME NEW B \in ChannelSets
        PROVE  LET e == [Direction(c, rev) EXCEPT !.busy = B] IN
               Good(e) /\ e.active = dma.active /\ e.left = dma.left
    <3>1. LET e == [Direction(c, rev) EXCEPT !.busy = B] IN Good(e) /\ e.active = dma.active
      BY <2>1, ChcrGood, ZenonT(60)
    <3>2. [Direction(c, rev) EXCEPT !.busy = B].left = dma.left
      BY <1>0, Zenon DEF Direction, DmaController
    <3>. QED BY <3>1, <3>2, Zenon
  <2>3. ASSUME Stop(c, rev) PROVE Loaded(dma')
    <3>. DEFINE e == [Direction(c, rev) EXCEPT !.busy = dma.busy \ {c}]
                r == Armed(e, c, e.active \ {c}, 0, 0)
    <3>1. dma.busy \ {c} \in ChannelSets
      BY <1>0, Parts, SetFacts, Zenon
    <3>2. dma' = cancel_async_transfer(e, c)
      BY <1>0, <2>3, Zenon DEF Stop, Direction, DmaController
    <3>3. Good(e) /\ e.active = dma.active /\ e.left = dma.left
      BY <2>2, <3>1, Zenon
    <3>. HIDE DEF e
    <3>4. dma' = r
      BY <3>2, Zenon DEF cancel_async_transfer, Armed
    <3>5. e \in DmaController /\ e.left \in Counts
      BY <3>3, Parts, Zenon DEF Good
    <3>6. r.active = e.active \ {c} /\ r.left = [e.left EXCEPT ![c] = 0]
      BY <3>5, Zenon DEF Armed, DmaController
    <3>. HIDE DEF r
    <3>7. \A b \in Paced \ {c} : r.left[b] = e.left[b]
      BY <3>5, <3>6, Zenon DEF Counts, Channels
    <3>8. Loaded(r)
      BY <3>3, <3>6, <3>7, Zenon DEF Loaded
    <3>. QED BY <3>4, <3>8, Zenon
  <2>4. ASSUME NEW words \in Lengths[c], Start(c, rev, words) PROVE Loaded(dma')
    <3>. DEFINE e == [Direction(c, rev) EXCEPT !.busy = dma.busy \cup {c}]
    <3>1. dma.busy \cup {c} \in ChannelSets
      BY <1>0, Parts, SetFacts, Zenon
    <3>2. dma' = try_execute(e, c, words)
      BY <1>0, <2>4, Zenon DEF Start, Direction, DmaController
    <3>3. Good(e) /\ e.active = dma.active /\ e.left = dma.left
      BY <2>2, <3>1, Zenon
    <3>. HIDE DEF e
    <3>4. Loaded(e)
      BY <1>1, <3>3, Zenon
    <3>5. words \in Nat /\ (c \in Paced /\ c # CDROM => words # 0)
      <4>1. words \in Nat
        BY <2>4, DmaAssumption
      <4>2. c \in Paced /\ c # CDROM => words # 0
        BY <2>4, Zenon DEF Sized
      <4>. QED BY <4>1, <4>2, Zenon
    <3>6. Loaded(try_execute(e, c, words))
      BY <3>3, <3>4, <3>5, TryLoaded, Zenon
    <3>. QED BY <3>2, <3>6, Zenon
  <2>. QED BY <2>3, <2>4, Zenon
<1>5. ASSUME NEW cycles \in 1..MaxDmaStep, NEW avail \in Avail, AdvanceDma(cycles, avail)
      PROVE  Loaded(dma')
  <2>1. cycles \in Nat /\ avail \in [Paced -> Nat]
    BY <1>5, DmaAssumption DEF Avail
  <2>2. Loaded(dma_advance(dma, cycles, avail))
    BY <1>0, <2>1, AdvanceLoaded, Zenon
  <2>. QED BY <1>5, <2>2, Zenon DEF AdvanceDma
<1>6. ASSUME Acknowledge PROVE Loaded(dma')
  <2>1. dma'.left = dma.left /\ dma'.active = dma.active
    BY <1>0, <1>6, Zenon DEF Acknowledge, DmaController
  <2>. QED BY <1>1, <2>1, Zenon
<1>7. ASSUME UNCHANGED dmaVars PROVE Loaded(dma')
  BY <1>7, Zenon DEF dmaVars
<1>. QED
  BY <1>2, <1>3, <1>4, <1>5, <1>6, <1>7, Zenon DEF DmaNext, Uses

\* A controller charged one cycle at a time.
Charged(f, d) ==
  f = [n \in Nat |-> IF n = 0 THEN d ELSE dma_advance(f[n - 1], 1, Ones)]

\* There is such a sequence of controllers.
LEMMA ChargedExists ==
  ASSUME NEW d, Good(d)
  PROVE  \E f : Charged(f, d)
<1>. DEFINE V == {e \in DmaController : Good(e)}
            F == [e \in V |-> dma_advance(e, 1, Ones)]
<1>1. d \in V
  BY Zenon DEF Good
<1>2. F \in [V -> V]
  <2>1. ASSUME NEW e \in V PROVE dma_advance(e, 1, Ones) \in V
    <3>1. Ones \in [Paced -> Nat] /\ 1 \in Nat
      BY Zenon DEF Ones
    <3>2. Good(dma_advance(e, 1, Ones))
      BY <3>1, AdvanceGood, Zenon
    <3>. QED BY <3>2, Zenon DEF Good
  <2>. QED BY <2>1, Zenon
<1>3. PICK f \in [Nat -> V] : Iterates(f, d, F)
  <2>. HIDE DEF V, F
  <2>. QED BY <1>1, <1>2, IterationExists, Zenon
<1>4. \A n \in Nat : f[n] = IF n = 0 THEN d ELSE dma_advance(f[n - 1], 1, Ones)
  <2>. SUFFICES ASSUME NEW n \in Nat
                PROVE  f[n] = IF n = 0 THEN d ELSE dma_advance(f[n - 1], 1, Ones)
    BY Zenon
  <2>1. CASE n = 0
    BY <1>3, <2>1, Zenon DEF Iterates
  <2>2. CASE n # 0
    <3>1. PICK m \in Nat : n = m + 1 /\ n - 1 = m
      <4>1. n - 1 \in Nat /\ n = (n - 1) + 1
        BY <2>2
      <4>. QED BY <4>1, Zenon
    <3>2. f[m + 1] = F[f[m]] /\ f[m] \in V
      BY <1>3, Zenon DEF Iterates
    <3>3. F[f[m]] = dma_advance(f[m], 1, Ones)
      BY <3>2, Zenon
    <3>. QED BY <2>2, <3>1, <3>2, <3>3, Zenon
  <2>. QED BY <2>1, <2>2, Zenon
<1>. HIDE DEF V
<1>5. Charged(f, d)
  BY <1>4, Zenon DEF Charged
<1>. QED BY <1>5, Zenon

\* After so many single cycles the transfer has finished, or has come that much nearer.
LEMMA ChargedNearer ==
  ASSUME NEW d, Good(d), NEW f, Charged(f, d), NEW c \in Paced, Running(d, c),
         Reversible = {}, Sized
  PROVE  \A n \in Nat : /\ Good(f[n])
                        /\ \/ c \notin f[n].busy
                           \/ Running(f[n], c) /\ Need(f[n], c) + n <= Need(d, c)
<1>0. ASSUME NEW e, Good(e) PROVE Need(e, c) \in Int
  <2>1. /\ e.left[c] \in Nat /\ e.accum[c] \in 0..MaxAccum /\ MaxAccum \in Nat
        /\ CyclesPerWord[c] \in Nat \ {0}
    BY <1>0, Parts, DmaAssumption DEF Counts, Budgets, Channels
  <2>2. e.left[c] * CyclesPerWord[c] \in Nat
    BY <2>1, SMT
  <2>3. Lesser(e.accum[c], CyclesPerWord[c] - 1) \in Nat
    BY <2>1 DEF Lesser
  <2>. QED BY <2>2, <2>3 DEF Need
<1>. DEFINE P(n) == /\ Good(f[n])
                    /\ \/ c \notin f[n].busy
                       \/ Running(f[n], c) /\ Need(f[n], c) + n <= Need(d, c)
            N == {n \in Nat : P(n)}
<1>1. f[0] = d /\ \A n \in Nat : f[n + 1] = dma_advance(f[n], 1, Ones)
  <2>1. \A n \in Nat : f[n] = IF n = 0 THEN d ELSE dma_advance(f[n - 1], 1, Ones)
    BY Zenon DEF Charged
  <2>2. f[0] = d
    BY <2>1, Zenon
  <2>3. ASSUME NEW n \in Nat PROVE f[n + 1] = dma_advance(f[n], 1, Ones)
    <3>1. n + 1 \in Nat /\ n + 1 # 0 /\ (n + 1) - 1 = n
      OBVIOUS
    <3>. QED BY <2>1, <3>1, Zenon
  <2>. QED BY <2>2, <2>3, Zenon
<1>2. 0 \in N
  <2>1. Need(d, c) + 0 <= Need(d, c)
    BY <1>0
  <2>. QED BY <1>1, <2>1, Zenon
<1>3. ASSUME NEW n \in N PROVE n + 1 \in N
  <2>. DEFINE e == f[n]
              r == f[n + 1]
  <2>1. n \in Nat /\ Good(e) /\ (c \notin e.busy \/ (Running(e, c) /\ Need(e, c) + n <= Need(d, c)))
    BY Zenon
  <2>2. r = dma_advance(e, 1, Ones)
    BY <1>1, Zenon
  <2>. HIDE DEF e, r
  <2>3. Good(r)
    <3>1. Ones \in [Paced -> Nat] /\ 1 \in Nat
      BY Zenon DEF Ones
    <3>. QED BY <2>1, <2>2, <3>1, AdvanceGood, Zenon
  <2>4. Nearer(e, r, c)
    BY <2>1, <2>2, AdvanceNearer, Zenon
  <2>5. Need(d, c) \in Int /\ Need(e, c) \in Int /\ Need(r, c) \in Int
    BY <1>0, <2>1, <2>3, Zenon
  <2>6. c \notin r.busy \/ (Running(r, c) /\ Need(r, c) < Need(e, c) /\ Need(e, c) + n <= Need(d, c))
    BY <2>1, <2>4, Zenon DEF Nearer
  <2>7. c \notin r.busy \/ (Running(r, c) /\ Need(r, c) + (n + 1) <= Need(d, c))
    BY <2>1, <2>5, <2>6
  <2>. QED BY <2>1, <2>3, <2>7 DEF r
<1>4. N \in SUBSET Nat
  BY Zenon
<1>. HIDE DEF N
<1>5. N = Nat
  BY <1>2, <1>3, <1>4, CountInduction, Zenon
<1>. QED BY <1>5, Zenon DEF N

\* A running transfer needs at least one more cycle, and no more than its words cost.
LEMMA NeedBounds ==
  ASSUME NEW d, Good(d), NEW c \in Paced, Running(d, c)
  PROVE  /\ d.left[c] * CyclesPerWord[c] \in Nat /\ Need(d, c) \in Int
         /\ Need(d, c) >= 1 /\ Need(d, c) <= d.left[c] * CyclesPerWord[c]
<1>1. /\ d.left[c] \in Nat /\ d.left[c] > 0 /\ d.accum[c] \in 0..MaxAccum /\ MaxAccum \in Nat
      /\ CyclesPerWord[c] \in Nat \ {0}
  BY Parts, DmaAssumption DEF Counts, Budgets, Channels, Running
<1>. DEFINE L == d.left[c]
            p == CyclesPerWord[c]
            k == Lesser(d.accum[c], p - 1)
<1>2. k \in Nat /\ k <= p - 1
  BY <1>1 DEF Lesser
<1>3. Need(d, c) = L * p - k
  BY Zenon DEF Need
<1>. HIDE DEF k, L, p
<1>4. L \in Nat /\ L > 0 /\ p \in Nat \ {0}
  BY <1>1, Zenon DEF L, p
<1>5. L * p \in Nat /\ L * p >= p
  BY <1>4, SMT
<1>6. Need(d, c) \in Int /\ Need(d, c) >= 1 /\ Need(d, c) <= L * p
  BY <1>2, <1>3, <1>4, <1>5
<1>. QED BY <1>5, <1>6, Zenon DEF L, p

\* A paced transfer finishes in the time its words cost, charged one cycle at a time, if
\* its device keeps up, for every set of channels, lengths and word costs that fit the
\* budget, provided no channel is started against its device's direction.
THEOREM PacedAlwaysFinishes == Reversible = {} /\ Sized => (DmaSpec => []PacedFinishes)
<1>. SUFFICES ASSUME Reversible = {}, Sized PROVE DmaSpec => []PacedFinishes
  BY Zenon
<1>1. DmaInit => Inv /\ Loaded(dma)
  BY InitInv, SMTT(60) DEF DmaInit, dma_init, Loaded
<1>2. (Inv /\ Loaded(dma)) /\ [DmaNext]_dmaVars => (Inv /\ Loaded(dma))'
  BY NextInv, NextLoaded, Zenon
<1>3. Inv /\ Loaded(dma) => PacedFinishes
  <2>. SUFFICES ASSUME Inv, Loaded(dma), NEW c \in Paced \cap dma.active \cap dma.busy \cap dma.enabled
                PROVE  LET single[n \in Nat] ==
                             IF n = 0 THEN dma
                             ELSE dma_advance(single[n - 1], 1, [p \in Paced |-> 1])
                       IN c \notin single[dma.left[c] * CyclesPerWord[c]].busy
    BY Zenon DEF PacedFinishes
  <2>. DEFINE single[n \in Nat] ==
                IF n = 0 THEN dma ELSE dma_advance(single[n - 1], 1, [p \in Paced |-> 1])
              k == dma.left[c] * CyclesPerWord[c]
  <2>1. Good(dma) /\ c \in Paced /\ Running(dma, c)
    BY Zenon DEF Inv, Loaded, Running
  <2>2. Charged(single, dma)
    <3>1. \E f : f = [n \in Nat |-> IF n = 0 THEN dma
                                    ELSE dma_advance(f[n - 1], 1, [p \in Paced |-> 1])]
      BY <2>1, ChargedExists, Zenon DEF Charged, Ones
    <3>2. single = [n \in Nat |-> IF n = 0 THEN dma
                                  ELSE dma_advance(single[n - 1], 1, [p \in Paced |-> 1])]
      BY <3>1, Zenon
    <3>. HIDE DEF single
    <3>. QED BY <3>2, Zenon DEF Charged, Ones
  <2>. HIDE DEF single
  <2>3. k \in Nat /\ Need(dma, c) \in Int /\ Need(dma, c) <= k
    BY <2>1, NeedBounds, Zenon
  <2>. HIDE DEF k
  <2>4. Good(single[k]) /\ (c \notin single[k].busy
                            \/ (Running(single[k], c) /\ Need(single[k], c) + k <= Need(dma, c)))
    BY <2>1, <2>2, <2>3, ChargedNearer, Zenon
  <2>5. Running(single[k], c) => Need(single[k], c) \in Int /\ Need(single[k], c) >= 1
    BY <2>1, <2>4, NeedBounds, Zenon
  <2>6. c \notin single[k].busy
    BY <2>3, <2>4, <2>5
  <2>. QED BY <2>6, Zenon DEF single, k
<1>. QED
  BY <1>1, <1>2, <1>3, PTL DEF DmaSpec

-----------------------------------------------------------------------------
(* The decoder's output *)

\* The decoder's states.
Decoder ==
  [busy : BOOLEAN, decode : BOOLEAN, left : Nat, yield : Nat, out : Nat, lost : BOOLEAN]

\* A word keeps a decoder one, and loses nothing if it was ready for the word.
LEMMA WordKeeps ==
  ASSUME NEW m \in Decoder, NEW c \in Commands
  PROVE  /\ write_data(m, c) \in Decoder
         /\ mdec_dma_write_ready(m) => write_data(m, c).lost = m.lost
<1>1. c.decode \in BOOLEAN /\ c.words \in Nat /\ c.yield \in Nat
  BY MdecAssumption, Zenon
<1>. DEFINE b == [m EXCEPT !.busy = TRUE, !.decode = c.decode, !.left = c.words, !.yield = c.yield]
            w == [m EXCEPT !.left = m.left - 1]
            x == [w EXCEPT !.lost = w.lost \/ w.out > 0, !.out = w.yield]
<1>2. b \in Decoder /\ b.lost = m.lost
  BY <1>1, Zenon DEF Decoder
<1>3. m.left # 0 => w \in Decoder /\ w.lost = m.lost /\ w.out = m.out
  BY DEF Decoder
<1>4. w \in Decoder => x \in Decoder /\ (w.out = 0 => x.lost = w.lost)
  <2>. SUFFICES ASSUME w \in Decoder PROVE x \in Decoder /\ (w.out = 0 => x.lost = w.lost)
    BY Zenon
  <2>. HIDE DEF w
  <2>1. (w.lost \/ w.out > 0) \in BOOLEAN /\ w.yield \in Nat /\ w.lost \in BOOLEAN
    BY Zenon DEF Decoder
  <2>2. x.lost = (w.lost \/ w.out > 0)
    BY Zenon DEF Decoder
  <2>3. x \in Decoder
    BY <2>1, Zenon DEF Decoder
  <2>4. w.out = 0 => ~(w.out > 0)
    OBVIOUS
  <2>5. w.out = 0 => (w.lost \/ w.out > 0) = w.lost
    BY <2>1, <2>4, Zenon
  <2>. QED BY <2>2, <2>3, <2>5, Zenon
<1>5. ASSUME NEW e \in Decoder PROVE finish_command(e) \in Decoder /\ finish_command(e).lost = e.lost
  BY Zenon DEF finish_command, Decoder
<1>6. begin_command(m, c) = b \/ begin_command(m, c) = finish_command(b)
  BY Zenon DEF begin_command
<1>7. execute_command(w) = finish_command(x) \/ execute_command(w) = finish_command(w)
  BY Zenon DEF execute_command
<1>8. \/ write_data(m, c) = begin_command(m, c)
      \/ m.left # 0 /\ (write_data(m, c) = execute_command(w) \/ write_data(m, c) = w)
  BY Zenon DEF write_data
<1>9. mdec_dma_write_ready(m) => m.out = 0
  BY Zenon DEF mdec_dma_write_ready
<1>. HIDE DEF b, w, x
<1>10. begin_command(m, c) \in Decoder /\ begin_command(m, c).lost = m.lost
  BY <1>2, <1>5, <1>6, Zenon
<1>11. m.left # 0 => /\ execute_command(w) \in Decoder
                     /\ m.out = 0 => execute_command(w).lost = m.lost
  BY <1>3, <1>4, <1>5, <1>7, Zenon
<1>. QED BY <1>3, <1>8, <1>9, <1>10, <1>11, Zenon

\* f is what so many words make of the decoder m.
Feeds(f, m, c) ==
  f = [n \in 0 .. MdecWords |-> IF n = 0 THEN m ELSE write_data(f[n - 1], c)]

\* Fed is such a sequence.
LEMMA FedFeeds ==
  ASSUME NEW m \in Decoder, NEW c \in Commands
  PROVE  Feeds(Fed(m, c), m, c)
<1>. DEFINE F == [e \in Decoder |-> write_data(e, c)]
            fed[n \in 0 .. MdecWords] ==
              IF n = 0 THEN m ELSE LET before == fed[n - 1] IN write_data(before, c)
<1>0. MdecWords \in Nat
  BY MdecAssumption, Zenon
<1>1. F \in [Decoder -> Decoder]
  BY WordKeeps, Zenon
<1>2. PICK g \in [Nat -> Decoder] : Iterates(g, m, F)
  <2>. HIDE DEF F
  <2>. QED BY <1>1, IterationExists, Zenon
<1>. DEFINE f == [n \in 0 .. MdecWords |-> g[n]]
<1>3. \A n \in 0 .. MdecWords : f[n] = IF n = 0 THEN m ELSE write_data(f[n - 1], c)
  <2>. SUFFICES ASSUME NEW n \in 0 .. MdecWords
                PROVE  f[n] = IF n = 0 THEN m ELSE write_data(f[n - 1], c)
    BY Zenon
  <2>1. CASE n = 0
    BY <1>0, <1>2, <2>1, Zenon DEF Iterates
  <2>2. CASE n # 0
    <3>1. PICK k \in Nat : n = k + 1 /\ n - 1 = k /\ k \in 0 .. MdecWords
      <4>1. n - 1 \in Nat /\ n = (n - 1) + 1 /\ n - 1 \in 0 .. MdecWords
        BY <1>0, <2>2
      <4>. QED BY <4>1, Zenon
    <3>2. g[k + 1] = F[g[k]] /\ g[k] \in Decoder
      BY <1>2, Zenon DEF Iterates
    <3>3. F[g[k]] = write_data(g[k], c)
      BY <3>2, Zenon
    <3>4. f[n] = g[k + 1] /\ f[k] = g[k]
      BY <3>1, Zenon
    <3>. QED BY <2>2, <3>1, <3>2, <3>3, <3>4, Zenon
  <2>. QED BY <2>1, <2>2, Zenon
<1>4. f = [n \in 0 .. MdecWords |-> IF n = 0 THEN m ELSE write_data(f[n - 1], c)]
  <2>1. f = [n \in 0 .. MdecWords |-> f[n]]
    BY Zenon
  <2>. HIDE DEF f
  <2>. QED BY <1>3, <2>1, Zenon
<1>. HIDE DEF f
<1>5. fed = [n \in 0 .. MdecWords |-> IF n = 0 THEN m ELSE write_data(fed[n - 1], c)]
  <2>1. \E h : h = [n \in 0 .. MdecWords |-> IF n = 0 THEN m ELSE write_data(h[n - 1], c)]
    BY <1>4, Zenon
  <2>. QED BY <2>1, Zenon
<1>6. Fed(m, c) = [n \in 0 .. MdecWords |-> fed[n]]
  BY Zenon DEF Fed
<1>. HIDE DEF fed
<1>7. Fed(m, c) = fed
  BY <1>5, <1>6, Zenon
<1>. QED BY <1>5, <1>7, Zenon DEF Feeds

\* Words it is ready for lose nothing.
LEMMA FedKeeps ==
  ASSUME NEW m \in Decoder, NEW c \in Commands, NEW f, Feeds(f, m, c)
  PROVE  \A n \in 0 .. MdecWords :
           /\ f[n] \in Decoder
           /\ (\A i \in 0 .. n - 1 : mdec_dma_write_ready(f[i])) => f[n].lost = m.lost
<1>. DEFINE P(n) == /\ f[n] \in Decoder
                    /\ (\A i \in 0 .. n - 1 : mdec_dma_write_ready(f[i])) => f[n].lost = m.lost
            N == {n \in Nat : n <= MdecWords => P(n)}
<1>0. MdecWords \in Nat
  BY MdecAssumption, Zenon
<1>1. \A n \in 0 .. MdecWords : f[n] = IF n = 0 THEN m ELSE write_data(f[n - 1], c)
  BY Zenon DEF Feeds
<1>2. 0 \in N
  BY <1>0, <1>1
<1>3. ASSUME NEW n \in N PROVE n + 1 \in N
  <2>. SUFFICES ASSUME n + 1 <= MdecWords PROVE P(n + 1)
    OBVIOUS
  <2>1. /\ n \in Nat /\ n + 1 \in 0 .. MdecWords /\ n + 1 # 0 /\ (n + 1) - 1 = n
        /\ n <= MdecWords /\ n \in 0 .. n /\ \A i \in 0 .. n - 1 : i \in 0 .. n
    BY <1>0
  <2>2. P(n)
    BY <2>1, Zenon
  <2>3. f[n + 1] = write_data(f[n], c)
    BY <1>1, <2>1, Zenon
  <2>4. /\ write_data(f[n], c) \in Decoder
        /\ mdec_dma_write_ready(f[n]) => write_data(f[n], c).lost = f[n].lost
    BY <2>2, WordKeeps, Zenon
  <2>5. ASSUME \A i \in 0 .. (n + 1) - 1 : mdec_dma_write_ready(f[i])
        PROVE  f[n + 1].lost = m.lost
    BY <2>1, <2>2, <2>3, <2>4, <2>5, Zenon
  <2>. QED BY <2>3, <2>4, <2>5, Zenon
<1>4. N \in SUBSET Nat
  BY Zenon
<1>. HIDE DEF N
<1>5. N = Nat
  BY <1>2, <1>3, <1>4, CountInduction, Zenon
<1>6. \A n \in 0 .. MdecWords : n \in Nat /\ n <= MdecWords
  BY <1>0
<1>. QED BY <1>5, <1>6, Zenon DEF N

\* Taken is a number of words the decoder is ready for.
LEMMA TakenReady ==
  ASSUME NEW f
  PROVE  /\ Taken(f) \in 0 .. MdecWords
         /\ \A i \in 0 .. Taken(f) - 1 : mdec_dma_write_ready(f[i])
<1>. DEFINE T == {n \in 0 .. MdecWords : n < MdecWords => ~mdec_dma_write_ready(f[n])}
<1>0. MdecWords \in Nat
  BY MdecAssumption, Zenon
<1>1. T \in SUBSET Nat /\ MdecWords \in T
  BY <1>0
<1>2. PICK k \in T : \A j \in T : k <= j
  BY <1>1, LeastCount, Zenon
<1>3. \A i \in 0 .. k - 1 : mdec_dma_write_ready(f[i])
  BY <1>0, <1>2
<1>4. k \in 0 .. MdecWords /\ (k < MdecWords => ~mdec_dma_write_ready(f[k]))
  BY Zenon
<1>. HIDE DEF T
<1>. QED BY <1>3, <1>4, Zenon DEF Taken

\* A finished transfer has no words to go.
LEMMA FinishLeft ==
  ASSUME NEW d, Good(d), NEW c \in Channels
  PROVE  Finish(d, c).left[c] = 0
<1>. DEFINE q == cancel_async_transfer(d, c)
<1>1. d \in DmaController /\ d.left \in Counts /\ 0 \in Nat
  BY Parts, Zenon DEF Good
<1>2. q = Armed(d, c, d.active \ {c}, 0, 0)
  BY Zenon DEF cancel_async_transfer, Armed
<1>3. Good(q) /\ Finish(d, c) = complete_transfer(q, c)
  BY FinishGood, Zenon DEF Finish
<1>. HIDE DEF q
<1>4. q.left = [d.left EXCEPT ![c] = 0]
  BY <1>1, <1>2, Zenon DEF Armed, DmaController
<1>5. complete_transfer(q, c).left = q.left
  BY <1>3, CompleteBeside, Zenon
<1>. QED BY <1>1, <1>3, <1>4, <1>5, TableBeside

\* A paced channel moves no more words than its device is ready for.
LEMMA MovesReady ==
  ASSUME NEW d, Good(d), NEW c \in {0, 1, CDROM}, c \in Paced, c \notin d.reverse,
         NEW cycles \in Nat, NEW avail \in [Paced -> Nat]
  PROVE  LET r == advance_channel(d, c, cycles, avail) IN
         d.left[c] - r.left[c] \in 0 .. avail[c] /\ r.reverse = d.reverse
<1>. DEFINE r == advance_channel(d, c, cycles, avail)
            m == After(d, c, cycles, avail)
            w == Words(d, c, cycles, avail)
            on == c \in Paced \cap d.active \cap d.busy \cap d.enabled
<1>1. c \in Channels /\ avail[c] \in Nat
  BY Zenon DEF Channels
<1>2. d.left[c] \in Nat
  BY <1>1, Parts, Zenon DEF Counts
<1>3. /\ w \in Nat /\ w <= d.left[c] /\ w <= avail[c] /\ Good(m) /\ Beside(d, m, c)
      /\ m.left[c] = d.left[c] - w
  BY AfterFacts
<1>4. \/ r = d
      \/ r = m
      \/ r = Finish(m, c) /\ m.left[c] = 0
  BY ForwardCases
<1>. HIDE DEF r, m, w
<1>5. Finish(m, c).left[c] = 0 /\ Beside(m, Finish(m, c), c)
  BY <1>1, <1>3, FinishLeft, FinishBeside, Zenon
<1>6. r.left[c] = d.left[c] \/ r.left[c] = d.left[c] - w
  BY <1>3, <1>4, <1>5, Zenon
<1>7. r.reverse = d.reverse
  BY <1>3, <1>4, <1>5, Zenon DEF Beside
<1>8. d.left[c] - r.left[c] \in 0 .. avail[c]
  BY <1>1, <1>2, <1>3, <1>6
<1>. QED BY <1>7, <1>8, Zenon DEF r

\* A start leaves the direction bits alone.
LEMMA TryReverse ==
  ASSUME NEW d, Good(d), NEW c \in Channels, NEW words \in Nat
  PROVE  try_execute(d, c, words).reverse = d.reverse
<1>. DEFINE r == try_execute(d, c, words)
            s == Armed(d, c, d.active \cup {c}, words, 0)
            q == complete_transfer(d, c)
            t == Scheduled(d, c, d.active \cup {c}, words * CyclesPerWord[c])
            u == [d EXCEPT !.busy = d.busy \ {c}]
<1>0. d \in DmaController /\ MaxAccum \in Nat /\ d.active \cup {c} \in ChannelSets
  BY Parts, SetFacts, DmaAssumption, Zenon DEF Good
<1>1. r = d \/ r = u \/ r = q \/ r = s \/ r = Finish(s, c) \/ r = t
  BY Zenon DEF try_execute, StartPaced, schedule_delayed_complete, Armed, Scheduled
<1>2. q.reverse = d.reverse
  BY CompleteBeside, Zenon
<1>3. s.reverse = d.reverse /\ t.reverse = d.reverse /\ u.reverse = d.reverse
  BY <1>0, Zenon DEF Armed, Scheduled, DmaController
<1>4. Good(s)
  <2>1. 0 \in 0..MaxAccum
    BY <1>0
  <2>2. Keeps(d, s, d.active \cup {c})
    BY <1>0, <2>1, ArmedGood, Zenon
  <2>. QED BY <2>2, Zenon DEF Keeps
<1>. HIDE DEF r, s, q, t, u
<1>5. Finish(s, c).reverse = d.reverse
  BY <1>3, <1>4, FinishBeside, Zenon DEF Beside
<1>6. r.reverse = d.reverse
  BY <1>1, <1>2, <1>3, <1>5, Zenon
<1>. QED BY <1>6, Zenon DEF r

\* The inductive invariant: a good controller that drives both channels the decoder's way,
\* and a decoder that has lost nothing.
StreamInv == Inv /\ dma.reverse = {} /\ mdec \in Decoder /\ ~mdec.lost

\* An advance of the two channels feeds words the decoder is ready for and takes words it
\* has.
LEMMA AdvanceStream ==
  ASSUME StreamInv, NEW cycles \in 1 .. MaxDmaStep, NEW c \in Commands, AdvanceMdec(cycles, c)
  PROVE  StreamInv'
<1>. DEFINE Avl(n) == [p \in Paced |-> n]
            fed == Fed(mdec, c)
            k == Taken(fed)
            d0 == advance_channel(dma, 0, cycles, Avl(k))
            i == dma.left[0] - d0.left[0]
            m0 == fed[i]
            d1 == advance_channel(d0, 1, cycles, Avl(m0.out))
            j == d0.left[1] - d1.left[1]
<1>0. /\ Good(dma) /\ cycles \in Nat /\ 0 \in Paced /\ 1 \in Paced /\ MdecWords \in Nat
      /\ dma.reverse = {} /\ mdec \in Decoder /\ mdec.lost = FALSE
  BY DmaAssumption, MdecAssumption DEF StreamInv, Inv, Decoder
<1>1. dma' = d1 /\ mdec' = mdec_dma_read_word(m0, j)
  BY Zenon DEF AdvanceMdec
<1>2. Feeds(fed, mdec, c)
  BY <1>0, FedFeeds, Zenon
<1>. HIDE DEF fed
<1>3. k \in 0 .. MdecWords /\ \A x \in 0 .. k - 1 : mdec_dma_write_ready(fed[x])
  BY TakenReady, Zenon
<1>. HIDE DEF k
<1>4. Avl(k) \in [Paced -> Nat] /\ Avl(k)[0] = k
  BY <1>0, <1>3
<1>5. i \in 0 .. k /\ d0.reverse = {}
  <2>1. 0 \in {0, 1, CDROM} /\ 0 \notin dma.reverse
    BY <1>0, Zenon
  <2>2. i \in 0 .. Avl(k)[0] /\ d0.reverse = dma.reverse
    BY <1>0, <1>4, <2>1, MovesReady, ZenonT(60)
  <2>. QED BY <1>0, <1>4, <2>2, Zenon
<1>6. Good(d0) /\ (Idle(dma) => Idle(d0))
  BY <1>0, <1>4, ChannelGood, Zenon
<1>. HIDE DEF d0, i
<1>7. i \in 0 .. MdecWords /\ \A x \in 0 .. i - 1 : mdec_dma_write_ready(fed[x])
  BY <1>0, <1>3, <1>5
<1>8. m0 \in Decoder /\ m0.lost = FALSE
  BY <1>0, <1>2, <1>7, FedKeeps
<1>. HIDE DEF m0
<1>9. m0.out \in Nat
  BY <1>8, Zenon DEF Decoder
<1>10. Avl(m0.out) \in [Paced -> Nat] /\ Avl(m0.out)[1] = m0.out
  BY <1>0, <1>9, Zenon
<1>11. j \in 0 .. m0.out /\ d1.reverse = {}
  <2>1. 1 \in {0, 1, CDROM} /\ 1 \notin d0.reverse
    BY <1>5, Zenon
  <2>2. j \in 0 .. Avl(m0.out)[1] /\ d1.reverse = d0.reverse
    BY <1>0, <1>6, <1>10, <2>1, MovesReady, ZenonT(60)
  <2>. QED BY <1>5, <1>10, <2>2, Zenon
<1>12. Good(d1) /\ (Idle(d0) => Idle(d1))
  BY <1>0, <1>6, <1>10, ChannelGood, Zenon
<1>. HIDE DEF d1, j
<1>13. mdec' \in Decoder /\ mdec'.lost = FALSE
  BY <1>1, <1>8, <1>9, <1>11 DEF mdec_dma_read_word, Decoder
<1>14. Good(dma') /\ (Ordinary => Idle(dma')) /\ dma'.reverse = {}
  BY <1>1, <1>6, <1>11, <1>12, Zenon DEF StreamInv, Inv
<1>15. Inv'
  BY <1>14, Zenon DEF Inv, Good, Idle, Ordinary, dicr_master_flag
<1>. QED BY <1>13, <1>14, <1>15, Zenon DEF StreamInv

\* Both devices start empty.
LEMMA InitStream == MdecInit => StreamInv
<1>. SUFFICES ASSUME MdecInit PROVE StreamInv
  BY Zenon
<1>1. MaxAccum \in Nat
  BY DmaAssumption, Zenon
<1>2. 0 \in 0..MaxAccum /\ 0 \in Nat
  BY <1>1
<1>3. [c \in Channels |-> 0] \in Budgets /\ [c \in Channels |-> 0] \in Counts
  BY <1>2, Zenon DEF Budgets, Counts
<1>4. {} \in ChannelSets /\ {} \in ReverseSets /\ {0, 1} \in ChannelSets
  BY MdecAssumption, Zenon DEF ChannelSets, ReverseSets, Channels
<1>5. dma \in DmaController
  BY <1>2, <1>3, <1>4, Zenon DEF MdecInit, dma_init, DmaController
<1>6. /\ dma.raised = 0 /\ dma.active = {} /\ dma.flags = {} /\ dma.bus_error = FALSE
      /\ dma.reverse = {}
  BY Zenon DEF MdecInit, dma_init
<1>7. mdec \in Decoder /\ ~mdec.lost
  BY Zenon DEF MdecInit, mdec_init, Decoder
<1>. QED
  BY <1>5, <1>6, <1>7, Zenon DEF StreamInv, Inv, Good, Idle, dicr_master_flag

\* A start or a stop of one of the two channels keeps the controller good.
LEMMA StreamChcr ==
  ASSUME StreamInv, NEW c \in {0, 1}
  PROVE  /\ Stop(c, FALSE) => Inv' /\ dma'.reverse = {}
         /\ \A n \in Lengths[c] : Start(c, FALSE, n) => Inv' /\ dma'.reverse = {}
<1>0. /\ c \in Channels /\ Inv /\ Good(dma) /\ dma \in DmaController /\ dma.reverse = {}
      /\ dma.busy \cup {c} \in ChannelSets /\ dma.busy \ {c} \in ChannelSets
  <2>1. c \in Channels /\ Inv /\ Good(dma) /\ dma \in DmaController /\ dma.reverse = {}
    BY MdecAssumption, Zenon DEF StreamInv, Inv, Good, Channels
  <2>. QED BY <2>1, Parts, SetFacts, Zenon
<1>1. ASSUME NEW B \in ChannelSets
      PROVE  LET e == [Direction(c, FALSE) EXCEPT !.busy = B] IN Good(e) /\ e.reverse = {}
  <2>1. LET e == [Direction(c, FALSE) EXCEPT !.busy = B] IN Good(e)
    BY <1>0, ChcrGood, Zenon
  <2>2. [Direction(c, FALSE) EXCEPT !.busy = B].reverse = {}
    BY <1>0, Zenon DEF Direction, DmaController
  <2>. QED BY <2>1, <2>2, Zenon
<1>2. ASSUME Stop(c, FALSE) PROVE Inv' /\ dma'.reverse = {}
  <2>. DEFINE e == [Direction(c, FALSE) EXCEPT !.busy = dma.busy \ {c}]
  <2>1. DmaNext
    BY <1>0, <1>2, Zenon DEF DmaNext, Uses
  <2>2. Inv'
    BY <1>0, <2>1, NextInv, Zenon
  <2>3. dma' = cancel_async_transfer(e, c)
    BY <1>0, <1>2, Zenon DEF Stop, Direction, DmaController
  <2>4. Good(e) /\ e.reverse = {}
    BY <1>0, <1>1, Zenon
  <2>. HIDE DEF e
  <2>5. dma'.reverse = {}
    BY <2>3, <2>4, Zenon DEF cancel_async_transfer, Good, DmaController
  <2>. QED BY <2>2, <2>5, Zenon
<1>3. ASSUME NEW n \in Lengths[c], Start(c, FALSE, n) PROVE Inv' /\ dma'.reverse = {}
  <2>. DEFINE e == [Direction(c, FALSE) EXCEPT !.busy = dma.busy \cup {c}]
  <2>1. DmaNext
    BY <1>0, <1>3, Zenon DEF DmaNext, Uses
  <2>2. Inv'
    BY <1>0, <2>1, NextInv, Zenon
  <2>3. dma' = try_execute(e, c, n)
    BY <1>0, <1>3, Zenon DEF Start, Direction, DmaController
  <2>4. Good(e) /\ e.reverse = {}
    BY <1>0, <1>1, Zenon
  <2>. HIDE DEF e
  <2>5. n \in Nat
    BY <1>0, <1>3, DmaAssumption
  <2>6. dma'.reverse = {}
    BY <1>0, <2>3, <2>4, <2>5, TryReverse, Zenon
  <2>. QED BY <2>2, <2>6, Zenon
<1>. QED BY <1>2, <1>3, Zenon

\* Every step of the decoder, its channels and its program preserves the invariant.
LEMMA NextStream == StreamInv /\ [MdecNext]_mdecVars => StreamInv'
<1>. SUFFICES ASSUME StreamInv, [MdecNext]_mdecVars PROVE StreamInv'
  BY Zenon
<1>0. Inv /\ dma.reverse = {} /\ mdec \in Decoder /\ mdec.lost = FALSE
  BY Zenon DEF StreamInv, Decoder
<1>1. ASSUME UNCHANGED dma PROVE Inv' /\ dma'.reverse = {}
  BY <1>0, <1>1, Zenon DEF Inv, Good, Idle, Ordinary, dicr_master_flag
<1>2. CASE TimePasses
  BY <1>2, AdvanceStream, Zenon DEF TimePasses
<1>3. CASE StartIn \/ StopIn \/ StartOut
  <2>1. Inv' /\ dma'.reverse = {} /\ mdec' = mdec
    BY <1>3, StreamChcr, Zenon DEF StartIn, StopIn, StartOut
  <2>. QED BY <1>0, <2>1, Zenon DEF StreamInv
<1>4. ASSUME NEW c \in Commands, CpuWrite(c) PROVE StreamInv'
  <2>. DEFINE m == write_data(mdec, c)
  <2>1. m \in Decoder
    BY <1>0, WordKeeps, Zenon
  <2>. HIDE DEF m
  <2>2. [m EXCEPT !.lost = mdec.lost] \in Decoder /\ [m EXCEPT !.lost = mdec.lost].lost = FALSE
    BY <1>0, <2>1, Zenon DEF Decoder
  <2>3. mdec' = [m EXCEPT !.lost = mdec.lost] /\ UNCHANGED dma
    BY <1>4, Zenon DEF CpuWrite, m
  <2>. QED BY <1>1, <2>2, <2>3, Zenon DEF StreamInv
<1>5. CASE CpuRead
  <2>1. mdec' \in Decoder /\ mdec'.lost = FALSE /\ UNCHANGED dma
    BY <1>0, <1>5 DEF CpuRead, mdec_dma_read_word, Decoder
  <2>. QED BY <1>1, <2>1, Zenon DEF StreamInv
<1>6. CASE soft_reset
  <2>1. mdec' \in Decoder /\ mdec'.lost = FALSE /\ UNCHANGED dma
    BY <1>0, <1>6, Zenon DEF soft_reset, mdec_init, Decoder
  <2>. QED BY <1>1, <2>1, Zenon DEF StreamInv
<1>7. CASE UNCHANGED mdecVars
  <2>1. mdec' = mdec /\ UNCHANGED dma
    BY <1>7, Zenon DEF mdecVars
  <2>. QED BY <1>0, <1>1, <2>1, Zenon DEF StreamInv
<1>. QED
  BY <1>2, <1>3, <1>4, <1>5, <1>6, <1>7, Zenon DEF MdecNext

\* No word that DMA feeds makes the decoder overwrite output nobody has read, for every set
\* of commands, transfer lengths and word costs: channel 0 moves no word past the first
\* that mdec_dma_write_ready refuses.
THEOREM DmaAlwaysKeepsOutput == MdecSpec => []DmaKeepsOutput
<1>1. StreamInv => DmaKeepsOutput
  BY Zenon DEF StreamInv, DmaKeepsOutput
<1>. QED
  BY <1>1, InitStream, NextStream, PTL DEF MdecSpec
=============================================================================
