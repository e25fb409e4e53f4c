---------------------------- MODULE ChargeProofs ----------------------------
(***************************************************************************)
(* What a charge of cycles does to the two devices that count them: the    *)
(* root counters (Timers) and the serial port (SioPace), for every modulus,*)
(* divisor, baud rate and acknowledge delay.                               *)
(*                                                                         *)
(* Timers: one charge is as many single counts (induction over the counts, *)
(* through the equations of timer_advance_counts and Ticked), so charges   *)
(* add up, and one that stops short of timers_cycles_to_irq raises none.   *)
(*                                                                         *)
(* Serial port: an acknowledge never meets the byte behind it and an idle  *)
(* port that is not the pad's reads ready.  The invariant adds that an     *)
(* acknowledge of the shifter's path is at most ACK cycles away (the pad's *)
(* own path may keep one BAUD + ACK away, but then the pad is active and   *)
(* the shifter cannot start), and that the port reads ready as soon as the *)
(* shifter stops, not only once it is idle.  A charge may be split because *)
(* a port has at most five events to come, fewer than MAX_TRANSITIONS, and *)
(* every event uses one up (induction over the events to come).            *)
(***************************************************************************)
EXTENDS Timers, SioPace, WellFoundedInduction, TLAPS

-----------------------------------------------------------------------------
(* Induction, recursion and division on the cycle and count numbers, for sets and functions
   instead of operators, so that the provers can instantiate them. *)

\* A non-empty set of natural numbers has a least element.
LEMMA LeastNat ==
  ASSUME NEW T \in SUBSET Nat, T # {}
  PROVE  \E x \in T : \A y \in T : x <= y
<1>. DEFINE R == OpToRel(<, Nat)
<1>1. IsWellFoundedOn(R, Nat)
  BY NatLessThanWellFounded, Zenon
<1>2. \A x, y \in Nat : x < y => <<x, y>> \in R
  BY DEF OpToRel
<1>. HIDE DEF R
<1>3. PICK x \in T : \A y \in T : ~ (<<y, x>> \in R)
  BY <1>1, WFMin, Zenon
<1>4. \A y \in T : ~ (y < x)
  BY <1>2, <1>3, Zenon
<1>5. \A y \in T : x <= y
  BY <1>4
<1>. QED BY <1>5

\* A set of natural numbers that has zero and with each number the next has them all.
LEMMA SetInduction ==
  ASSUME NEW S \in SUBSET Nat, 0 \in S, \A n \in S : n + 1 \in S
  PROVE  S = Nat
<1>. SUFFICES ASSUME Nat \ S # {} PROVE FALSE
  BY Zenon
<1>1. PICK m \in Nat \ S : \A y \in Nat \ S : m <= y
  BY LeastNat, Zenon
<1>2. m # 0 /\ m - 1 \in Nat
  BY <1>1
<1>3. m - 1 \in S
  BY <1>1, <1>2
<1>. QED BY <1>1, <1>2, <1>3

\* h obeys the recursion G up to n, where G[i][h] is what h's values below i make its
\* value at i.
Obeys(G, h, n) == \A i \in 0..n : h[i] = G[i][h]

\* G[i] looks at the values below i only.
LooksBelow(G, V) ==
  \A i \in Nat : \A g, h \in [Nat -> V] :
    (\A j \in 0..(i - 1) : g[j] = h[j]) => G[i][g] = G[i][h]

\* G is a recursion for functions from the natural numbers to V.
IsRecursion(G, V) == V # {} /\ G \in [Nat -> [[Nat -> V] -> V]] /\ LooksBelow(G, V)

\* Some function to V obeys the recursion G everywhere.
HasSolution(G, V) == \E f \in [Nat -> V] : \A n \in Nat : f[n] = G[n][f]

\* A recursion that looks at earlier values only has a function that obeys it.
LEMMA RecursionExists ==
  ASSUME NEW V, NEW G, IsRecursion(G, V)
  PROVE  HasSolution(G, V)
<1>. SUFFICES ASSUME NEW a \in V, G \in [Nat -> [[Nat -> V] -> V]], LooksBelow(G, V)
              PROVE  HasSolution(G, V)
  BY Zenon DEF IsRecursion
<1>. DEFINE F == [Nat -> V]
            N == {n \in Nat : \E h \in F : Obeys(G, h, n)}
<1>0. ASSUME NEW n \in Nat, NEW m \in Nat, NEW g \in F, NEW h \in F,
             Obeys(G, g, n), Obeys(G, h, m)
      PROVE  \A i \in 0..n : i <= m => g[i] = h[i]
  <2>. DEFINE D == {i \in 0..n : i <= m /\ g[i] # h[i]}
  <2>. SUFFICES ASSUME D # {} PROVE FALSE
    OBVIOUS
  <2>1. D \in SUBSET Nat
    OBVIOUS
  <2>2. PICK i \in D : \A j \in D : i <= j
    BY <2>1, LeastNat, Zenon
  <2>3. i \in Nat /\ i \in 0..n /\ i \in 0..m /\ g[i] # h[i]
    BY <2>2
  <2>4. \A j \in 0..(i - 1) : g[j] = h[j]
    BY <2>2, <2>3
  <2>5. G[i][g] = G[i][h]
    BY <2>3, <2>4, Zenon DEF LooksBelow
  <2>. QED BY <1>0, <2>3, <2>5 DEF Obeys
<1>1. 0 \in N
  <2>. DEFINE k == [n \in Nat |-> a]
              h == [k EXCEPT ![0] = G[0][k]]
  <2>1. k \in F /\ G[0][k] \in V
    OBVIOUS
  <2>2. h \in F /\ h[0] = G[0][k]
    BY <2>1
  <2>. HIDE DEF h, k
  <2>5. \A j \in 0..(0 - 1) : h[j] = k[j]
    OBVIOUS
  <2>3. G[0][h] = G[0][k]
    BY <2>1, <2>2, <2>5, Zenon DEF LooksBelow
  <2>4. Obeys(G, h, 0)
    BY <2>2, <2>3 DEF Obeys
  <2>. QED BY <2>2, <2>4
<1>2. ASSUME NEW n \in N PROVE n + 1 \in N
  <2>1. PICK g \in F : Obeys(G, g, n)
    OBVIOUS
  <2>. DEFINE h == [g EXCEPT ![n + 1] = G[n + 1][g]]
  <2>2. n \in Nat /\ n + 1 \in Nat /\ G[n + 1][g] \in V
    OBVIOUS
  <2>3. h \in F /\ h[n + 1] = G[n + 1][g] /\ \A j \in 0..n : h[j] = g[j]
    BY <2>2
  <2>. HIDE DEF h
  <2>4. \A i \in 0..(n + 1) : G[i][h] = G[i][g]
    <3>. TAKE i \in 0..(n + 1)
    <3>1. i \in Nat /\ \A j \in 0..(i - 1) : h[j] = g[j]
      BY <2>2, <2>3
    <3>. QED BY <2>3, <3>1, Zenon DEF LooksBelow
  <2>5. Obeys(G, h, n + 1)
    <3>. SUFFICES ASSUME NEW i \in 0..(n + 1) PROVE h[i] = G[i][h]
      BY DEF Obeys
    <3>1. CASE i = n + 1
      BY <2>2, <2>3, <2>4, <3>1
    <3>2. CASE i \in 0..n
      BY <2>1, <2>3, <2>4, <3>2 DEF Obeys
    <3>. QED BY <2>2, <3>1, <3>2
  <2>. QED BY <2>2, <2>3, <2>5
<1>3. \A n \in Nat : \E h \in F : Obeys(G, h, n)
  <2>1. N \in SUBSET Nat
    OBVIOUS
  <2>. HIDE DEF N
  <2>2. N = Nat
    BY <1>1, <1>2, <2>1, SetInduction
  <2>. QED BY <2>2, Zenon DEF N
<1>. DEFINE H(n) == CHOOSE h \in F : Obeys(G, h, n)
            f == [n \in Nat |-> H(n)[n]]
<1>4. \A n \in Nat : H(n) \in F /\ Obeys(G, H(n), n)
  BY <1>3
<1>. HIDE DEF H
<1>5. f \in F
  BY <1>4
<1>6. ASSUME NEW n \in Nat PROVE f[n] = G[n][f]
  <2>1. H(n) \in F /\ Obeys(G, H(n), n)
    BY <1>4
  <2>2. \A j \in 0..n : f[j] = H(n)[j]
    <3>. TAKE j \in 0..n
    <3>1. j \in Nat /\ j <= n /\ H(j) \in F /\ Obeys(G, H(j), j) /\ j \in 0..j
      BY <1>4
    <3>2. PICK g, h : g = H(j) /\ h = H(n)
      OBVIOUS
    <3>3. g \in [Nat -> V] /\ h \in [Nat -> V] /\ Obeys(G, g, j) /\ Obeys(G, h, n)
      BY <2>1, <3>1, <3>2
    <3>4. \A i \in 0..j : i <= n => g[i] = h[i]
      BY <1>0, <3>1, <3>3, Zenon
    <3>5. H(j)[j] = H(n)[j]
      BY <3>1, <3>2, <3>4
    <3>. QED BY <3>1, <3>5
  <2>. HIDE DEF f
  <2>3. PICK h : h = H(n)
    OBVIOUS
  <2>4. \A j \in 0..(n - 1) : f[j] = h[j]
    BY <2>2, <2>3
  <2>5. f \in [Nat -> V] /\ h \in [Nat -> V]
    BY <1>5, <2>1, <2>3
  <2>6. G[n][f] = G[n][h]
    BY <2>4, <2>5, Zenon DEF LooksBelow
  <2>. QED BY <2>1, <2>2, <2>3, <2>6 DEF Obeys
<1>. QED BY <1>5, <1>6, Zenon DEF HasSolution

\* Quotient and remainder are what they are.
LEMMA DivMod ==
  ASSUME NEW n \in Nat, NEW d \in Nat \ {0}
  PROVE  /\ n \div d \in Nat /\ n % d \in 0..(d - 1)
         /\ n = (n \div d) * d + (n % d)
<1>1. n \div d \in Nat
  BY SMT
<1>2. n % d \in 0..(d - 1)
  BY SMT
<1>3. n = d * (n \div d) + (n % d)
  BY SMT
<1>4. d * (n \div d) = (n \div d) * d
  BY <1>1, SMT
<1>. QED BY <1>1, <1>2, <1>3, <1>4

\* A multiple of d is not less than d more than a smaller one.
LEMMA Multiples ==
  ASSUME NEW p \in Nat, NEW q \in Nat, NEW d \in Nat, p < q
  PROVE  p * d + d <= q * d
<1>1. PICK e \in Nat : q = p + 1 + e
  <2>1. q - (p + 1) \in Nat /\ q = p + 1 + (q - (p + 1))
    OBVIOUS
  <2>. QED BY <2>1
<1>2. q * d = p * d + d + e * d /\ e * d \in Nat /\ p * d \in Nat
  BY <1>1, SMT
<1>. QED BY <1>2

\* Quotient and remainder are unique.
LEMMA DivModUnique ==
  ASSUME NEW d \in Nat \ {0}, NEW p \in Nat, NEW q \in Nat, NEW r \in 0..(d - 1), NEW s \in 0..(d - 1),
         p * d + r = q * d + s
  PROVE  p = q /\ r = s
<1>1. p * d \in Nat /\ q * d \in Nat
  BY SMT
<1>2. ~(p < q)
  <2>. SUFFICES ASSUME p < q PROVE FALSE
    OBVIOUS
  <2>1. p * d + d <= q * d
    BY Multiples
  <2>. QED BY <1>1, <2>1
<1>3. ~(q < p)
  <2>. SUFFICES ASSUME q < p PROVE FALSE
    OBVIOUS
  <2>1. q * d + d <= p * d
    BY Multiples
  <2>. QED BY <1>1, <2>1
<1>. QED BY <1>1, <1>2, <1>3

\* Dividing a sum by parts, carrying the remainder, gives the quotient and the remainder
\* of the sum.
LEMMA SplitDiv ==
  ASSUME NEW n \in Nat, NEW b \in Nat, NEW d \in Nat \ {0}
  PROVE  /\ (n \div d) + (((n % d) + b) \div d) = (n + b) \div d
         /\ ((n % d) + b) % d = (n + b) % d
<1>. DEFINE q == n \div d
            r == n % d
            m == r + b
            k == m \div d
            s == m % d
            t == n + b
            j == t \div d
            v == t % d
<1>1. q \in Nat /\ r \in 0..(d - 1) /\ n = q * d + r
  BY DivMod, Zenon
<1>2. m \in Nat /\ t \in Nat
  BY <1>1
<1>. HIDE DEF q, r
<1>3. k \in Nat /\ s \in 0..(d - 1) /\ m = k * d + s
  BY <1>2, DivMod, Zenon
<1>4. j \in Nat /\ v \in 0..(d - 1) /\ t = j * d + v
  BY <1>2, DivMod, Zenon
<1>5. m = r + b /\ t = n + b
  OBVIOUS
<1>. HIDE DEF m, k, s, t, j, v
<1>6. q * d \in Nat /\ k * d \in Nat /\ j * d \in Nat /\ (q + k) * d = q * d + k * d
  BY <1>1, <1>3, <1>4, SMT
<1>7. (q + k) * d + s = j * d + v
  BY <1>1, <1>3, <1>4, <1>5, <1>6
<1>8. q + k \in Nat
  BY <1>1, <1>3
<1>9. q + k = j /\ s = v
  BY <1>3, <1>4, <1>7, <1>8, DivModUnique
<1>. QED BY <1>9 DEF q, r, m, k, s, t, j, v

\* A quotient is below T exactly when the number is below T * d; and T * d divided by d is T.
LEMMA DivBelow ==
  ASSUME NEW n \in Nat, NEW d \in Nat \ {0}, NEW k \in Nat
  PROVE  /\ n < k * d => n \div d < k
         /\ n = k * d => n \div d = k
<1>1. n \div d \in Nat /\ n % d \in 0..(d - 1) /\ n = (n \div d) * d + (n % d)
  BY DivMod, Zenon
<1>. DEFINE q == n \div d
            r == n % d
<1>. HIDE DEF q, r
<1>2. q \in Nat /\ r \in 0..(d - 1) /\ n = q * d + r /\ q * d \in Nat /\ k * d \in Nat
  BY <1>1, SMT DEF q, r
<1>3. ASSUME n < k * d PROVE q < k
  <2>. SUFFICES ASSUME k <= q PROVE FALSE
    BY <1>2
  <2>1. k * d <= q * d
    <3>1. CASE k = q
      BY <1>2, <3>1
    <3>2. CASE k < q
      <4>1. k * d + d <= q * d
        BY <1>2, <3>2, Multiples
      <4>. QED BY <1>2, <4>1
    <3>. QED BY <1>2, <3>1, <3>2
  <2>. QED BY <1>2, <1>3, <2>1
<1>4. ASSUME n = k * d PROVE q = k
  <2>1. 0 \in 0..(d - 1) /\ q * d + r = k * d + 0
    BY <1>2, <1>4
  <2>. QED BY <1>2, <2>1, DivModUnique
<1>. QED BY <1>3, <1>4 DEF q

-----------------------------------------------------------------------------
(* The root counters *)

\* A timer's counts to its target are between one and a full turn, and one count
\* brings the target one count nearer unless it is reached.
LEMMA TargetDistFacts ==
  ASSUME NEW t \in Timer
  PROVE  /\ TargetDist(t) \in 1..W
         /\ TargetDist(t) = IF t.counter < t.target THEN t.target - t.counter
                            ELSE t.target + W - t.counter
<1>1. W \in Nat /\ W > 1 /\ t.target \in 0..(W - 1) /\ t.counter \in 0..(W - 1)
  BY TimersAssumption DEF Timer
<1>. DEFINE d == t.target + W - t.counter
<1>2. CASE t.counter < t.target
  <2>1. d \in W + 1..2 * W - 1
    BY <1>1, <1>2
  <2>2. d % W = d - W
    BY <1>1, <2>1, SMT
  <2> QED  BY <1>1, <1>2, <2>2 DEF TargetDist
<1>3. CASE t.counter = t.target
  <2>1. d % W = 0
    BY <1>1, <1>3, SMT
  <2> QED  BY <1>1, <1>3, <2>1 DEF TargetDist
<1>4. CASE t.counter > t.target
  <2>1. d \in 1..W - 1
    BY <1>1, <1>4
  <2>2. d % W = d
    BY <1>1, <2>1, SMT
  <2> QED  BY <1>1, <1>4, <2>1, <2>2 DEF TargetDist
<1> QED  BY <1>1, <1>2, <1>3, <1>4

\* A single count (timer_tick_one) is a jump of one count: the bulk advance's loop
\* body and the single count agree on every timer.
THEOREM TickIsJump ==
  ASSUME NEW t \in Timer
  PROVE  timer_tick_one(t) = Jump(t, 1)
<1>1. W \in Nat /\ W > 1 /\ t.target \in 0..(W - 1) /\ t.counter \in 0..(W - 1)
  BY TimersAssumption DEF Timer
<1>. DEFINE c == [t EXCEPT !.counter = (@ + 1) % W]
<1>2. c.counter = (t.counter + 1) % W /\ c.target = t.target
  BY Zenon DEF Timer
<1>3. (c.counter = c.target) <=> (1 = TargetDist(t))
  <2>1. CASE t.counter = W - 1
    <3>1. c.counter = 0
      BY <1>1, <1>2, <2>1, SMT
    <3> QED  BY <1>1, <1>2, <2>1, <3>1, TargetDistFacts
  <2>2. CASE t.counter < W - 1
    <3>1. c.counter = t.counter + 1
      BY <1>1, <1>2, <2>2, SMT
    <3> QED  BY <1>1, <1>2, <2>2, <3>1, TargetDistFacts
  <2> QED  BY <1>1, <2>1, <2>2
<1>4. (t.counter = W - 1) <=> (t.counter + 1 > W - 1)
  BY <1>1
<1> QED  BY <1>3, <1>4, Zenon DEF timer_tick_one, Jump

\* The distance to the next interrupt is the nearer of the armed events'.
LEMMA TicksToIrqFacts ==
  ASSUME NEW t \in Timer
  PROVE  /\ TicksToIrq(t) \in 1..TimerNever
         /\ t.mode.irq_target => TicksToIrq(t) <= TargetDist(t)
         /\ t.mode.irq_overflow => TicksToIrq(t) <= OverflowDist(t)
         /\ \/ TicksToIrq(t) = TimerNever
            \/ t.mode.irq_target /\ TicksToIrq(t) = TargetDist(t)
            \/ t.mode.irq_overflow /\ TicksToIrq(t) = OverflowDist(t)
<1>1. W \in Nat /\ W > 1 /\ t.counter \in 0..(W - 1) /\ t.mode \in Modes
  BY TimersAssumption DEF Timer
<1>2. TargetDist(t) \in 1..W /\ OverflowDist(t) \in 1..W /\ TimerNever \in Nat /\ TimerNever > W
  BY <1>1, TargetDistFacts DEF OverflowDist, TimerNever
<1>. DEFINE S == {TimerNever} \cup (IF t.mode.irq_target THEN {TargetDist(t)} ELSE {})
                         \cup (IF t.mode.irq_overflow THEN {OverflowDist(t)} ELSE {})
<1>3. \E n \in S : \A m \in S : n <= m
  BY <1>2
<1>4. TicksToIrq(t) \in S /\ \A m \in S : TicksToIrq(t) <= m
  BY <1>3, Zenon DEF TicksToIrq, Least
<1>. HIDE DEF S
<1>5. \A m : m \in S <=> \/ m = TimerNever
                         \/ t.mode.irq_target /\ m = TargetDist(t)
                         \/ t.mode.irq_overflow /\ m = OverflowDist(t)
  BY Zenon DEF S
<1>6. TimerNever \in 1..TimerNever /\ TargetDist(t) \in 1..TimerNever /\ OverflowDist(t) \in 1..TimerNever
  BY <1>1, <1>2
<1>7. TicksToIrq(t) \in 1..TimerNever
  BY <1>4, <1>5, <1>6, Zenon
<1>. HIDE DEF TimerNever
<1> QED  BY <1>4, <1>5, <1>7, Zenon

\* A jump that stops short of the next interrupt, as each iteration of
\* timer_advance_counts does below timers_cycles_to_irq, raises none and brings the
\* next interrupt nearer by no more than the counts it jumps; by exactly as many if the
\* counter is not reset in between.
LEMMA QuietJump ==
  ASSUME NEW t \in Timer, NEW step \in Nat, step >= 1,
         step <= TargetDist(t), step <= OverflowDist(t), step < TicksToIrq(t)
  PROVE  LET u == Jump(t, step) IN
         /\ u \in Timer /\ u.fired = t.fired /\ u.mode = t.mode
         /\ TicksToIrq(u) >= TicksToIrq(t) - step
         /\ t.mode.irq_target => TargetDist(u) = TargetDist(t) - step
         /\ t.mode.irq_overflow /\ ~t.mode.reset => OverflowDist(u) = OverflowDist(t) - step
<1>. DEFINE u == Jump(t, step)
<1>1. /\ W \in Nat /\ W > 1 /\ t.target \in 0..(W - 1) /\ t.counter \in 0..(W - 1)
      /\ t.mode \in Modes /\ t.fired \in Nat
  BY TimersAssumption DEF Timer
<1>2. t.mode.irq_target \in BOOLEAN /\ t.mode.irq_overflow \in BOOLEAN /\ t.mode.reset \in BOOLEAN
  BY <1>1, Zenon DEF Modes
<1>3. step = TargetDist(t) => ~t.mode.irq_target
  BY TicksToIrqFacts, TargetDistFacts
<1>4. step = OverflowDist(t) => ~t.mode.irq_overflow
  BY TicksToIrqFacts, <1>1 DEF OverflowDist
<1>5. (t.counter + step > W - 1) <=> (step = OverflowDist(t))
  BY <1>1 DEF OverflowDist
<1>. DEFINE n == (t.counter + step) % W
<1>6. n \in 0..(W - 1) /\ n = IF step = OverflowDist(t) THEN 0 ELSE t.counter + step
  <2>1. CASE step = OverflowDist(t)
    <3>1. t.counter + step = W
      BY <1>1, <2>1 DEF OverflowDist
    <3>2. W % W = 0
      BY <1>1, SMT
    <3> QED  BY <1>1, <2>1, <3>1, <3>2
  <2>2. CASE step < OverflowDist(t)
    <3>1. t.counter + step \in 0..(W - 1)
      BY <1>1, <2>2 DEF OverflowDist
    <3>2. n = t.counter + step
      BY <1>1, <3>1, SMT
    <3> QED  BY <2>2, <3>1, <3>2
  <2> QED  BY <1>1, <2>1, <2>2 DEF OverflowDist
<1>. DEFINE c == [t EXCEPT !.counter = (@ + step) % W]
            atT == step = TargetDist(t)
            v == IF atT THEN AtTarget(c) ELSE c
            k == IF atT /\ t.mode.reset THEN 0 ELSE n
<1>7. c = [t EXCEPT !.counter = n] /\ c \in Timer
  BY <1>6, Zenon DEF Timer
<1>8. /\ v \in Timer /\ v.mode = t.mode /\ v.fired = t.fired /\ v.target = t.target
      /\ v.counter = k
  <2>1. CASE atT
    <3>1. v = IF t.mode.reset THEN [[c EXCEPT !.target_flag = TRUE] EXCEPT !.counter = 0]
              ELSE [c EXCEPT !.target_flag = TRUE]
      BY <1>3, <1>7, <2>1, Zenon DEF AtTarget, Timer
    <3>2. [c EXCEPT !.target_flag = TRUE] \in Timer
      BY <1>7, Zenon DEF Timer
    <3>3. CASE t.mode.reset
      <4>1. v = [[c EXCEPT !.target_flag = TRUE] EXCEPT !.counter = 0]
        BY <3>1, <3>3, Zenon
      <4>2. v \in Timer /\ v.counter = 0
        <5>1. \A f \in Timer : [f EXCEPT !.counter = 0] \in Timer
                               /\ [f EXCEPT !.counter = 0].counter = 0
          BY <1>1 DEF Timer
        <5>. HIDE DEF v, c
        <5> QED  BY <3>2, <4>1, <5>1, Zenon
      <4>3. v.mode = t.mode /\ v.fired = t.fired /\ v.target = t.target
        BY <4>1, <1>7, Zenon DEF Timer
      <4> QED  BY <4>2, <4>3, <2>1, <3>3, Zenon
    <3>4. CASE ~t.mode.reset
      <4>1. v = [c EXCEPT !.target_flag = TRUE]
        BY <3>1, <3>4, Zenon
      <4>2. v.mode = t.mode /\ v.fired = t.fired /\ v.target = t.target /\ v.counter = n
        BY <4>1, <1>7, Zenon DEF Timer
      <4> QED  BY <3>2, <4>1, <4>2, <3>4, Zenon
    <3> QED  BY <3>3, <3>4, Zenon
  <2>2. CASE ~atT
    BY <1>7, <2>2, Zenon DEF Timer
  <2> QED  BY <2>1, <2>2, Zenon
<1>9. /\ u \in Timer /\ u.mode = t.mode /\ u.fired = t.fired /\ u.target = t.target
      /\ u.counter = k
  <2>1. u = IF step = OverflowDist(t) THEN AtOverflow(v) ELSE v
    BY <1>5, Zenon DEF Jump
  <2>2. CASE step = OverflowDist(t)
    <3>1. u = [v EXCEPT !.overflow_flag = TRUE]
      BY <1>4, <1>8, <2>1, <2>2, Zenon DEF AtOverflow, Timer
    <3> QED  BY <1>8, <3>1, Zenon DEF Timer
  <2>3. CASE step # OverflowDist(t)
    BY <1>8, <2>1, <2>3
  <2> QED  BY <2>2, <2>3, Zenon
<1>10. t.mode.irq_target => TargetDist(u) = TargetDist(t) - step
  <2>1. SUFFICES ASSUME t.mode.irq_target PROVE TargetDist(u) = TargetDist(t) - step
    BY Zenon
  <2>2. ~atT /\ u.counter = n
    BY <1>3, <1>9, <2>1, Zenon
  <2>3. TargetDist(u) = IF u.counter < u.target THEN u.target - u.counter
                        ELSE u.target + W - u.counter
    BY <1>9, TargetDistFacts, Zenon
  <2>4. TargetDist(t) = IF t.counter < t.target THEN t.target - t.counter
                        ELSE t.target + W - t.counter
    BY TargetDistFacts, Zenon
  <2>5. OverflowDist(t) = W - t.counter
    BY Zenon DEF OverflowDist
  <2>6. u.target = t.target
    BY <1>9, Zenon
  <2>. HIDE DEF u, n, atT
  <2>7. CASE step = OverflowDist(t)
    <3>1. u.counter = 0 /\ step = W - t.counter
      BY <1>6, <2>2, <2>5, <2>7, Zenon
    <3>2. TargetDist(t) > W - t.counter
      BY <1>1, <2>2, <2>7, <2>5, TargetDistFacts DEF atT
    <3> QED  BY <1>1, <2>3, <2>4, <2>6, <3>1, <3>2
  <2>8. CASE step # OverflowDist(t)
    <3>1. u.counter = t.counter + step
      BY <1>6, <2>2, <2>8, Zenon
    <3>2. step < TargetDist(t)
      BY <1>1, <2>2, TargetDistFacts DEF atT
    <3>3. step < W - t.counter
      BY <1>1, <2>5, <2>8
    <3> QED  BY <1>1, <2>3, <2>4, <2>6, <3>1, <3>2, <3>3
  <2> QED  BY <2>7, <2>8, Zenon
<1>11. t.mode.irq_overflow => OverflowDist(u) >= OverflowDist(t) - step
  BY <1>1, <1>4, <1>6, <1>9 DEF OverflowDist
<1>12. TicksToIrq(t) \in Nat /\ TicksToIrq(u) \in Nat /\ TargetDist(t) \in Nat /\ OverflowDist(t) \in Nat
       /\ OverflowDist(u) \in Nat
  BY <1>1, <1>9, TicksToIrqFacts, TargetDistFacts DEF OverflowDist, TimerNever
<1>13. TicksToIrq(u) >= TicksToIrq(t) - step
  <2>1. CASE TicksToIrq(u) = TimerNever
    BY <1>12, <2>1, TicksToIrqFacts
  <2>2. CASE t.mode.irq_target /\ TicksToIrq(u) = TargetDist(u)
    <3>1. TicksToIrq(t) <= TargetDist(t)
      BY <2>2, TicksToIrqFacts, Zenon
    <3> QED  BY <1>10, <1>12, <2>2, <3>1
  <2>3. CASE t.mode.irq_overflow /\ TicksToIrq(u) = OverflowDist(u)
    <3>1. TicksToIrq(t) <= OverflowDist(t)
      BY <2>3, TicksToIrqFacts, Zenon
    <3> QED  BY <1>11, <1>12, <2>3, <3>1
  <2> QED  BY <1>9, <2>1, <2>2, <2>3, TicksToIrqFacts, Zenon
<1>14. t.mode.irq_overflow /\ ~t.mode.reset => OverflowDist(u) = OverflowDist(t) - step
  BY <1>1, <1>4, <1>6, <1>9 DEF OverflowDist
<1> QED  BY <1>9, <1>10, <1>13, <1>14, Zenon


\* A jump that stops short of the next interrupt, as each iteration of
\* timer_advance_counts does below timers_cycles_to_irq, raises none and brings the
\* next interrupt nearer by no more than the counts it jumps: the estimate that
\* bounds native blocks and the device deadline can never be late.
THEOREM JumpNeverSkipsIrq ==
  ASSUME NEW t \in Timer, NEW step \in Nat, step >= 1,
         step <= TargetDist(t), step <= OverflowDist(t), step < TicksToIrq(t)
  PROVE  /\ Jump(t, step) \in Timer
         /\ Jump(t, step).fired = t.fired
         /\ TicksToIrq(Jump(t, step)) >= TicksToIrq(t) - step
BY QuietJump, Zenon

Maps == [Timer -> Timer]

\* The next iteration's counts are at least one, at most those left, and stop at the
\* nearest event.
LEMMA StrideFacts ==
  ASSUME NEW t \in Timer, NEW n \in Nat \ {0}
  PROVE  /\ Stride(t, n) \in 1..n
         /\ Stride(t, n) <= TargetDist(t) /\ Stride(t, n) <= OverflowDist(t)
         /\ Stride(t, n) \in {n, TargetDist(t), OverflowDist(t)}
<1>1. TargetDist(t) \in Nat \ {0} /\ OverflowDist(t) \in Nat \ {0}
  <2>1. W \in Nat /\ W > 1 /\ t.counter \in 0..(W - 1)
    BY TimersAssumption DEF Timer
  <2>. QED BY <2>1, TargetDistFacts DEF OverflowDist
<1>. DEFINE S == {n, TargetDist(t), OverflowDist(t)}
<1>2. \E k \in S : \A m \in S : k <= m
  BY <1>1
<1>3. Stride(t, n) \in S /\ \A m \in S : Stride(t, n) <= m
  BY <1>2, Zenon DEF Stride, Least
<1>. QED BY <1>1, <1>3

\* What raising the interrupt does to a timer: its counter, target, fraction, divisor and
\* reset bit stay.
LEMMA FireFacts ==
  ASSUME NEW t \in Timer, NEW u, u = timer_fire_irq(t)
  PROVE  /\ u \in Timer
         /\ u.counter = t.counter /\ u.target = t.target /\ u.frac = t.frac
         /\ u.mode.div = t.mode.div /\ u.mode.reset = t.mode.reset
<1>1. t.mode \in Modes
  BY Zenon DEF Timer
<1>2. Disarmed(t.mode) \in Modes
  BY <1>1, Zenon DEF Disarmed, Modes
<1>3. Disarmed(t.mode).div = t.mode.div /\ Disarmed(t.mode).reset = t.mode.reset
  BY <1>1, Zenon DEF Disarmed, Modes
<1>. DEFINE line == t.mode.toggle /\ ~t.irq_line
            il == IF t.mode.toggle THEN line ELSE t.irq_line
            fi == IF t.mode.toggle /\ ~line THEN t.fired ELSE t.fired + 1
            m == Disarmed(t.mode)
<1>4. il \in BOOLEAN /\ (~line) \in BOOLEAN /\ fi \in Nat
  <2>1. t.mode.toggle \in BOOLEAN /\ t.irq_line \in BOOLEAN /\ t.fired \in Nat
    BY <1>1, Zenon DEF Timer, Modes
  <2>2. t.fired + 1 \in Nat
    BY <2>1
  <2>. QED BY <2>1, <2>2, Zenon
<1>5. u = [t EXCEPT !.irq_line = il, !.request = ~line, !.fired = fi, !.mode = m]
  BY Zenon DEF timer_fire_irq
<1>. HIDE DEF line, il, fi, m
<1>6. m \in Modes /\ m.div = t.mode.div /\ m.reset = t.mode.reset
  BY <1>2, <1>3, Zenon DEF m
<1>. QED BY <1>4, <1>5, <1>6, Zenon DEF Timer

\* The same for the two events.
LEMMA EventFacts ==
  ASSUME NEW t \in Timer
  PROVE  /\ AtTarget(t) \in Timer /\ AtTarget(t).target = t.target
         /\ AtTarget(t).frac = t.frac /\ AtTarget(t).mode.div = t.mode.div
         /\ AtOverflow(t) \in Timer /\ AtOverflow(t).target = t.target
         /\ AtOverflow(t).frac = t.frac /\ AtOverflow(t).mode.div = t.mode.div
         /\ AtOverflow(t).counter = t.counter
<1>1. 0 \in 0..(W - 1)
  BY TimersAssumption
<1>2. \A u \in Timer : /\ [u EXCEPT !.counter = 0] \in Timer
                       /\ [u EXCEPT !.counter = 0].target = u.target
                       /\ [u EXCEPT !.counter = 0].frac = u.frac
                       /\ [u EXCEPT !.counter = 0].mode = u.mode
  BY <1>1, Zenon DEF Timer
<1>3. /\ AtTarget(t) \in Timer /\ AtTarget(t).target = t.target
      /\ AtTarget(t).frac = t.frac /\ AtTarget(t).mode.div = t.mode.div
  <2>. DEFINE f == [t EXCEPT !.target_flag = TRUE]
              g == IF f.mode.irq_target THEN timer_fire_irq(f) ELSE f
  <2>1. f \in Timer /\ f.target = t.target /\ f.frac = t.frac /\ f.mode = t.mode
    BY Zenon DEF Timer
  <2>. HIDE DEF f
  <2>2. g \in Timer /\ g.target = t.target /\ g.frac = t.frac /\ g.mode.div = t.mode.div
    BY <2>1, FireFacts
  <2>3. AtTarget(t) = IF g.mode.reset THEN [g EXCEPT !.counter = 0] ELSE g
    BY Zenon DEF AtTarget, f
  <2>. HIDE DEF g
  <2>. QED BY <1>2, <2>2, <2>3, Zenon
<1>4. /\ AtOverflow(t) \in Timer /\ AtOverflow(t).target = t.target
      /\ AtOverflow(t).frac = t.frac /\ AtOverflow(t).mode.div = t.mode.div
      /\ AtOverflow(t).counter = t.counter
  <2>. DEFINE f == [t EXCEPT !.overflow_flag = TRUE]
  <2>1. f \in Timer /\ f.target = t.target /\ f.frac = t.frac /\ f.mode = t.mode /\ f.counter = t.counter
    BY Zenon DEF Timer
  <2>2. AtOverflow(t) = IF f.mode.irq_overflow THEN timer_fire_irq(f) ELSE f
    BY Zenon DEF AtOverflow
  <2>. HIDE DEF f
  <2>. QED BY <2>1, <2>2, FireFacts
<1>. QED BY <1>3, <1>4, Zenon

\* A jump keeps a timer a timer, with its target, fraction and divisor.
LEMMA JumpFacts ==
  ASSUME NEW t \in Timer, NEW step \in Nat
  PROVE  /\ Jump(t, step) \in Timer
         /\ Jump(t, step).target = t.target /\ Jump(t, step).frac = t.frac
         /\ Jump(t, step).mode.div = t.mode.div
<1>1. W \in Nat /\ W > 1 /\ t.counter \in 0..(W - 1)
  BY TimersAssumption DEF Timer
<1>2. (t.counter + step) % W \in 0..(W - 1)
  BY <1>1, SMT
<1>. DEFINE c == [t EXCEPT !.counter = (@ + step) % W]
            d == IF step = TargetDist(t) THEN AtTarget(c) ELSE c
<1>3. c \in Timer /\ c.target = t.target /\ c.frac = t.frac /\ c.mode = t.mode
  BY <1>2, Zenon DEF Timer
<1>. HIDE DEF c
<1>4. d \in Timer /\ d.target = t.target /\ d.frac = t.frac /\ d.mode.div = t.mode.div
  BY <1>3, EventFacts
<1>5. Jump(t, step) = IF t.counter + step > W - 1 THEN AtOverflow(d) ELSE d
  BY Zenon DEF Jump, c
<1>. HIDE DEF d
<1>. QED BY <1>4, <1>5, EventFacts, Zenon

\* timer_advance_counts is its loop: nothing if no counts are left, else one jump and
\* the rest.
LEMMA CountsEquation ==
  /\ timer_advance_counts \in [Nat -> Maps]
  /\ \A n \in Nat : \A t \in Timer :
       timer_advance_counts[n][t] =
         IF n = 0 THEN t ELSE timer_advance_counts[n - Stride(t, n)][Jump(t, Stride(t, n))]
<1>. DEFINE Val(h, n, t) == IF n = 0 THEN t ELSE h[n - Stride(t, n)][Jump(t, Stride(t, n))]
            G == [n \in Nat |-> [h \in [Nat -> Maps] |-> [t \in Timer |-> Val(h, n, t)]]]
<1>1. ASSUME NEW n \in Nat \ {0}, NEW t \in Timer
      PROVE  n - Stride(t, n) \in 0..(n - 1) /\ Jump(t, Stride(t, n)) \in Timer
  <2>1. Stride(t, n) \in 1..n
    BY StrideFacts, Zenon
  <2>2. n - Stride(t, n) \in 0..(n - 1)
    BY <2>1
  <2>. QED BY <2>1, <2>2, JumpFacts
<1>2. ASSUME NEW n \in Nat, NEW h \in [Nat -> Maps], NEW t \in Timer
      PROVE  Val(h, n, t) \in Timer
  <2>1. CASE n = 0
    BY <2>1, Zenon
  <2>2. CASE n # 0
    <3>1. n - Stride(t, n) \in Nat /\ Jump(t, Stride(t, n)) \in Timer
      BY <1>1, <2>2
    <3>2. h[n - Stride(t, n)] \in Maps
      BY <3>1, Zenon
    <3>. QED BY <2>2, <3>1, <3>2, Zenon DEF Maps
  <2>. QED BY <2>1, <2>2, Zenon
<1>3. \A n \in Nat : \A h \in [Nat -> Maps] : G[n][h] = [t \in Timer |-> Val(h, n, t)]
  BY Zenon
<1>4. G \in [Nat -> [[Nat -> Maps] -> Maps]]
  BY <1>2, Zenon DEF Maps
<1>5. LooksBelow(G, Maps)
  <2>. SUFFICES ASSUME NEW n \in Nat, NEW g \in [Nat -> Maps], NEW h \in [Nat -> Maps],
                       \A j \in 0..(n - 1) : g[j] = h[j]
                PROVE  G[n][g] = G[n][h]
    BY Zenon DEF LooksBelow
  <2>1. ASSUME NEW t \in Timer PROVE Val(g, n, t) = Val(h, n, t)
    BY <1>1, Zenon
  <2>. QED BY <1>3, <2>1, Zenon
<1>6. \E a : a \in Maps
  <2>1. [t \in Timer |-> t] \in Maps
    BY Zenon DEF Maps
  <2>. QED BY <2>1, Zenon
<1>. HIDE DEF G
<1>7. PICK f \in [Nat -> Maps] : \A n \in Nat : f[n] = G[n][f]
  <2>1. IsRecursion(G, Maps)
    BY <1>4, <1>5, <1>6, Zenon DEF IsRecursion
  <2>2. HasSolution(G, Maps)
    BY <2>1, RecursionExists, Zenon
  <2>. QED BY <2>2, Zenon DEF HasSolution
<1>8. f = [n \in Nat |-> [t \in Timer |-> Val(f, n, t)]]
  <2>1. \A n \in Nat : f[n] = [t \in Timer |-> Val(f, n, t)]
    BY <1>3, <1>7, Zenon
  <2>2. f = [n \in Nat |-> f[n]]
    BY Zenon
  <2>. QED BY <2>1, <2>2, Zenon
<1>. DEFINE A == timer_advance_counts
<1>9. A = [n \in Nat |-> [t \in Timer |-> Val(A, n, t)]]
  <2>1. \E g : g = [n \in Nat |-> [t \in Timer |-> Val(g, n, t)]]
    BY <1>8, Zenon
  <2>. QED BY <2>1, Zenon DEF timer_advance_counts
<1>. HIDE DEF A
<1>10. \A n \in Nat : A[n] \in Maps
  <2>. DEFINE B == {n \in Nat : A[n] \notin Maps}
  <2>. SUFFICES ASSUME B # {} PROVE FALSE
    BY Zenon
  <2>1. PICK n \in B : \A m \in B : n <= m
    <3>1. B \in SUBSET Nat
      BY Zenon
    <3>. QED BY <3>1, LeastNat, Zenon
  <2>2. n \in Nat /\ \A j \in 0..(n - 1) : A[j] \in Maps
    BY <2>1
  <2>3. ASSUME NEW t \in Timer PROVE Val(A, n, t) \in Timer
    BY <1>1, <2>2, Zenon DEF Maps
  <2>4. A[n] = [t \in Timer |-> Val(A, n, t)]
    BY <1>9, <2>2, Zenon
  <2>5. A[n] \in Maps
    BY <2>3, <2>4, Zenon DEF Maps
  <2>. QED BY <2>1, <2>5, Zenon
<1>11. \A n \in Nat : \A t \in Timer : A[n][t] = Val(A, n, t)
  <2>1. \A n \in Nat : A[n] = [t \in Timer |-> Val(A, n, t)]
    BY <1>9, Zenon
  <2>. QED BY <2>1, ZenonT(60)
<1>12. A \in [Nat -> Maps]
  <2>1. A = [n \in Nat |-> A[n]]
    BY <1>9, Zenon
  <2>. QED BY <1>10, <2>1, Zenon
<1>. QED BY <1>11, <1>12, Zenon DEF A

\* Ticked is so many single counts.
LEMMA TickedEquation ==
  /\ Ticked \in [Nat -> Maps]
  /\ \A t \in Timer : Ticked[0][t] = t
  /\ \A n \in Nat : \A t \in Timer : Ticked[n + 1][t] = Ticked[n][timer_tick_one(t)]
<1>. DEFINE Val(h, n, t) == IF n = 0 THEN t ELSE h[n - 1][timer_tick_one(t)]
            G == [n \in Nat |-> [h \in [Nat -> Maps] |-> [t \in Timer |-> Val(h, n, t)]]]
<1>1. \A t \in Timer : timer_tick_one(t) \in Timer
  BY TickIsJump, JumpFacts, ZenonT(60)
<1>2. ASSUME NEW n \in Nat, NEW h, \A j \in 0..(n - 1) : h[j] \in Maps, NEW t \in Timer
      PROVE  Val(h, n, t) \in Timer
  BY <1>1, <1>2 DEF Maps
<1>3. \A n \in Nat : \A h \in [Nat -> Maps] : G[n][h] = [t \in Timer |-> Val(h, n, t)]
  BY Zenon
<1>4. G \in [Nat -> [[Nat -> Maps] -> Maps]]
  <2>1. ASSUME NEW n \in Nat, NEW h \in [Nat -> Maps], NEW t \in Timer
        PROVE  Val(h, n, t) \in Timer
    BY <1>2
  <2>. QED BY <2>1, Zenon DEF Maps
<1>5. LooksBelow(G, Maps)
  <2>. SUFFICES ASSUME NEW n \in Nat, NEW g \in [Nat -> Maps], NEW h \in [Nat -> Maps],
                       \A j \in 0..(n - 1) : g[j] = h[j]
                PROVE  G[n][g] = G[n][h]
    BY Zenon DEF LooksBelow
  <2>1. ASSUME NEW t \in Timer PROVE Val(g, n, t) = Val(h, n, t)
    OBVIOUS
  <2>. QED BY <1>3, <2>1, Zenon
<1>6. [t \in Timer |-> t] \in Maps
  BY Zenon DEF Maps
<1>. HIDE DEF G
<1>7. PICK f \in [Nat -> Maps] : \A n \in Nat : f[n] = G[n][f]
  <2>1. IsRecursion(G, Maps)
    BY <1>4, <1>5, <1>6, Zenon DEF IsRecursion
  <2>2. HasSolution(G, Maps)
    BY <2>1, RecursionExists, Zenon
  <2>. QED BY <2>2, Zenon DEF HasSolution
<1>8. f = [n \in Nat |-> [t \in Timer |-> Val(f, n, t)]]
  <2>1. \A n \in Nat : f[n] = [t \in Timer |-> Val(f, n, t)]
    BY <1>3, <1>7, Zenon
  <2>2. f = [n \in Nat |-> f[n]]
    BY Zenon
  <2>. QED BY <2>1, <2>2, Zenon
<1>. DEFINE A == Ticked
<1>9. A = [n \in Nat |-> [t \in Timer |-> Val(A, n, t)]]
  <2>1. \E g : g = [n \in Nat |-> [t \in Timer |-> Val(g, n, t)]]
    BY <1>8, Zenon
  <2>. QED BY <2>1, Zenon DEF Ticked
<1>. HIDE DEF A
<1>10. \A n \in Nat : A[n] \in Maps
  <2>. DEFINE B == {n \in Nat : A[n] \notin Maps}
  <2>. SUFFICES ASSUME B # {} PROVE FALSE
    BY Zenon
  <2>1. PICK n \in B : \A m \in B : n <= m
    <3>1. B \in SUBSET Nat
      BY Zenon
    <3>. QED BY <3>1, LeastNat, Zenon
  <2>2. n \in Nat /\ \A j \in 0..(n - 1) : A[j] \in Maps
    BY <2>1
  <2>3. ASSUME NEW t \in Timer PROVE Val(A, n, t) \in Timer
    BY <1>2, <2>2, Zenon
  <2>4. A[n] = [t \in Timer |-> Val(A, n, t)]
    BY <1>9, <2>2, Zenon
  <2>5. A[n] \in Maps
    BY <2>3, <2>4, Zenon DEF Maps
  <2>. QED BY <2>1, <2>5, Zenon
<1>11. \A n \in Nat : \A t \in Timer : A[n][t] = Val(A, n, t)
  <2>1. \A n \in Nat : A[n] = [t \in Timer |-> Val(A, n, t)]
    BY <1>9, Zenon
  <2>. TAKE n \in Nat
  <2>. TAKE t \in Timer
  <2>2. A[n] = [s \in Timer |-> Val(A, n, s)]
    BY <2>1, Zenon
  <2>. HIDE DEF Val
  <2>. QED BY <2>2, Zenon
<1>12. A \in [Nat -> Maps]
  <2>1. A = [n \in Nat |-> A[n]]
    BY <1>9, Zenon
  <2>. QED BY <1>10, <2>1, Zenon
<1>13. \A n \in Nat : \A t \in Timer : A[n + 1][t] = A[n][timer_tick_one(t)]
  <2>. TAKE n \in Nat
  <2>. TAKE t \in Timer
  <2>1. n + 1 \in Nat /\ n + 1 # 0 /\ (n + 1) - 1 = n
    OBVIOUS
  <2>. QED BY <1>11, <2>1
<1>. QED BY <1>11, <1>12, <1>13, Zenon DEF A

\* A count that reaches no event only moves the counter, and both events come one count
\* nearer.
LEMMA PlainTick ==
  ASSUME NEW t \in Timer, 1 < TargetDist(t), 1 < OverflowDist(t)
  PROVE  LET u == timer_tick_one(t) IN
         /\ u = [t EXCEPT !.counter = t.counter + 1] /\ u \in Timer
         /\ u.counter = t.counter + 1
         /\ TargetDist(u) = TargetDist(t) - 1 /\ OverflowDist(u) = OverflowDist(t) - 1
<1>. DEFINE u == [t EXCEPT !.counter = t.counter + 1]
<1>1. W \in Nat /\ W > 1 /\ t.counter \in 0..(W - 1) /\ t.target \in 0..(W - 1)
  BY TimersAssumption DEF Timer
<1>2. t.counter + 1 \in 0..(W - 1)
  BY <1>1 DEF OverflowDist
<1>3. (t.counter + 1) % W = t.counter + 1
  BY <1>1, <1>2, SMT
<1>4. timer_tick_one(t) = u
  <2>1. Jump(t, 1) = u
    BY <1>1, <1>2, <1>3 DEF Jump
  <2>. QED BY <2>1, TickIsJump, Zenon
<1>5. u \in Timer /\ u.counter = t.counter + 1 /\ u.target = t.target
  BY <1>2, Zenon DEF Timer
<1>. HIDE DEF u
<1>6. OverflowDist(u) = OverflowDist(t) - 1
  BY <1>1, <1>5 DEF OverflowDist
<1>7. TargetDist(u) = TargetDist(t) - 1
  <2>1. TargetDist(u) = IF t.counter + 1 < t.target THEN t.target - (t.counter + 1)
                        ELSE t.target + W - (t.counter + 1)
    BY <1>5, TargetDistFacts, Zenon
  <2>2. TargetDist(t) = IF t.counter < t.target THEN t.target - t.counter
                        ELSE t.target + W - t.counter
    BY TargetDistFacts, Zenon
  <2>. QED BY <1>1, <2>1, <2>2
<1>. QED BY <1>4, <1>5, <1>6, <1>7, Zenon DEF u

\* One iteration of timer_advance_counts is a single count followed by a shorter one.
LEMMA JumpAfterTick ==
  ASSUME NEW t \in Timer, NEW n \in Nat \ {0}, 1 < Stride(t, n)
  PROVE  LET u == timer_tick_one(t) IN
         /\ u \in Timer /\ Stride(u, n - 1) = Stride(t, n) - 1
         /\ Jump(u, Stride(t, n) - 1) = Jump(t, Stride(t, n))
<1>. DEFINE u == timer_tick_one(t)
            s == Stride(t, n)
<1>1. W \in Nat /\ W > 1 /\ t.counter \in 0..(W - 1) /\ TargetDist(t) \in Nat /\ OverflowDist(t) \in Nat
  BY TimersAssumption, TargetDistFacts DEF Timer, OverflowDist
<1>2. s \in 1..n /\ s <= TargetDist(t) /\ s <= OverflowDist(t) /\ s \in {n, TargetDist(t), OverflowDist(t)}
  BY StrideFacts, Zenon
<1>3. 1 < TargetDist(t) /\ 1 < OverflowDist(t) /\ 1 < n
  BY <1>1, <1>2
<1>4. /\ u = [t EXCEPT !.counter = t.counter + 1] /\ u \in Timer
      /\ u.counter = t.counter + 1
      /\ TargetDist(u) = TargetDist(t) - 1 /\ OverflowDist(u) = OverflowDist(t) - 1
  BY <1>3, PlainTick, Zenon
<1>. HIDE DEF u, s
<1>5. Stride(u, n - 1) = s - 1
  <2>1. n - 1 \in Nat \ {0}
    BY <1>3
  <2>2. PICK r : r = Stride(u, n - 1)
    BY Zenon
  <2>3. r \in 1..(n - 1) /\ r <= TargetDist(u) /\ r <= OverflowDist(u) /\ r \in {n - 1, TargetDist(u), OverflowDist(u)}
    BY <1>4, <2>1, <2>2, StrideFacts, Zenon
  <2>4. r = s - 1
    BY <1>1, <1>2, <1>4, <2>3
  <2>. QED BY <2>2, <2>4, Zenon
<1>6. Jump(u, s - 1) = Jump(t, s)
  <2>1. u.counter + (s - 1) = t.counter + s
    BY <1>1, <1>2, <1>4
  <2>2. [u EXCEPT !.counter = (u.counter + (s - 1)) % W] = [t EXCEPT !.counter = (t.counter + s) % W]
    BY <1>4, <2>1, Zenon DEF Timer
  <2>3. (s - 1 = TargetDist(u)) = (s = TargetDist(t))
    BY <1>1, <1>2, <1>4
  <2>4. /\ Jump(u, s - 1) = LET c == [u EXCEPT !.counter = (u.counter + (s - 1)) % W]
                                d == IF s - 1 = TargetDist(u) THEN AtTarget(c) ELSE c
                            IN IF u.counter + (s - 1) > W - 1 THEN AtOverflow(d) ELSE d
        /\ Jump(t, s) = LET c == [t EXCEPT !.counter = (t.counter + s) % W]
                            d == IF s = TargetDist(t) THEN AtTarget(c) ELSE c
                        IN IF t.counter + s > W - 1 THEN AtOverflow(d) ELSE d
    BY Zenon DEF Jump
  <2>. QED BY <2>1, <2>2, <2>3, <2>4
<1>. QED BY <1>4, <1>5, <1>6, Zenon DEF u, s

\* Counting in bulk is a single count and the rest in bulk.
LEMMA CountsByTicks ==
  ASSUME NEW n \in Nat, NEW t \in Timer
  PROVE  timer_advance_counts[n + 1][t] = timer_advance_counts[n][timer_tick_one(t)]
<1>. DEFINE A == timer_advance_counts
            u == timer_tick_one(t)
            s == Stride(t, n + 1)
<1>1. n + 1 \in Nat \ {0}
  OBVIOUS
<1>2. s \in 1..(n + 1)
  BY <1>1, StrideFacts, Zenon
<1>3. A[n + 1][t] = A[n + 1 - s][Jump(t, s)]
  <2>1. PICK m : m = n + 1
    BY Zenon
  <2>2. m \in Nat /\ m # 0
    BY <2>1
  <2>3. A[m][t] = A[m - Stride(t, m)][Jump(t, Stride(t, m))]
    BY <2>2, CountsEquation, Zenon
  <2>4. s = Stride(t, m)
    BY <2>1, Zenon
  <2>. HIDE DEF A, s
  <2>5. m - Stride(t, m) = n + 1 - s /\ Jump(t, Stride(t, m)) = Jump(t, s)
    <3>1. m - s = n + 1 - s
      BY <1>2, <2>1
    <3>. QED BY <2>4, <3>1, Zenon
  <2>6. A[m][t] = A[n + 1 - s][Jump(t, s)]
    BY <2>3, <2>5, Zenon
  <2>. QED BY <2>1, <2>6, Zenon
<1>4. CASE s = 1
  <2>1. n + 1 - s = n
    BY <1>4
  <2>. QED BY <1>3, <1>4, <2>1, TickIsJump, Zenon
<1>5. CASE 1 < s
  <2>1. u \in Timer /\ Stride(u, n + 1 - 1) = s - 1 /\ Jump(u, s - 1) = Jump(t, s)
    BY <1>1, <1>5, JumpAfterTick
  <2>2. n + 1 - 1 = n /\ n # 0
    BY <1>2, <1>5
  <2>. HIDE DEF u, s, A
  <2>3. A[n][u] = A[n - (s - 1)][Jump(u, s - 1)]
    BY <2>1, <2>2, CountsEquation DEF A
  <2>4. n - (s - 1) = n + 1 - s
    BY <1>2
  <2>. QED BY <1>3, <2>1, <2>3, <2>4, Zenon DEF A, u
<1>. QED BY <1>2, <1>4, <1>5

\* Counting in bulk and single counts agree on every timer, for every number of counts.
LEMMA CountsAreTicks ==
  \A n \in Nat : \A t \in Timer : timer_advance_counts[n][t] = Ticked[n][t]
<1>. DEFINE N == {n \in Nat : \A t \in Timer : timer_advance_counts[n][t] = Ticked[n][t]}
<1>1. 0 \in N
  BY CountsEquation, TickedEquation, Zenon
<1>2. ASSUME NEW n \in N PROVE n + 1 \in N
  <2>1. \A t \in Timer : timer_tick_one(t) \in Timer
    BY TickIsJump, JumpFacts
  <2>2. ASSUME NEW t \in Timer PROVE timer_advance_counts[n + 1][t] = Ticked[n + 1][t]
    BY <2>1, CountsByTicks, TickedEquation
  <2>. QED BY <2>2
<1>3. N \in SUBSET Nat
  BY Zenon
<1>. HIDE DEF N
<1>4. N = Nat
  BY <1>1, <1>2, <1>3, SetInduction, Zenon
<1>. QED BY <1>4, Zenon DEF N

\* A single count keeps a timer a timer, with its fraction and divisor.
LEMMA TickFacts ==
  ASSUME NEW t \in Timer, NEW u, u = timer_tick_one(t)
  PROVE  u \in Timer /\ u.frac = t.frac /\ u.mode.div = t.mode.div
BY TickIsJump, JumpFacts

\* So do any number of counts.
LEMMA TickedKeeps ==
  \A n \in Nat : \A t \in Timer :
    /\ Ticked[n][t] \in Timer
    /\ Ticked[n][t].frac = t.frac /\ Ticked[n][t].mode.div = t.mode.div
<1>. DEFINE N == {n \in Nat : \A t \in Timer : /\ Ticked[n][t].frac = t.frac
                                               /\ Ticked[n][t].mode.div = t.mode.div}
<1>1. 0 \in N
  BY TickedEquation, Zenon
<1>2. ASSUME NEW n \in N PROVE n + 1 \in N
  <2>1. ASSUME NEW t \in Timer
        PROVE  /\ Ticked[n + 1][t].frac = t.frac
               /\ Ticked[n + 1][t].mode.div = t.mode.div
    <3>1. PICK u : u = timer_tick_one(t)
      BY Zenon
    <3>2. u \in Timer /\ u.frac = t.frac /\ u.mode.div = t.mode.div
      BY <3>1, TickFacts, Zenon
    <3>3. Ticked[n + 1][t] = Ticked[n][u]
      BY <3>1, TickedEquation, Zenon
    <3>. QED BY <3>2, <3>3, Zenon
  <2>. QED BY <2>1
<1>3. N = Nat
  <2>1. N \in SUBSET Nat
    BY Zenon
  <2>. HIDE DEF N
  <2>. QED BY <1>1, <1>2, <2>1, SetInduction, Zenon
<1>4. ASSUME NEW n \in Nat, NEW t \in Timer PROVE Ticked[n][t] \in Timer
  <2>1. Ticked[n] \in Maps
    BY TickedEquation, Zenon
  <2>. QED BY <2>1, Zenon DEF Maps
<1>. QED BY <1>3, <1>4, Zenon

\* Counts add up.
LEMMA TickedAdds ==
  \A n \in Nat : \A m \in Nat : \A t \in Timer : Ticked[m][Ticked[n][t]] = Ticked[n + m][t]
<1>. DEFINE N == {n \in Nat : \A m \in Nat : \A t \in Timer : Ticked[m][Ticked[n][t]] = Ticked[n + m][t]}
<1>1. 0 \in N
  BY TickedEquation
<1>2. ASSUME NEW n \in N PROVE n + 1 \in N
  <2>1. ASSUME NEW m \in Nat, NEW t \in Timer
        PROVE  Ticked[m][Ticked[n + 1][t]] = Ticked[n + 1 + m][t]
    <3>1. PICK u : u = timer_tick_one(t)
      BY Zenon
    <3>2. u \in Timer
      BY <3>1, TickFacts, Zenon
    <3>3. Ticked[n + 1][t] = Ticked[n][u]
      BY <3>1, TickedEquation, Zenon
    <3>4. Ticked[m][Ticked[n][u]] = Ticked[n + m][u]
      BY <3>2, Zenon
    <3>5. n + m \in Nat /\ n + 1 + m = (n + m) + 1
      OBVIOUS
    <3>6. Ticked[(n + m) + 1][t] = Ticked[n + m][u]
      BY <3>1, <3>5, TickedEquation, Zenon
    <3>. QED BY <3>3, <3>4, <3>5, <3>6, Zenon
  <2>. QED BY <2>1
<1>3. N \in SUBSET Nat
  BY Zenon
<1>. HIDE DEF N
<1>4. N = Nat
  BY <1>1, <1>2, <1>3, SetInduction, Zenon
<1>. QED BY <1>4, Zenon DEF N

\* The timer with its fraction replaced.
WithFrac(t, x) == [t EXCEPT !.frac = x]

\* The fraction is part of the timer and of nothing else.
LEMMA FracFacts ==
  ASSUME NEW t \in Timer, NEW x \in Nat
  PROVE  LET u == WithFrac(t, x) IN
         /\ u \in Timer /\ u.frac = x
         /\ u.counter = t.counter /\ u.target = t.target /\ u.mode = t.mode /\ u.fired = t.fired
         /\ u.irq_line = t.irq_line /\ u.request = t.request
         /\ u.target_flag = t.target_flag /\ u.overflow_flag = t.overflow_flag
BY Zenon DEF WithFrac, Timer

\* Raising the interrupt does not look at the fraction.
LEMMA FireFrac ==
  ASSUME NEW t \in Timer, NEW x \in Nat
  PROVE  timer_fire_irq(WithFrac(t, x)) = WithFrac(timer_fire_irq(t), x)
BY Zenon DEF WithFrac, Timer, timer_fire_irq

\* Neither does reaching the target or the overflow.
LEMMA TargetFrac ==
  ASSUME NEW t \in Timer, NEW x \in Nat
  PROVE  AtTarget(WithFrac(t, x)) = WithFrac(AtTarget(t), x)
<1>. DEFINE f == [t EXCEPT !.target_flag = TRUE]
            g == IF f.mode.irq_target THEN timer_fire_irq(f) ELSE f
            fx == [WithFrac(t, x) EXCEPT !.target_flag = TRUE]
            gx == IF fx.mode.irq_target THEN timer_fire_irq(fx) ELSE fx
<1>1. f \in Timer /\ fx = WithFrac(f, x) /\ fx.mode = f.mode
  BY Zenon DEF WithFrac, Timer
<1>2. AtTarget(t) = IF g.mode.reset THEN [g EXCEPT !.counter = 0] ELSE g
  BY Zenon DEF AtTarget
<1>3. AtTarget(WithFrac(t, x)) = IF gx.mode.reset THEN [gx EXCEPT !.counter = 0] ELSE gx
  BY Zenon DEF AtTarget
<1>. HIDE DEF f, fx
<1>4. g \in Timer /\ gx = WithFrac(g, x)
  BY <1>1, FireFrac, FireFacts, Zenon
<1>. HIDE DEF g, gx
<1>5. gx.mode = g.mode /\ [gx EXCEPT !.counter = 0] = WithFrac([g EXCEPT !.counter = 0], x)
  BY <1>4, Zenon DEF WithFrac, Timer
<1>. QED BY <1>2, <1>3, <1>4, <1>5, Zenon

\* The overflow does not look at the fraction either.
LEMMA OverflowFrac ==
  ASSUME NEW t \in Timer, NEW x \in Nat
  PROVE  AtOverflow(WithFrac(t, x)) = WithFrac(AtOverflow(t), x)
<1>. DEFINE f == [t EXCEPT !.overflow_flag = TRUE]
            fx == [WithFrac(t, x) EXCEPT !.overflow_flag = TRUE]
<1>1. f \in Timer /\ fx = WithFrac(f, x) /\ fx.mode = f.mode
  BY Zenon DEF WithFrac, Timer
<1>2. AtOverflow(t) = IF f.mode.irq_overflow THEN timer_fire_irq(f) ELSE f
  BY Zenon DEF AtOverflow
<1>3. AtOverflow(WithFrac(t, x)) = IF fx.mode.irq_overflow THEN timer_fire_irq(fx) ELSE fx
  BY Zenon DEF AtOverflow
<1>. HIDE DEF f, fx
<1>. QED BY <1>1, <1>2, <1>3, FireFrac, Zenon

\* Nor does a single count.
LEMMA TickFrac ==
  ASSUME NEW t \in Timer, NEW x \in Nat
  PROVE  timer_tick_one(WithFrac(t, x)) = WithFrac(timer_tick_one(t), x)
<1>. DEFINE c == [t EXCEPT !.counter = (@ + 1) % W]
            d == IF c.counter = c.target THEN AtTarget(c) ELSE c
            y == WithFrac(t, x)
            cx == [y EXCEPT !.counter = (@ + 1) % W]
            dx == IF cx.counter = cx.target THEN AtTarget(cx) ELSE cx
<1>1. W \in Nat /\ W > 1 /\ t.counter \in 0..(W - 1) /\ t.counter + 1 \in Nat
  BY TimersAssumption DEF Timer
<1>2. (t.counter + 1) % W \in 0..(W - 1)
  BY <1>1, SMT
<1>3. y.counter = t.counter
  BY FracFacts, Zenon
<1>4. c \in Timer /\ cx = WithFrac(c, x)
  BY <1>2, Zenon DEF WithFrac, Timer
<1>5. timer_tick_one(t) = IF t.counter = W - 1 THEN AtOverflow(d) ELSE d
  BY Zenon DEF timer_tick_one
<1>6. timer_tick_one(y) = IF y.counter = W - 1 THEN AtOverflow(dx) ELSE dx
  BY Zenon DEF timer_tick_one
<1>. HIDE DEF c, cx, y
<1>7. cx.counter = c.counter /\ cx.target = c.target
  BY <1>4, FracFacts, Zenon
<1>8. d \in Timer /\ dx = WithFrac(d, x)
  BY <1>4, <1>7, TargetFrac, EventFacts, Zenon
<1>. HIDE DEF d, dx
<1>9. timer_tick_one(y) = WithFrac(timer_tick_one(t), x)
  BY <1>3, <1>5, <1>6, <1>8, OverflowFrac, Zenon
<1>. QED BY <1>9, Zenon DEF y

\* Nor do any number of counts.
LEMMA TickedFrac ==
  \A n \in Nat : \A t \in Timer : \A x \in Nat :
    Ticked[n][WithFrac(t, x)] = WithFrac(Ticked[n][t], x)
<1>. DEFINE N == {n \in Nat : \A t \in Timer : \A x \in Nat :
                                Ticked[n][WithFrac(t, x)] = WithFrac(Ticked[n][t], x)}
<1>1. 0 \in N
  BY TickedEquation, FracFacts, ZenonT(60)
<1>2. ASSUME NEW n \in N PROVE n + 1 \in N
  <2>1. ASSUME NEW t \in Timer, NEW x \in Nat
        PROVE  Ticked[n + 1][WithFrac(t, x)] = WithFrac(Ticked[n + 1][t], x)
    <3>1. PICK u : u = timer_tick_one(t)
      BY Zenon
    <3>2. u \in Timer
      BY <3>1, TickFacts, Zenon
    <3>3. Ticked[n + 1][t] = Ticked[n][u]
      BY <3>1, TickedEquation, Zenon
    <3>4. WithFrac(t, x) \in Timer /\ timer_tick_one(WithFrac(t, x)) = WithFrac(u, x)
      BY <3>1, FracFacts, TickFrac, Zenon
    <3>5. Ticked[n + 1][WithFrac(t, x)] = Ticked[n][WithFrac(u, x)]
      BY <3>4, TickedEquation
    <3>6. Ticked[n][WithFrac(u, x)] = WithFrac(Ticked[n][u], x)
      BY <3>2, Zenon
    <3>. QED BY <3>3, <3>5, <3>6, Zenon
  <2>. QED BY <2>1
<1>3. N \in SUBSET Nat
  BY Zenon
<1>. HIDE DEF N
<1>4. N = Nat
  BY <1>1, <1>2, <1>3, SetInduction, Zenon
<1>. QED BY <1>4, Zenon DEF N

\* Fewer counts than the distance to the next interrupt raise none.
LEMMA QuietTicks ==
  \A n \in Nat : \A t \in Timer : n < TicksToIrq(t) => Ticked[n][t].fired = t.fired
<1>. DEFINE N == {n \in Nat : \A t \in Timer : n < TicksToIrq(t) => Ticked[n][t].fired = t.fired}
<1>1. 0 \in N
  BY TickedEquation, Zenon
<1>2. ASSUME NEW n \in N PROVE n + 1 \in N
  <2>1. ASSUME NEW t \in Timer, n + 1 < TicksToIrq(t)
        PROVE  Ticked[n + 1][t].fired = t.fired
    <3>1. PICK u : u = timer_tick_one(t)
      BY Zenon
    <3>2. TicksToIrq(t) \in Nat /\ TargetDist(t) \in Nat /\ 1 <= TargetDist(t)
          /\ OverflowDist(t) \in Nat /\ 1 <= OverflowDist(t)
      <4>1. W \in Nat /\ W > 1 /\ t.counter \in 0..(W - 1)
        BY TimersAssumption DEF Timer
      <4>. QED BY <4>1, TicksToIrqFacts, TargetDistFacts DEF OverflowDist, TimerNever
    <3>3. n \in Nat /\ 1 < TicksToIrq(t)
      BY <2>1, <3>2
    <3>4. u \in Timer /\ u.fired = t.fired /\ TicksToIrq(u) >= TicksToIrq(t) - 1
      BY <3>1, <3>2, <3>3, TickIsJump, QuietJump
    <3>5. TicksToIrq(u) \in Nat
      BY <3>4, TicksToIrqFacts
    <3>6. n < TicksToIrq(u)
      BY <2>1, <3>2, <3>3, <3>4, <3>5
    <3>7. Ticked[n][u].fired = u.fired
      BY <3>4, <3>6, Zenon
    <3>8. Ticked[n + 1][t] = Ticked[n][u]
      BY <3>1, <3>3, TickedEquation, Zenon
    <3>. QED BY <3>4, <3>7, <3>8, Zenon
  <2>. QED BY <2>1
<1>3. N \in SUBSET Nat
  BY Zenon
<1>. HIDE DEF N
<1>4. N = Nat
  BY <1>1, <1>2, <1>3, SetInduction, Zenon
<1>. QED BY <1>4, Zenon DEF N

\* Raising the interrupt counts, unless it toggles the line off, and never uncounts.
LEMMA FireCounts ==
  ASSUME NEW t \in Timer
  PROVE  /\ timer_fire_irq(t).fired >= t.fired
         /\ ~t.mode.toggle => timer_fire_irq(t).fired = t.fired + 1
<1>1. t.fired \in Nat
  BY Zenon DEF Timer
<1>. DEFINE line == t.mode.toggle /\ ~t.irq_line
            fi == IF t.mode.toggle /\ ~line THEN t.fired ELSE t.fired + 1
<1>2. timer_fire_irq(t).fired = fi
  BY Zenon DEF timer_fire_irq, Timer
<1>. QED BY <1>1, <1>2

\* A count that reaches an armed event raises the interrupt.
LEMMA TickFires ==
  ASSUME NEW t \in Timer, TicksToIrq(t) = 1, ~t.mode.toggle
  PROVE  timer_tick_one(t).fired > 0
<1>1. /\ W \in Nat /\ W > 1 /\ t.target \in 0..(W - 1) /\ t.counter \in 0..(W - 1)
      /\ t.mode \in Modes /\ t.fired \in Nat
  BY TimersAssumption DEF Timer
<1>2. \/ t.mode.irq_target /\ TargetDist(t) = 1
      \/ t.mode.irq_overflow /\ OverflowDist(t) = 1
  BY <1>1, TicksToIrqFacts DEF TimerNever
<1>. DEFINE c == [t EXCEPT !.counter = (@ + 1) % W]
            d == IF 1 = TargetDist(t) THEN AtTarget(c) ELSE c
<1>3. (t.counter + 1) % W \in 0..(W - 1)
  BY <1>1, SMT
<1>4. c \in Timer /\ c.fired = t.fired /\ c.mode = t.mode
  BY <1>3, Zenon DEF Timer
<1>5. timer_tick_one(t) = IF t.counter + 1 > W - 1 THEN AtOverflow(d) ELSE d
  BY TickIsJump, Zenon DEF Jump
<1>. HIDE DEF c
<1>6. ASSUME NEW u \in Timer
      PROVE  /\ AtTarget(u).fired >= u.fired
             /\ u.mode.irq_target /\ ~u.mode.toggle => AtTarget(u).fired > 0
             /\ ~u.mode.irq_target => AtTarget(u).mode = u.mode
  <2>. DEFINE f == [u EXCEPT !.target_flag = TRUE]
              g == IF f.mode.irq_target THEN timer_fire_irq(f) ELSE f
  <2>1. f \in Timer /\ f.mode = u.mode /\ f.fired = u.fired /\ u.fired \in Nat
    BY Zenon DEF Timer
  <2>2. AtTarget(u) = IF g.mode.reset THEN [g EXCEPT !.counter = 0] ELSE g
    BY Zenon DEF AtTarget
  <2>. HIDE DEF f
  <2>3. g \in Timer /\ g.fired \in Nat /\ g.fired >= u.fired
        /\ (u.mode.irq_target /\ ~u.mode.toggle => g.fired > 0)
        /\ (~u.mode.irq_target => g.mode = u.mode)
    <3>1. CASE f.mode.irq_target
      <4>1. g = timer_fire_irq(f)
        BY <3>1, Zenon
      <4>. HIDE DEF g
      <4>2. g \in Timer
        BY <2>1, <4>1, FireFacts, Zenon
      <4>3. g.fired \in Nat
        BY <4>2, Zenon DEF Timer
      <4>. QED BY <2>1, <3>1, <4>1, <4>2, <4>3, FireCounts
    <3>2. CASE ~f.mode.irq_target
      BY <2>1, <3>2
    <3>. QED BY <3>1, <3>2, Zenon
  <2>. HIDE DEF g
  <2>4. [g EXCEPT !.counter = 0].fired = g.fired /\ [g EXCEPT !.counter = 0].mode = g.mode
    BY <2>3, Zenon DEF Timer
  <2>. QED BY <2>1, <2>2, <2>3, <2>4, Zenon
<1>7. ASSUME NEW u \in Timer
      PROVE  /\ AtOverflow(u).fired >= u.fired
             /\ u.mode.irq_overflow /\ ~u.mode.toggle => AtOverflow(u).fired > 0
  <2>. DEFINE f == [u EXCEPT !.overflow_flag = TRUE]
  <2>1. f \in Timer /\ f.mode = u.mode /\ f.fired = u.fired /\ u.fired \in Nat
    BY Zenon DEF Timer
  <2>2. AtOverflow(u) = IF f.mode.irq_overflow THEN timer_fire_irq(f) ELSE f
    BY Zenon DEF AtOverflow
  <2>. HIDE DEF f
  <2>. QED BY <2>1, <2>2, FireCounts
<1>8. d \in Timer
  BY <1>4, EventFacts, Zenon
<1>9. AtOverflow(d) \in Timer
  BY <1>8, EventFacts, Zenon
<1>10. d.fired \in Nat /\ AtOverflow(d).fired \in Nat
  BY <1>8, <1>9, Zenon DEF Timer
<1>11. CASE t.mode.irq_target /\ TargetDist(t) = 1
  <2>1. d.fired > 0
    BY <1>4, <1>6, <1>11, Zenon
  <2>. HIDE DEF d
  <2>. QED BY <1>5, <1>7, <1>8, <1>10, <2>1
<1>12. CASE t.mode.irq_overflow /\ OverflowDist(t) = 1 /\ ~(t.mode.irq_target /\ TargetDist(t) = 1)
  <2>1. d.mode = t.mode
    BY <1>4, <1>6, <1>12, Zenon
  <2>2. t.counter + 1 > W - 1
    BY <1>1, <1>12 DEF OverflowDist
  <2>. HIDE DEF d
  <2>. QED BY <1>5, <1>7, <1>8, <1>12, <2>1, <2>2, Zenon
<1>. QED BY <1>2, <1>11, <1>12, Zenon

\* As many counts as the distance to the next interrupt raise it, if the counter is not
\* reset on the way and the line does not toggle.
LEMMA TicksFire ==
  \A n \in Nat : \A t \in Timer :
    /\ TicksToIrq(t) = n + 1 /\ TicksToIrq(t) < TimerNever
    /\ ~t.mode.toggle /\ ~t.mode.reset
    => Ticked[n + 1][t].fired > 0
<1>. DEFINE Due(n, t) == /\ TicksToIrq(t) = n + 1 /\ TicksToIrq(t) < TimerNever
                         /\ ~t.mode.toggle /\ ~t.mode.reset
            N == {n \in Nat : \A t \in Timer : Due(n, t) => Ticked[n + 1][t].fired > 0}
<1>0. \A n \in Nat : \A t \in Timer : Ticked[n + 1][t] = Ticked[n][timer_tick_one(t)]
  BY TickedEquation, Zenon
<1>1. 0 \in N
  <2>1. ASSUME NEW t \in Timer, Due(0, t) PROVE Ticked[0 + 1][t].fired > 0
    <3>1. PICK u : u = timer_tick_one(t)
      BY Zenon
    <3>2. u \in Timer
      BY <3>1, TickFacts, Zenon
    <3>3. Ticked[0 + 1][t] = u
      BY <1>0, <3>1, <3>2, TickedEquation, Zenon
    <3>4. TicksToIrq(t) = 1 /\ ~t.mode.toggle
      BY <2>1
    <3>5. u.fired > 0
      BY <3>1, <3>4, TickFires, Zenon
    <3>. QED BY <3>3, <3>5, Zenon
  <2>. QED BY <2>1, Zenon
<1>2. ASSUME NEW n \in N PROVE n + 1 \in N
  <2>1. ASSUME NEW t \in Timer, Due(n + 1, t) PROVE Ticked[n + 1 + 1][t].fired > 0
    <3>1. PICK u : u = timer_tick_one(t)
      BY Zenon
    <3>2. TicksToIrq(t) \in Nat /\ TargetDist(t) \in Nat /\ 1 <= TargetDist(t)
          /\ OverflowDist(t) \in Nat /\ 1 <= OverflowDist(t) /\ TimerNever \in Nat
      <4>1. W \in Nat /\ W > 1 /\ t.counter \in 0..(W - 1)
        BY TimersAssumption DEF Timer
      <4>. QED BY <4>1, TicksToIrqFacts, TargetDistFacts DEF OverflowDist, TimerNever
    <3>3. n \in Nat /\ 1 < TicksToIrq(t)
      BY <2>1, <3>2
    <3>4. /\ u \in Timer /\ u.mode = t.mode /\ TicksToIrq(u) >= TicksToIrq(t) - 1
          /\ t.mode.irq_target => TargetDist(u) = TargetDist(t) - 1
          /\ t.mode.irq_overflow => OverflowDist(u) = OverflowDist(t) - 1
      BY <2>1, <3>1, <3>2, <3>3, TickIsJump, QuietJump
    <3>5. /\ TicksToIrq(u) \in Nat
          /\ u.mode.irq_target => TicksToIrq(u) <= TargetDist(u)
          /\ u.mode.irq_overflow => TicksToIrq(u) <= OverflowDist(u)
      BY <3>4, TicksToIrqFacts
    <3>6. \/ t.mode.irq_target /\ TicksToIrq(t) = TargetDist(t)
          \/ t.mode.irq_overflow /\ TicksToIrq(t) = OverflowDist(t)
      BY <2>1, <3>2, TicksToIrqFacts
    <3>7. TicksToIrq(u) = TicksToIrq(t) - 1
      BY <3>2, <3>4, <3>5, <3>6
    <3>8. Due(n, u)
      BY <2>1, <3>2, <3>3, <3>4, <3>7
    <3>9. Ticked[n + 1][u].fired > 0
      BY <3>4, <3>8, Zenon
    <3>10. Ticked[n + 1 + 1][t] = Ticked[n + 1][u]
      <4>1. n + 1 \in Nat
        BY <3>3
      <4>. QED BY <1>0, <3>1, <4>1, Zenon
    <3>. QED BY <3>9, <3>10, Zenon
  <2>. QED BY <2>1
<1>3. N \in SUBSET Nat
  BY Zenon
<1>. HIDE DEF N
<1>4. N = Nat
  BY <1>1, <1>2, <1>3, SetInduction, Zenon
<1>. QED BY <1>4, Zenon DEF N

\* The timer between the guest's accesses: its fraction is less than a count, and no
\* interrupt is counted yet.
TimerInv == tm \in Timer /\ tm.frac < tm.mode.div /\ tm.fired = 0

\* A clock source's divisor is positive.
LEMMA DivisorFacts ==
  ASSUME NEW t \in Timer
  PROVE  t.mode.div \in Nat \ {0} /\ t.frac \in Nat
<1>1. t.mode \in Modes /\ t.frac \in Nat
  BY Zenon DEF Timer
<1>2. t.mode.div \in Divisors
  BY <1>1, Zenon DEF Modes
<1>. QED BY <1>1, <1>2, TimersAssumption, Zenon

\* A charge in cycles is so many counts on the timer with the fraction that remains.
LEMMA DividedFacts ==
  ASSUME NEW t \in Timer, NEW n \in Nat
  PROVE  /\ TicksIn(t, n) \in Nat /\ FracAfter(t, n) \in Nat /\ FracAfter(t, n) < t.mode.div
         /\ timer_advance_divided(t, n) = WithFrac(Ticked[TicksIn(t, n)][t], FracAfter(t, n))
         /\ timer_advance_divided(t, n) \in Timer
         /\ timer_advance_divided(t, n).frac = FracAfter(t, n)
         /\ timer_advance_divided(t, n).mode.div = t.mode.div
<1>1. t.mode.div \in Nat \ {0} /\ t.frac \in Nat /\ t.frac + n \in Nat
  BY DivisorFacts
<1>2. TicksIn(t, n) \in Nat /\ FracAfter(t, n) \in 0..(t.mode.div - 1)
  BY <1>1, DivMod, Zenon DEF TicksIn, FracAfter
<1>3. FracAfter(t, n) \in Nat /\ FracAfter(t, n) < t.mode.div
  BY <1>1, <1>2
<1>. DEFINE k == TicksIn(t, n)
            x == FracAfter(t, n)
            v == Ticked[k][t]
<1>. HIDE DEF k, x
<1>4. WithFrac(t, x) \in Timer
  BY <1>3, FracFacts, Zenon DEF x
<1>5. timer_advance_divided(t, n) = Ticked[k][WithFrac(t, x)]
  BY <1>2, <1>4, CountsAreTicks, Zenon DEF timer_advance_divided, WithFrac, k, x
<1>6. timer_advance_divided(t, n) = WithFrac(v, x)
  BY <1>2, <1>3, <1>5, TickedFrac, Zenon DEF k, x
<1>7. v \in Timer /\ v.mode.div = t.mode.div
  BY <1>2, TickedKeeps, Zenon DEF k
<1>. HIDE DEF v
<1>8. WithFrac(v, x) \in Timer /\ WithFrac(v, x).frac = x /\ WithFrac(v, x).mode = v.mode
  BY <1>3, <1>7, FracFacts, Zenon DEF x
<1>. QED BY <1>2, <1>3, <1>6, <1>7, <1>8, Zenon DEF k, x, v

\* The invariant holds in every state the counter reaches.
LEMMA TimerInvHolds == TimerSpec => []TimerInv
<1>1. TimerInit => TimerInv
  BY TimersAssumption DEF TimerInit, TimerInv, Timer, Modes
<1>2. TimerInv /\ [TimerNext]_tmVars => TimerInv'
  <2>. SUFFICES ASSUME TimerInv, [TimerNext]_tmVars PROVE TimerInv'
    BY Zenon
  <2>0. tm \in Timer /\ tm.frac < tm.mode.div /\ tm.fired = 0
    BY Zenon DEF TimerInv
  <2>1. ASSUME NEW c \in 1..MaxTicks, AdvanceTimer(c) PROVE TimerInv'
    <3>1. PICK a : a = timer_advance_divided(tm, c)
      BY Zenon
    <3>2. c \in Nat
      OBVIOUS
    <3>3. a \in Timer /\ a.frac < a.mode.div
      BY <2>0, <3>1, <3>2, DividedFacts, Zenon
    <3>4. tm' = [a EXCEPT !.fired = 0]
      BY <2>1, <3>1, Zenon DEF AdvanceTimer
    <3>. QED BY <3>3, <3>4, Zenon DEF TimerInv, Timer
  <2>2. ASSUME NEW v \in 0..(W - 1), WriteCounter(v) PROVE TimerInv'
    BY <2>0, <2>2, Zenon DEF WriteCounter, TimerInv, Timer
  <2>3. ASSUME NEW v \in 0..(W - 1), WriteTarget(v) PROVE TimerInv'
    BY <2>0, <2>3, Zenon DEF WriteTarget, TimerInv, Timer
  <2>4. ASSUME NEW m \in Modes, WriteMode(m) PROVE TimerInv'
    <3>1. m.div \in Nat \ {0}
      BY TimersAssumption, Zenon DEF Modes
    <3>2. 0 \in 0..(W - 1)
      BY TimersAssumption
    <3>3. tm' \in Timer /\ tm'.frac = 0 /\ tm'.mode = m /\ tm'.fired = 0
      BY <2>0, <2>4, <3>2, Zenon DEF WriteMode, Timer
    <3>. QED BY <3>1, <3>3 DEF TimerInv
  <2>5. ASSUME ReadMode PROVE TimerInv'
    BY <2>0, <2>5, Zenon DEF ReadMode, TimerInv, Timer
  <2>6. ASSUME UNCHANGED tmVars PROVE TimerInv'
    BY <2>0, <2>6, Zenon DEF tmVars, TimerInv
  <2>. QED BY <2>1, <2>2, <2>3, <2>4, <2>5, <2>6, Zenon DEF TimerNext
<1>. QED BY <1>1, <1>2, PTL DEF TimerSpec

\* Whatever the guest did before, a bulk advance leaves the timer as single counts do.
THEOREM BulkAlwaysSingle == TimerSpec => []BulkEqualsSingle
<1>1. TimerInv => BulkEqualsSingle
  BY CountsAreTicks DEF TimerInv, BulkEqualsSingle
<1>. QED BY <1>1, TimerInvHolds, PTL

\* Whatever the guest did before, cycles may be charged in parts.
THEOREM ChargeAlwaysSplits == TimerSpec => []SplitCharge
<1>1. ASSUME NEW t \in Timer, NEW a \in Nat, NEW b \in Nat
      PROVE  timer_advance_divided(timer_advance_divided(t, a), b) = timer_advance_divided(t, a + b)
  <2>1. PICK u : u = timer_advance_divided(t, a)
    BY Zenon
  <2>. DEFINE k == TicksIn(t, a)
              x == FracAfter(t, a)
              j == TicksIn(u, b)
              y == FracAfter(u, b)
              v == Ticked[k][t]
  <2>2. /\ k \in Nat /\ x \in Nat /\ u = WithFrac(v, x)
        /\ u \in Timer /\ u.frac = x /\ u.mode.div = t.mode.div
    BY <2>1, DividedFacts, Zenon
  <2>3. j \in Nat /\ y \in Nat /\ timer_advance_divided(u, b) = WithFrac(Ticked[j][u], y)
    BY <2>2, DividedFacts, Zenon
  <2>4. t.mode.div \in Nat \ {0} /\ t.frac \in Nat /\ t.frac + a \in Nat /\ t.frac + (a + b) = (t.frac + a) + b
    BY DivisorFacts
  <2>5. k + j = TicksIn(t, a + b) /\ y = FracAfter(t, a + b)
    <3>1. j = (x + b) \div t.mode.div /\ y = (x + b) % t.mode.div
      BY <2>2, Zenon DEF TicksIn, FracAfter
    <3>2. k = (t.frac + a) \div t.mode.div /\ x = (t.frac + a) % t.mode.div
      BY Zenon DEF TicksIn, FracAfter
    <3>3. /\ ((t.frac + a) \div t.mode.div) + ((((t.frac + a) % t.mode.div) + b) \div t.mode.div)
                = ((t.frac + a) + b) \div t.mode.div
          /\ (((t.frac + a) % t.mode.div) + b) % t.mode.div = ((t.frac + a) + b) % t.mode.div
      BY <2>4, SplitDiv, Zenon
    <3>. QED BY <2>4, <3>1, <3>2, <3>3, Zenon DEF TicksIn, FracAfter
  <2>6. v \in Timer
    BY <2>2, TickedKeeps, Zenon
  <2>. HIDE DEF k, j, x, y, v
  <2>7. Ticked[j][u] = WithFrac(Ticked[j][v], x)
    BY <2>2, <2>3, <2>6, TickedFrac
  <2>8. Ticked[j][v] = Ticked[k + j][t]
    BY <2>2, <2>3, TickedAdds DEF v
  <2>9. PICK w : w = Ticked[k + j][t]
    BY Zenon
  <2>10. w \in Timer
    BY <2>2, <2>3, <2>9, TickedKeeps
  <2>11. WithFrac(WithFrac(w, x), y) = WithFrac(w, y)
    BY <2>10, Zenon DEF WithFrac, Timer
  <2>12. timer_advance_divided(t, a + b) = WithFrac(w, y)
    <3>1. a + b \in Nat
      OBVIOUS
    <3>. QED BY <2>5, <2>9, <3>1, DividedFacts, Zenon
  <2>. QED BY <2>1, <2>3, <2>7, <2>8, <2>9, <2>11, <2>12, Zenon
<1>2. TimerInv => SplitCharge
  <2>. SUFFICES ASSUME TimerInv, NEW a \in 0..MaxTicks, NEW b \in 0..MaxTicks
                PROVE  timer_advance_divided(timer_advance_divided(tm, a), b)
                         = timer_advance_divided(tm, a + b)
    BY Zenon DEF SplitCharge
  <2>1. tm \in Timer /\ a \in Nat /\ b \in Nat
    BY DEF TimerInv
  <2>. QED BY <1>1, <2>1, Zenon
<1>. QED BY <1>2, TimerInvHolds, PTL

\* Whatever the guest did before, timers_cycles_to_irq is neither too long nor too short.
THEOREM TimerAlwaysOnTime == TimerSpec => []TimerNeverLate
<1>1. TimerInv => TimerNeverLate
  <2>. SUFFICES ASSUME TimerInv PROVE TimerNeverLate
    BY Zenon
  <2>. DEFINE T == TicksToIrq(tm)
              div == tm.mode.div
              due == timers_cycles_to_irq(tm)
  <2>1. tm \in Timer /\ tm.frac < div /\ tm.fired = 0 /\ div \in Nat \ {0} /\ tm.frac \in Nat
    BY DivisorFacts, Zenon DEF TimerInv
  <2>2. T \in Nat /\ T >= 1
    BY <2>1, TicksToIrqFacts DEF TimerNever
  <2>. HIDE DEF T
  <2>3. T * div \in Nat /\ T * div >= div
    <3>1. PICK e \in Nat : T = 1 + e
      <4>1. T - 1 \in Nat /\ T = 1 + (T - 1)
        BY <2>2
      <4>. QED BY <4>1, Zenon
    <3>2. PICK d \in Nat : d = div
      BY <2>1, Zenon
    <3>3. (1 + e) * d = d + e * d /\ e * d \in Nat
      BY SMT
    <3>. QED BY <3>1, <3>2, <3>3
  <2>4. due = T * div - tm.frac /\ due \in Nat
    BY <2>1, <2>3 DEF timers_cycles_to_irq, T
  <2>. HIDE DEF div, due
  <2>5. ASSUME NEW n \in Nat
        PROVE  /\ TicksIn(tm, n) = (tm.frac + n) \div div /\ TicksIn(tm, n) \in Nat
               /\ timer_advance_divided(tm, n).fired = Ticked[TicksIn(tm, n)][tm].fired
    <3>1. PICK k, x, v : k = TicksIn(tm, n) /\ x = FracAfter(tm, n) /\ v = Ticked[k][tm]
      BY Zenon
    <3>2. k \in Nat /\ x \in Nat /\ timer_advance_divided(tm, n) = WithFrac(v, x)
      BY <2>1, <3>1, DividedFacts, Zenon
    <3>3. v \in Timer
      BY <2>1, <3>1, <3>2, TickedKeeps, Zenon
    <3>4. WithFrac(v, x).fired = v.fired
      BY <3>2, <3>3, FracFacts, Zenon
    <3>5. TicksIn(tm, n) = (tm.frac + n) \div div
      BY Zenon DEF TicksIn, div
    <3>. QED BY <3>1, <3>2, <3>4, <3>5, Zenon
  <2>6. ASSUME NEW n \in Nat, n < due PROVE timer_advance_divided(tm, n).fired = 0
    <3>1. tm.frac + n \in Nat /\ tm.frac + n < T * div
      BY <2>1, <2>3, <2>4, <2>6
    <3>2. (tm.frac + n) \div div < T
      BY <2>1, <2>2, <3>1, DivBelow, Zenon DEF div
    <3>3. TicksIn(tm, n) \in Nat /\ TicksIn(tm, n) < TicksToIrq(tm)
      BY <2>5, <3>2, Zenon DEF T
    <3>4. Ticked[TicksIn(tm, n)][tm].fired = tm.fired
      BY <2>1, <3>3, QuietTicks, Zenon
    <3>. QED BY <2>1, <2>5, <3>4, Zenon
  <2>7. ASSUME T < TimerNever, ~tm.mode.toggle, ~tm.mode.reset
        PROVE  timer_advance_divided(tm, due).fired > 0
    <3>1. tm.frac + due \in Nat /\ tm.frac + due = T * div
      BY <2>1, <2>3, <2>4
    <3>2. (tm.frac + due) \div div = T
      BY <2>1, <2>2, <3>1, DivBelow, Zenon DEF div
    <3>3. T - 1 \in Nat /\ (T - 1) + 1 = T
      BY <2>2
    <3>4. Ticked[(T - 1) + 1][tm].fired > 0
      BY <2>1, <2>7, <3>3, TicksFire, Zenon DEF T
    <3>. QED BY <2>4, <2>5, <3>2, <3>3, <3>4
  <2>. QED BY <2>6, <2>7 DEF TimerNeverLate, due, T
<1>. QED BY <1>1, TimerInvHolds, PTL

-----------------------------------------------------------------------------
(* The serial port *)

PortFields ==
  {"ctrl", "stat", "ack_visible_reads", "active_device", "pad_owner", "first",
   "shift_active", "shift_byte", "shift_remaining", "shift_ack_irq_en",
   "tx_buffered", "tx_buffer", "tx_buffer_ack_irq_en",
   "pending_ack", "ack_remaining", "pending_ack_irq_en", "timing_active", "i_stat"}

Typed(s) ==
  /\ DOMAIN s = PortFields
  /\ s.shift_active \in BOOLEAN /\ s.pending_ack \in BOOLEAN
  /\ s.shift_remaining \in Nat /\ s.ack_remaining \in Nat

Apart(s) == s.shift_active /\ s.pending_ack => s.ack_remaining < s.shift_remaining
Near(s) == s.pending_ack /\ s.active_device # "pad" => s.ack_remaining <= ACK
Rests(s) == ~s.shift_active /\ s.active_device # "pad" => "TX_RDY" \in s.stat

Safe(s) == Typed(s) /\ Apart(s) /\ Near(s) /\ Rests(s)

\* The two delays are numbers, and an acknowledge is faster than a byte.
LEMMA Rates == BAUD \in Nat /\ ACK \in Nat /\ ACK < BAUD /\ 0 < BAUD
  BY SioAssumption

\* Steps that leave the shifter, the acknowledge and the device alone.
LEMMA KeepsSafe ==
  ASSUME NEW s, Safe(s), NEW n, DOMAIN n = PortFields,
         n.shift_active = s.shift_active, n.pending_ack = s.pending_ack,
         n.shift_remaining = s.shift_remaining, n.ack_remaining = s.ack_remaining,
         n.active_device = s.active_device, "TX_RDY" \in s.stat => "TX_RDY" \in n.stat
  PROVE  Safe(n)
  BY Zenon DEF Safe, Typed, Apart, Near, Rests

\* Nothing shifts and nothing is pending.
LEMMA QuietSafe ==
  ASSUME NEW n, DOMAIN n = PortFields, n.shift_active = FALSE, n.pending_ack = FALSE,
         n.shift_remaining = 0, n.ack_remaining = 0,
         n.active_device # "pad" => "TX_RDY" \in n.stat
  PROVE  Safe(n)
<1>1. n.shift_active \in BOOLEAN /\ n.pending_ack \in BOOLEAN /\ ~n.shift_active /\ ~n.pending_ack
  BY Zenon
<1>2. n.shift_remaining \in Nat /\ n.ack_remaining \in Nat
  OBVIOUS
<1> QED BY <1>1, <1>2, Zenon DEF Safe, Typed, Apart, Near, Rests

\* A port out of reset is safe.
LEMMA FreshPort == sio_init.active_device = "none" /\ Safe(sio_init)
<1>1. /\ DOMAIN sio_init = PortFields /\ sio_init.shift_active = FALSE /\ sio_init.pending_ack = FALSE
      /\ sio_init.shift_remaining = 0 /\ sio_init.ack_remaining = 0
      /\ sio_init.active_device = "none" /\ sio_init.stat = Ready
  BY Zenon DEF sio_init, PortFields
<1> QED BY <1>1, QuietSafe, Zenon DEF Ready

\* What abandoning a transfer (Killed) clears and what it leaves.
LEMMA KilledParts ==
  ASSUME NEW s, DOMAIN s = PortFields, NEW n, n = Killed(s)
  PROVE  /\ DOMAIN n = PortFields /\ n.shift_active = FALSE /\ n.pending_ack = FALSE
         /\ n.shift_remaining = 0 /\ n.ack_remaining = 0
         /\ n.active_device = s.active_device /\ n.stat = s.stat /\ n.ctrl = s.ctrl
  BY Zenon DEF Killed, PortFields

\* The device's half of a byte touches neither countdown and makes the port ready.
LEMMA ProcessParts ==
  ASSUME NEW s, DOMAIN s = PortFields, NEW b, NEW n, n = sio_process_byte(s, b)
  PROVE  /\ DOMAIN n = PortFields /\ n.active_device = b.to /\ "TX_RDY" \in n.stat
         /\ n.shift_active = s.shift_active /\ n.pending_ack = s.pending_ack
         /\ n.shift_remaining = s.shift_remaining /\ n.ack_remaining = s.ack_remaining
         /\ n.ctrl = s.ctrl
  BY Zenon DEF sio_process_byte, PortFields, Ready

\* An acknowledge that fires touches neither countdown and leaves a ready port ready.
LEMMA FireParts ==
  ASSUME NEW s, DOMAIN s = PortFields, NEW n, n = sio_fire_ack_irq(s)
  PROVE  /\ DOMAIN n = PortFields /\ n.active_device = s.active_device
         /\ n.shift_active = s.shift_active /\ n.pending_ack = s.pending_ack
         /\ n.shift_remaining = s.shift_remaining /\ n.ack_remaining = s.ack_remaining
         /\ "TX_RDY" \in s.stat => "TX_RDY" \in n.stat
  BY Zenon DEF sio_fire_ack_irq, PortFields

\* A completed byte stops the shifter; an acknowledge it raises is ACK cycles away.
LEMMA CompleteParts ==
  ASSUME NEW s, DOMAIN s = PortFields, ~s.pending_ack, s.pending_ack \in BOOLEAN, NEW n, n = Complete(s)
  PROVE  /\ DOMAIN n = PortFields /\ n.shift_active = FALSE /\ n.pending_ack \in BOOLEAN
         /\ n.ack_remaining = IF n.pending_ack THEN ACK ELSE s.ack_remaining
         /\ n.shift_remaining = s.shift_remaining /\ "TX_RDY" \in n.stat
<1>1. PICK p : p = sio_process_byte(s, s.shift_byte)
  BY Zenon
<1>2. PICK b : b = s.shift_byte
  BY Zenon
<1>3. /\ DOMAIN p = PortFields /\ p.pending_ack = s.pending_ack /\ p.shift_remaining = s.shift_remaining
      /\ p.ack_remaining = s.ack_remaining /\ "TX_RDY" \in p.stat
  <2>1. p = sio_process_byte(s, b)
    BY <1>1, <1>2, Zenon
  <2> QED BY <2>1, ProcessParts, ZenonT(60)
<1>4. n = [p EXCEPT !.stat = @ \ {"ACK"}, !.shift_active = FALSE, !.shift_byte = NoByte,
                    !.pending_ack = @ \/ "ACK" \in p.stat,
                    !.ack_remaining = IF "ACK" \in p.stat THEN ACK ELSE @,
                    !.pending_ack_irq_en = IF "ACK" \in p.stat THEN s.shift_ack_irq_en ELSE @]
  BY <1>1, Zenon DEF Complete
<1>5. /\ DOMAIN n = PortFields /\ n.shift_active = FALSE
      /\ n.pending_ack = (p.pending_ack \/ "ACK" \in p.stat)
      /\ n.ack_remaining = IF "ACK" \in p.stat THEN ACK ELSE p.ack_remaining
      /\ n.shift_remaining = p.shift_remaining /\ n.stat = p.stat \ {"ACK"}
  BY <1>3, <1>4 DEF PortFields
<1>6. ~p.pending_ack
  BY <1>3, Zenon
<1>7. n.pending_ack \in BOOLEAN /\ (n.pending_ack <=> "ACK" \in p.stat)
  <2>1. n.pending_ack = (p.pending_ack \/ "ACK" \in p.stat)
    BY <1>5, Zenon
  <2> QED BY <1>6, <2>1, Zenon
<1> QED BY <1>3, <1>5, <1>7, Zenon

\* The buffered byte takes the shifter for BAUD cycles and leaves the acknowledge alone.
LEMMA PromoteParts ==
  ASSUME NEW s, DOMAIN s = PortFields, NEW n, n = Promote(s)
  PROVE  /\ DOMAIN n = PortFields /\ n.shift_active = TRUE /\ n.shift_remaining = BAUD
         /\ n.pending_ack = s.pending_ack /\ n.ack_remaining = s.ack_remaining
  BY Zenon DEF Promote, PortFields

\* A byte leaves the shifter while no acknowledge is pending.
LEMMA ShiftCompleteSafe ==
  ASSUME NEW s, Typed(s), ~s.pending_ack, NEW n, n = sio_handle_shift_complete(s)
  PROVE  Safe(n)
<1>0. /\ DOMAIN s = PortFields /\ s.pending_ack \in BOOLEAN /\ s.ack_remaining \in Nat
      /\ s.shift_remaining \in Nat
  BY Zenon DEF Typed
<1>1. PICK c : c = Complete(s)
  BY Zenon
<1>2. /\ DOMAIN c = PortFields /\ c.shift_active = FALSE /\ c.pending_ack \in BOOLEAN
      /\ c.ack_remaining = IF c.pending_ack THEN ACK ELSE s.ack_remaining
      /\ c.shift_remaining = s.shift_remaining /\ "TX_RDY" \in c.stat
  BY <1>0, <1>1, CompleteParts, Zenon
<1>3. c.ack_remaining \in Nat /\ (c.pending_ack => c.ack_remaining <= ACK /\ c.ack_remaining < BAUD)
  BY <1>0, <1>2, Rates
<1>4. PICK q : q = IF s.tx_buffered THEN Promote(c) ELSE [c EXCEPT !.stat = @ \cup Ready]
  BY Zenon
<1>5. n = IF Busy(q) THEN q ELSE [q EXCEPT !.timing_active = FALSE]
  BY <1>1, <1>4, Zenon DEF sio_handle_shift_complete
<1>6. Safe(q)
  <2>1. CASE s.tx_buffered
    <3>1. /\ DOMAIN q = PortFields /\ q.shift_active = TRUE /\ q.shift_remaining = BAUD
          /\ q.pending_ack = c.pending_ack /\ q.ack_remaining = c.ack_remaining
      BY <1>2, <1>4, <2>1, PromoteParts, Zenon
    <3>2. q.shift_active \in BOOLEAN /\ q.shift_active
      BY <3>1, Zenon
    <3>3. q.pending_ack \in BOOLEAN /\ q.ack_remaining \in Nat /\ q.shift_remaining \in Nat
          /\ (q.pending_ack => q.ack_remaining <= ACK /\ q.ack_remaining < q.shift_remaining)
      BY <1>2, <1>3, <3>1, Rates, Zenon
    <3> QED BY <3>1, <3>2, <3>3, Zenon DEF Safe, Typed, Apart, Near, Rests
  <2>2. CASE ~s.tx_buffered
    <3>1. /\ DOMAIN q = PortFields /\ q.shift_active = FALSE /\ q.shift_remaining = c.shift_remaining
          /\ q.pending_ack = c.pending_ack /\ q.ack_remaining = c.ack_remaining /\ q.stat = c.stat \cup Ready
      BY <1>2, <1>4, <2>2, Zenon DEF PortFields
    <3>2. q.shift_active \in BOOLEAN /\ ~q.shift_active
      BY <3>1, Zenon
    <3>3. /\ q.pending_ack \in BOOLEAN /\ q.ack_remaining \in Nat /\ q.shift_remaining \in Nat
          /\ q.pending_ack => q.ack_remaining <= ACK
          /\ "TX_RDY" \in q.stat
      BY <1>0, <1>2, <1>3, <3>1, Zenon
    <3> QED BY <3>1, <3>2, <3>3, Zenon DEF Safe, Typed, Apart, Near, Rests
  <2> QED BY <2>1, <2>2, Zenon
<1>7. CASE Busy(q)
  BY <1>5, <1>6, <1>7, Zenon
<1>8. CASE ~Busy(q)
  <2>1. DOMAIN q = PortFields
    BY <1>6, Zenon DEF Safe, Typed
  <2>2. /\ DOMAIN n = PortFields /\ n.shift_active = q.shift_active /\ n.pending_ack = q.pending_ack
        /\ n.shift_remaining = q.shift_remaining /\ n.ack_remaining = q.ack_remaining
        /\ n.active_device = q.active_device /\ n.stat = q.stat
    BY <1>5, <1>8, <2>1, Zenon DEF PortFields
  <2> QED BY <1>6, <2>2, KeepsSafe, Zenon
<1> QED BY <1>7, <1>8, Zenon

-----------------------------------------------------------------------------
(* The loop of sio_advance *)

\* Time moves the running countdowns and nothing else.
LEMMA ElapsedParts ==
  ASSUME NEW s, DOMAIN s = PortFields, NEW dt, NEW n, n = Elapsed(s, dt)
  PROVE  /\ DOMAIN n = PortFields /\ n.shift_active = s.shift_active /\ n.pending_ack = s.pending_ack
         /\ n.active_device = s.active_device /\ n.stat = s.stat
         /\ n.shift_remaining = IF s.shift_active THEN s.shift_remaining - dt ELSE s.shift_remaining
         /\ n.ack_remaining = IF s.pending_ack THEN s.ack_remaining - dt ELSE s.ack_remaining
  BY Zenon DEF Elapsed, PortFields

\* The countdowns themselves are the only places where an event can be first.
LEMMA FirstEvent ==
  ASSUME NEW s, Safe(s), NEW left \in Nat, NEW events,
         events \subseteq 0..(left - 1), events # {},
         \A k \in 0..(left - 1) : k \in events <=> ShiftDue(s, k) \/ AckDue(s, k)
  PROVE  \E m \in events : \A j \in events : m <= j
<1>1. /\ s.shift_remaining \in Nat /\ s.ack_remaining \in Nat
      /\ s.shift_active /\ s.pending_ack => s.ack_remaining < s.shift_remaining
  BY Zenon DEF Safe, Typed, Apart
<1>2. PICK x, y : x = s.shift_remaining /\ y = s.ack_remaining
  BY Zenon
<1>3. /\ x \in Nat /\ y \in Nat /\ (s.shift_active /\ s.pending_ack => y < x)
      /\ \A k \in 0..(left - 1) :
           k \in events <=> (s.shift_active /\ x <= k) \/ (s.pending_ack /\ y <= k)
  BY <1>1, <1>2, Zenon DEF ShiftDue, AckDue
<1>4. CASE s.pending_ack /\ y \in 0..(left - 1)
  <2>1. y \in events
    BY <1>3, <1>4
  <2>2. \A j \in events : y <= j
    BY <1>3, <1>4
  <2> QED BY <2>1, <2>2, Zenon
<1>5. CASE ~(s.pending_ack /\ y \in 0..(left - 1))
  <2>1. \A j \in events : s.shift_active /\ x <= j
    BY <1>3, <1>5
  <2>2. x \in events
    <3>1. PICK j \in events : j \in 0..(left - 1)
      BY Zenon
    <3>2. s.shift_active /\ x \in 0..(left - 1)
      BY <1>3, <2>1, <3>1
    <3> QED BY <1>3, <3>2
  <2> QED BY <2>1, <2>2, Zenon
<1> QED BY <1>4, <1>5, Zenon

\* One iteration of the loop of sio_advance keeps the port safe.
LEMMA IterateSafe ==
  ASSUME NEW l, Safe(l.port), l.left \in Nat, NEW n, n = Iterate(l)
  PROVE  Safe(n.port) /\ n.left \in Nat
<1>1. PICK s, left, events : /\ s = l.port /\ left = l.left
                             /\ events = {k \in 0..(left - 1) : ShiftDue(s, k) \/ AckDue(s, k)}
  BY Zenon
<1>2. PICK dt, e : dt = (CHOOSE k \in events : \A j \in events : k <= j) /\ e = Elapsed(s, dt)
  BY Zenon
<1>3. n = IF left = 0 THEN l
          ELSE IF events = {} THEN [port |-> Elapsed(s, left), left |-> 0]
          ELSE [port |-> IF ShiftDue(s, dt) THEN sio_handle_shift_complete(e)
                         ELSE sio_fire_ack_irq([e EXCEPT !.pending_ack = FALSE]),
                left |-> left - dt]
  BY <1>1, <1>2, Zenon DEF Iterate
<1>4. /\ Safe(s) /\ left \in Nat /\ DOMAIN s = PortFields
      /\ s.shift_active \in BOOLEAN /\ s.pending_ack \in BOOLEAN
      /\ s.shift_remaining \in Nat /\ s.ack_remaining \in Nat
      /\ s.shift_active /\ s.pending_ack => s.ack_remaining < s.shift_remaining
  BY <1>1, Zenon DEF Safe, Typed, Apart
<1>5. CASE left = 0
  BY <1>1, <1>3, <1>5, Zenon
<1>6. CASE left # 0 /\ events = {}
  <2>1. PICK p : p = Elapsed(s, left)
    BY Zenon
  <2>2. n.port = p /\ n.left = 0
    BY <1>3, <1>6, <2>1
  <2>3. left - 1 \in 0..(left - 1)
    BY <1>4, <1>6
  <2>4. ~ShiftDue(s, left - 1) /\ ~AckDue(s, left - 1)
    BY <1>1, <1>6, <2>3, Zenon
  <2>5. /\ s.shift_active => left <= s.shift_remaining
        /\ s.pending_ack => left <= s.ack_remaining
    BY <1>4, <2>4 DEF ShiftDue, AckDue
  <2>6. /\ DOMAIN p = PortFields /\ p.shift_active = s.shift_active /\ p.pending_ack = s.pending_ack
        /\ p.active_device = s.active_device /\ p.stat = s.stat
        /\ p.shift_remaining = IF s.shift_active THEN s.shift_remaining - left ELSE s.shift_remaining
        /\ p.ack_remaining = IF s.pending_ack THEN s.ack_remaining - left ELSE s.ack_remaining
    BY <1>4, <2>1, ElapsedParts
  <2>7. Typed(p)
    BY <1>4, <2>5, <2>6 DEF Typed
  <2>8. Apart(p) /\ Near(p)
    BY <1>4, <2>5, <2>6, Rates DEF Safe, Apart, Near
  <2>9. Rests(p)
    BY <1>4, <2>6, Zenon DEF Safe, Rests
  <2> QED BY <2>2, <2>7, <2>8, <2>9 DEF Safe
<1>7. CASE left # 0 /\ events # {}
  <2>1. dt \in events /\ \A j \in events : dt <= j
    <3>1. /\ events \subseteq 0..(left - 1)
          /\ \A k \in 0..(left - 1) : k \in events <=> ShiftDue(s, k) \/ AckDue(s, k)
      BY <1>1, Zenon
    <3>2. \E m \in events : \A j \in events : m <= j
      BY <1>4, <1>7, <3>1, FirstEvent, Zenon
    <3> QED BY <1>2, <3>2, Zenon
  <2>2. /\ dt \in 0..(left - 1) /\ dt \in Nat /\ left - dt \in Nat
        /\ ShiftDue(s, dt) \/ AckDue(s, dt)
    BY <1>1, <1>4, <2>1
  <2>3. s.shift_active => dt <= s.shift_remaining
    <3>1. s.shift_active /\ s.shift_remaining <= dt => s.shift_remaining \in events
      BY <1>1, <1>4, <2>2 DEF ShiftDue
    <3> QED BY <1>4, <2>1, <2>2, <3>1
  <2>4. s.pending_ack => dt <= s.ack_remaining
    <3>1. s.pending_ack /\ s.ack_remaining <= dt => s.ack_remaining \in events
      BY <1>1, <1>4, <2>2 DEF AckDue
    <3> QED BY <1>4, <2>1, <2>2, <3>1
  <2>5. /\ DOMAIN e = PortFields /\ e.shift_active = s.shift_active /\ e.pending_ack = s.pending_ack
        /\ e.active_device = s.active_device /\ e.stat = s.stat
        /\ e.shift_remaining = IF s.shift_active THEN s.shift_remaining - dt ELSE s.shift_remaining
        /\ e.ack_remaining = IF s.pending_ack THEN s.ack_remaining - dt ELSE s.ack_remaining
    BY <1>2, <1>4, ElapsedParts
  <2>6. Typed(e)
    BY <1>4, <2>2, <2>3, <2>4, <2>5 DEF Typed
  <2>7. CASE ShiftDue(s, dt)
    <3>1. n.port = sio_handle_shift_complete(e) /\ n.left = left - dt
      BY <1>3, <1>7, <2>7
    <3>2. ~s.pending_ack
      BY <1>4, <2>2, <2>4, <2>7 DEF ShiftDue
    <3> QED BY <2>2, <2>5, <2>6, <3>1, <3>2, ShiftCompleteSafe, Zenon
  <2>8. CASE ~ShiftDue(s, dt)
    <3>1. PICK f, g : f = [e EXCEPT !.pending_ack = FALSE] /\ g = sio_fire_ack_irq(f)
      BY Zenon
    <3>2. n.port = g /\ n.left = left - dt
      BY <1>3, <1>7, <2>8, <3>1
    <3>3. /\ DOMAIN f = PortFields /\ f.pending_ack = FALSE /\ f.shift_active = e.shift_active
          /\ f.active_device = e.active_device /\ f.stat = e.stat
          /\ f.shift_remaining = e.shift_remaining /\ f.ack_remaining = e.ack_remaining
      BY <2>5, <3>1, Zenon DEF PortFields
    <3>4. f.pending_ack \in BOOLEAN /\ ~f.pending_ack
      BY <3>3, Zenon
    <3>5. Rests(e)
      BY <1>4, <2>5, Zenon DEF Safe, Rests
    <3>6. Safe(f)
      BY <2>6, <3>3, <3>4, <3>5, Zenon DEF Safe, Typed, Apart, Near, Rests
    <3>7. /\ DOMAIN g = PortFields /\ g.active_device = f.active_device
          /\ g.shift_active = f.shift_active /\ g.pending_ack = f.pending_ack
          /\ g.shift_remaining = f.shift_remaining /\ g.ack_remaining = f.ack_remaining
          /\ "TX_RDY" \in f.stat => "TX_RDY" \in g.stat
      BY <3>1, <3>3, FireParts, ZenonT(60)
    <3>8. Safe(g)
      BY <3>6, <3>7, KeepsSafe, Zenon
    <3> QED BY <2>2, <3>2, <3>8, Zenon
  <2> QED BY <2>7, <2>8, Zenon
<1> QED BY <1>5, <1>6, <1>7, Zenon

\* The recursive function in sio_advance exists: it has finitely many values.
LoopBody(f, s, cycles) ==
  [k \in 0..MAX_TRANSITIONS |-> IF k = 0 THEN [port |-> s, left |-> cycles] ELSE Iterate(f[k - 1])]

\* The loop of sio_advance is defined: its nine values satisfy the equation.
LEMMA LoopExists ==
  ASSUME NEW s, NEW cycles
  PROVE  \E f : f = LoopBody(f, s, cycles)
<1>0. PICK v0 : v0 = [port |-> s, left |-> cycles]
  BY Zenon
<1>1. PICK v1 : v1 = Iterate(v0)
  BY Zenon
<1>2. PICK v2 : v2 = Iterate(v1)
  BY Zenon
<1>3. PICK v3 : v3 = Iterate(v2)
  BY Zenon
<1>4. PICK v4 : v4 = Iterate(v3)
  BY Zenon
<1>5. PICK v5 : v5 = Iterate(v4)
  BY Zenon
<1>6. PICK v6 : v6 = Iterate(v5)
  BY Zenon
<1>7. PICK v7 : v7 = Iterate(v6)
  BY Zenon
<1>8. PICK v8 : v8 = Iterate(v7)
  BY Zenon
<1>9. PICK f : f = [k \in 0..MAX_TRANSITIONS |->
                      CASE k = 0 -> v0 [] k = 1 -> v1 [] k = 2 -> v2 [] k = 3 -> v3
                        [] k = 4 -> v4 [] k = 5 -> v5 [] k = 6 -> v6 [] k = 7 -> v7
                        [] OTHER -> v8]
  BY Zenon
<1>10. /\ f[0] = v0 /\ f[1] = v1 /\ f[2] = v2 /\ f[3] = v3 /\ f[4] = v4
       /\ f[5] = v5 /\ f[6] = v6 /\ f[7] = v7 /\ f[8] = v8
  BY <1>9 DEF MAX_TRANSITIONS
<1>11. \A k \in 0..MAX_TRANSITIONS :
         f[k] = IF k = 0 THEN [port |-> s, left |-> cycles] ELSE Iterate(f[k - 1])
  <2>1. SUFFICES ASSUME NEW k \in 0..MAX_TRANSITIONS
                 PROVE  f[k] = IF k = 0 THEN v0 ELSE Iterate(f[k - 1])
    BY <1>0, Zenon
  <2>2. k \in {0, 1, 2, 3, 4, 5, 6, 7, 8}
    BY <2>1 DEF MAX_TRANSITIONS
  <2> QED BY <1>1, <1>2, <1>3, <1>4, <1>5, <1>6, <1>7, <1>8, <1>10, <2>2
<1>12. f = [k \in 0..MAX_TRANSITIONS |-> f[k]]
  BY <1>9
<1>13. f = LoopBody(f, s, cycles)
  BY <1>11, <1>12, Zenon DEF LoopBody
<1> QED BY <1>13, Zenon

\* A charge keeps the port safe.
LEMMA AdvanceSafe ==
  ASSUME NEW s, Safe(s), NEW cycles \in Nat, NEW n, n = sio_advance(s, cycles)
  PROVE  Safe(n)
<1> DEFINE loop[k \in 0..MAX_TRANSITIONS] ==
             IF k = 0 THEN [port |-> s, left |-> cycles] ELSE Iterate(loop[k - 1])
<1>0. n = IF s.timing_active THEN loop[MAX_TRANSITIONS].port ELSE s
  BY Zenon DEF sio_advance
<1>1. loop = [k \in 0..MAX_TRANSITIONS |->
                IF k = 0 THEN [port |-> s, left |-> cycles] ELSE Iterate(loop[k - 1])]
  <2>1. \E f : f = LoopBody(f, s, cycles)
    BY LoopExists, Zenon
  <2> QED BY <2>1, Zenon DEF LoopBody
<1> HIDE DEF loop
<1> DEFINE Fine(l) == Safe(l.port) /\ l.left \in Nat
<1>2. loop[0] = [port |-> s, left |-> cycles]
  BY <1>1 DEF MAX_TRANSITIONS
<1>3. /\ loop[1] = Iterate(loop[0]) /\ loop[2] = Iterate(loop[1]) /\ loop[3] = Iterate(loop[2])
      /\ loop[4] = Iterate(loop[3]) /\ loop[5] = Iterate(loop[4]) /\ loop[6] = Iterate(loop[5])
      /\ loop[7] = Iterate(loop[6]) /\ loop[8] = Iterate(loop[7])
  BY <1>1 DEF MAX_TRANSITIONS
<1>4. \A l : Fine(l) => Fine(Iterate(l))
  BY IterateSafe, Zenon
<1>5. Fine(loop[0])
  BY <1>2
<1> HIDE DEF Fine
<1>6. Fine(loop[8])
  BY <1>3, <1>4, <1>5, Zenon
<1>7. Safe(loop[8].port)
  BY <1>6, Zenon DEF Fine
<1> QED BY <1>0, <1>7, Zenon DEF MAX_TRANSITIONS

-----------------------------------------------------------------------------
(* The register accesses *)

\* So does a byte on the pad's fast path,
LEMMA PadByteSafe ==
  ASSUME NEW s, Safe(s), NEW b, b.to = "pad", NEW n, n = PadByte(s, b)
  PROVE  Safe(n)
<1>1. PICK k : k = Killed(s)
  BY Zenon
<1>2. /\ DOMAIN k = PortFields /\ k.shift_active = FALSE /\ k.pending_ack = FALSE
      /\ k.shift_remaining = 0 /\ k.ack_remaining = 0
  BY <1>1, KilledParts, Zenon DEF Safe, Typed
<1>3. PICK o : o = [k EXCEPT !.pad_owner = TRUE, !.first = FALSE]
  BY Zenon
<1>4. /\ DOMAIN o = PortFields /\ o.shift_active = FALSE /\ o.pending_ack = FALSE
      /\ o.shift_remaining = 0 /\ o.ack_remaining = 0
  BY <1>2, <1>3, Zenon DEF PortFields
<1>5. PICK p : p = sio_process_byte(o, b)
  BY Zenon
<1>6. /\ DOMAIN p = PortFields /\ p.active_device = "pad"
      /\ p.shift_active = FALSE /\ p.pending_ack = FALSE
      /\ p.shift_remaining = 0 /\ p.ack_remaining = 0
  <2>1. /\ DOMAIN p = PortFields /\ p.active_device = b.to
        /\ p.shift_active = o.shift_active /\ p.pending_ack = o.pending_ack
        /\ p.shift_remaining = o.shift_remaining /\ p.ack_remaining = o.ack_remaining
    <3>1. DOMAIN o = PortFields
      BY <1>4, Zenon
    <3> QED BY ONLY <1>5, <3>1, ProcessParts, ZenonT(60)
  <2> QED BY <1>4, <2>1, Zenon
<1>7. n = IF {"ACK", "ACK_IRQ_EN"} \subseteq p.stat \cup p.ctrl
          THEN [p EXCEPT !.stat = @ \ (Ready \cup {"ACK"}),
                         !.pending_ack = TRUE, !.ack_remaining = BAUD + ACK,
                         !.pending_ack_irq_en = TRUE, !.timing_active = TRUE]
          ELSE [p EXCEPT !.stat = @ \cup Ready]
  BY <1>1, <1>3, <1>5, Zenon DEF PadByte
<1>8. CASE {"ACK", "ACK_IRQ_EN"} \subseteq p.stat \cup p.ctrl
  <2>1. /\ DOMAIN n = PortFields /\ n.shift_active = FALSE /\ n.pending_ack = TRUE
        /\ n.shift_remaining = 0 /\ n.ack_remaining = BAUD + ACK /\ n.active_device = "pad"
    BY <1>6, <1>7, <1>8, ZenonT(60) DEF PortFields
  <2>2. n.shift_active \in BOOLEAN /\ n.pending_ack \in BOOLEAN /\ ~n.shift_active
    BY <2>1, Zenon
  <2>3. n.shift_remaining \in Nat /\ n.ack_remaining \in Nat
    BY <2>1, Rates
  <2> QED BY <2>1, <2>2, <2>3, Zenon DEF Safe, Typed, Apart, Near, Rests
<1>9. CASE ~({"ACK", "ACK_IRQ_EN"} \subseteq p.stat \cup p.ctrl)
  <2>1. /\ DOMAIN n = PortFields /\ n.shift_active = FALSE /\ n.pending_ack = FALSE
        /\ n.shift_remaining = 0 /\ n.ack_remaining = 0 /\ n.active_device = "pad"
    BY <1>6, <1>7, <1>9, Zenon DEF PortFields
  <2> QED BY <2>1, QuietSafe, Zenon
<1> QED BY <1>8, <1>9, Zenon

\* a byte written to the shifter or its buffer,
LEMMA ShiftByteSafe ==
  ASSUME NEW s, Safe(s), s.active_device # "pad", NEW select, NEW b, NEW n, n = ShiftByte(s, select, b)
  PROVE  Safe(n)
<1>1. PICK o : o = [s EXCEPT !.pad_owner = IF s.first THEN select ELSE @, !.first = FALSE]
  BY Zenon
<1>2. DOMAIN s = PortFields
  BY Zenon DEF Safe, Typed
<1>3. /\ DOMAIN o = PortFields /\ o.shift_active = s.shift_active /\ o.pending_ack = s.pending_ack
      /\ o.shift_remaining = s.shift_remaining /\ o.ack_remaining = s.ack_remaining
      /\ o.active_device = s.active_device /\ o.stat = s.stat
  BY <1>1, <1>2, Zenon DEF PortFields
<1>4. Safe(o)
  BY <1>3, KeepsSafe, Zenon
<1>5. n = IF ~s.shift_active THEN ShiftStart(o, b) ELSE IF ~s.tx_buffered THEN BufferLoad(o, b) ELSE o
  BY <1>1, Zenon DEF ShiftByte
<1>6. CASE ~s.shift_active
  <2>1. /\ DOMAIN n = PortFields /\ n.shift_active = TRUE /\ n.pending_ack = o.pending_ack
        /\ n.shift_remaining = BAUD /\ n.ack_remaining = o.ack_remaining
    BY <1>3, <1>5, <1>6, Zenon DEF ShiftStart, PortFields
  <2>2. n.shift_active \in BOOLEAN /\ n.shift_active
    BY <2>1, Zenon
  <2>3. /\ n.pending_ack \in BOOLEAN /\ n.shift_remaining \in Nat /\ n.ack_remaining \in Nat
        /\ n.pending_ack => n.ack_remaining <= ACK /\ n.ack_remaining < n.shift_remaining
    BY <1>3, <1>4, <2>1, Rates DEF Safe, Typed, Near
  <2> QED BY <2>1, <2>2, <2>3, Zenon DEF Safe, Typed, Apart, Near, Rests
<1>7. CASE s.shift_active /\ ~s.tx_buffered
  <2>1. n = BufferLoad(o, b)
    BY <1>5, <1>7, Zenon
  <2>2. /\ DOMAIN n = PortFields /\ n.shift_active = o.shift_active /\ n.pending_ack = o.pending_ack
        /\ n.shift_remaining = o.shift_remaining /\ n.ack_remaining = o.ack_remaining
        /\ n.active_device = o.active_device /\ n.stat = o.stat \ {"TX_EMPTY"}
    BY <1>3, <2>1, Zenon DEF BufferLoad, PortFields
  <2> QED BY <1>4, <2>2, KeepsSafe, Zenon
<1>8. CASE s.shift_active /\ s.tx_buffered
  BY <1>4, <1>5, <1>8, Zenon
<1> QED BY <1>6, <1>7, <1>8, Zenon

\* asserting the select line,
LEMMA SelectAssertSafe ==
  ASSUME NEW s, Safe(s), NEW n, n = SelectAssert(s)
  PROVE  Safe(n)
<1>1. DOMAIN s = PortFields
  BY Zenon DEF Safe, Typed
<1>2. /\ DOMAIN n = PortFields /\ n.shift_active = s.shift_active /\ n.pending_ack = s.pending_ack
      /\ n.shift_remaining = s.shift_remaining /\ n.ack_remaining = s.ack_remaining
      /\ n.active_device = s.active_device /\ n.stat = s.stat
  BY <1>1, Zenon DEF SelectAssert, PortFields
<1> QED BY <1>2, KeepsSafe, Zenon

\* dropping TX_EN,
LEMMA TxEnDropSafe ==
  ASSUME NEW s, Safe(s), NEW c, NEW n, n = TxEnDrop(s, c)
  PROVE  Safe(n)
<1>1. PICK j, k : j = Killed(s) /\ k = [j EXCEPT !.stat = @ \cup Ready]
  BY Zenon
<1>2. n = IF ~Busy(s) THEN s ELSE IF "SELECT" \in c THEN k ELSE SelectAssert(k)
  BY <1>1, Zenon DEF TxEnDrop
<1>3. /\ DOMAIN j = PortFields /\ j.shift_active = FALSE /\ j.pending_ack = FALSE
      /\ j.shift_remaining = 0 /\ j.ack_remaining = 0
  BY <1>1, KilledParts, Zenon DEF Safe, Typed
<1>4. /\ DOMAIN k = PortFields /\ k.shift_active = FALSE /\ k.pending_ack = FALSE
      /\ k.shift_remaining = 0 /\ k.ack_remaining = 0 /\ "TX_RDY" \in k.stat
  BY <1>1, <1>3, Zenon DEF PortFields, Ready
<1>5. Safe(k)
  BY <1>4, QuietSafe, Zenon
<1> QED BY <1>2, <1>5, SelectAssertSafe, Zenon

\* and releasing the select line;
LEMMA SelectDeassertSafe ==
  ASSUME NEW s, Safe(s), NEW n, n = SelectDeassert(s)
  PROVE  Safe(n)
<1>1. PICK j : j = Killed(s)
  BY Zenon
<1>2. /\ DOMAIN j = PortFields /\ j.shift_active = FALSE /\ j.pending_ack = FALSE
      /\ j.shift_remaining = 0 /\ j.ack_remaining = 0
  BY <1>1, KilledParts, Zenon DEF Safe, Typed
<1>3. n = [j EXCEPT !.active_device = "none", !.pad_owner = FALSE, !.first = TRUE, !.stat = @ \cup Ready]
  BY <1>1, Zenon DEF SelectDeassert
<1>4. /\ DOMAIN n = PortFields /\ n.shift_active = FALSE /\ n.pending_ack = FALSE
      /\ n.shift_remaining = 0 /\ n.ack_remaining = 0 /\ "TX_RDY" \in n.stat
  BY <1>2, <1>3 DEF PortFields, Ready
<1> QED BY <1>4, QuietSafe, Zenon

\* hence a write to SIO_CTRL, which does them in the order of the code.
LEMMA CtrlSafe ==
  ASSUME Safe(sio), NEW c, NEW ack, NEW reset, WriteCtrl(c, ack, reset)
  PROVE  Safe(sio')
<1>0. DOMAIN sio = PortFields
  BY Zenon DEF Safe, Typed
<1>1. PICK old, s1 : old = sio.ctrl /\ s1 = [sio EXCEPT !.ctrl = c]
  BY Zenon
<1>2. PICK s2 : s2 = IF ack THEN CtrlAck(s1) ELSE s1
  BY Zenon
<1>3. PICK s3 : s3 = IF reset THEN CtrlReset(s2) ELSE s2
  BY Zenon
<1>4. PICK s4 : s4 = IF "SELECT" \in c \ old THEN SelectAssert(s3) ELSE s3
  BY Zenon
<1>5. PICK s5 : s5 = IF "TX_EN" \in old \ c THEN TxEnDrop(s4, c) ELSE s4
  BY Zenon
<1>6. sio' = IF "SELECT" \in old \ c THEN SelectDeassert(s5) ELSE s5
  BY <1>1, <1>2, <1>3, <1>4, <1>5, Zenon DEF WriteCtrl
<1>7. Safe(s1)
  <2>1. /\ DOMAIN s1 = PortFields /\ s1.shift_active = sio.shift_active
        /\ s1.pending_ack = sio.pending_ack /\ s1.shift_remaining = sio.shift_remaining
        /\ s1.ack_remaining = sio.ack_remaining /\ s1.active_device = sio.active_device
        /\ s1.stat = sio.stat
    BY <1>0, <1>1, Zenon DEF PortFields
  <2> QED BY <2>1, KeepsSafe, Zenon
<1>8. Safe(s2)
  <2>1. CASE ack
    <3>1. DOMAIN s1 = PortFields
      BY <1>7, Zenon DEF Safe, Typed
    <3>2. /\ DOMAIN s2 = PortFields /\ s2.shift_active = s1.shift_active
          /\ s2.pending_ack = s1.pending_ack /\ s2.shift_remaining = s1.shift_remaining
          /\ s2.ack_remaining = s1.ack_remaining /\ s2.active_device = s1.active_device
          /\ s2.stat = s1.stat \ {"ACK"}
      BY <1>2, <2>1, <3>1, Zenon DEF CtrlAck, PortFields
    <3> QED BY <1>7, <3>2, KeepsSafe, Zenon
  <2>2. CASE ~ack
    BY <1>2, <1>7, <2>2, Zenon
  <2> QED BY <2>1, <2>2, Zenon
<1>9. Safe(s3)
  <2>1. CASE reset
    <3>1. s3 = [sio_init EXCEPT !.i_stat = s2.i_stat]
      BY <1>3, <2>1, Zenon DEF CtrlReset
    <3>2. DOMAIN sio_init = PortFields
      BY FreshPort, Zenon DEF Safe, Typed
    <3>3. /\ DOMAIN s3 = PortFields /\ s3.shift_active = sio_init.shift_active
          /\ s3.pending_ack = sio_init.pending_ack /\ s3.shift_remaining = sio_init.shift_remaining
          /\ s3.ack_remaining = sio_init.ack_remaining /\ s3.active_device = sio_init.active_device
          /\ s3.stat = sio_init.stat
      BY <3>1, <3>2, Zenon DEF PortFields
    <3> QED BY <3>3, FreshPort, KeepsSafe, Zenon
  <2>2. CASE ~reset
    BY <1>3, <1>8, <2>2, Zenon
  <2> QED BY <2>1, <2>2, Zenon
<1>10. Safe(s4)
  BY <1>4, <1>9, SelectAssertSafe, Zenon
<1>11. Safe(s5)
  BY <1>5, <1>10, TxEnDropSafe, Zenon
<1> QED BY <1>6, <1>11, SelectDeassertSafe, Zenon

\* Every step of the port keeps it safe.
LEMMA SafeStep ==
  ASSUME Safe(sio), [SioNext]_sioVars
  PROVE  Safe(sio')
<1>0. DOMAIN sio = PortFields
  BY Zenon DEF Safe, Typed
<1>1. CASE \E n \in 1..MaxSioStep : AdvanceSio(n)
  <2>1. PICK n \in 1..MaxSioStep : sio' = sio_advance(sio, n)
    BY <1>1, Zenon DEF AdvanceSio
  <2>2. n \in Nat
    BY <2>1, SioAssumption
  <2>3. PICK s, p : s = sio /\ p = sio'
    BY Zenon
  <2>4. Safe(p)
    BY <2>1, <2>2, <2>3, AdvanceSafe, Zenon
  <2> QED BY <2>3, <2>4, Zenon
<1>2. CASE \E select \in BOOLEAN, b \in Bytes : WriteTxData(select, b)
  <2>1. PICK select \in BOOLEAN, b \in Bytes : WriteTxData(select, b)
    BY <1>2, Zenon
  <2>2. PICK s, p : s = sio /\ p = sio'
    BY Zenon
  <2>3. CASE PadFastPath(sio, select)
    <3>1. b.to = "pad" /\ p = PadByte(s, b)
      BY <2>1, <2>2, <2>3, Zenon DEF WriteTxData, Plausible
    <3>2. Safe(p)
      BY <2>2, <3>1, PadByteSafe, Zenon
    <3> QED BY <2>2, <3>2, Zenon
  <2>4. CASE ~PadFastPath(sio, select)
    <3>1. s.active_device # "pad" /\ p = ShiftByte(s, select, b)
      BY <2>1, <2>2, <2>4, Zenon DEF WriteTxData, PadFastPath
    <3>2. Safe(p)
      BY <2>2, <3>1, ShiftByteSafe, Zenon
    <3> QED BY <2>2, <3>2, Zenon
  <2> QED BY <2>3, <2>4, Zenon
<1>3. CASE \E c \in CtrlValues, ack, reset \in BOOLEAN : WriteCtrl(c, ack, reset)
  BY <1>3, CtrlSafe, Zenon
<1>4. CASE ReadStat
  <2>1. /\ DOMAIN sio' = PortFields /\ sio'.shift_active = sio.shift_active
        /\ sio'.pending_ack = sio.pending_ack /\ sio'.shift_remaining = sio.shift_remaining
        /\ sio'.ack_remaining = sio.ack_remaining /\ sio'.active_device = sio.active_device
        /\ "TX_RDY" \in sio.stat => "TX_RDY" \in sio'.stat
    BY <1>0, <1>4, Zenon DEF ReadStat, PortFields
  <2>2. PICK p : p = sio'
    BY Zenon
  <2>3. Safe(p)
    BY <2>1, <2>2, KeepsSafe, Zenon
  <2> QED BY <2>2, <2>3, Zenon
<1>5. CASE SioIntcAck
  <2>1. /\ DOMAIN sio' = PortFields /\ sio'.shift_active = sio.shift_active
        /\ sio'.pending_ack = sio.pending_ack /\ sio'.shift_remaining = sio.shift_remaining
        /\ sio'.ack_remaining = sio.ack_remaining /\ sio'.active_device = sio.active_device
        /\ sio'.stat = sio.stat
    BY <1>0, <1>5, Zenon DEF SioIntcAck, PortFields
  <2>2. PICK p : p = sio'
    BY Zenon
  <2>3. Safe(p)
    BY <2>1, <2>2, KeepsSafe, Zenon
  <2> QED BY <2>2, <2>3, Zenon
<1>6. CASE UNCHANGED sioVars
  BY <1>6, Zenon DEF sioVars
<1> QED BY <1>1, <1>2, <1>3, <1>4, <1>5, <1>6, Zenon DEF SioNext

\* What the port keeps, for every state it reaches.
SioInv == Safe(sio)

\* The port is safe in every state it reaches.
LEMMA PortAlwaysSafe == SioSpec => []SioInv
<1>1. SioInit => SioInv
  BY FreshPort, Zenon DEF SioInit, SioInv
<1>2. SioInv /\ [SioNext]_sioVars => SioInv'
  BY SafeStep, Zenon DEF SioInv
<1> QED BY <1>1, <1>2, PTL DEF SioSpec

\* The acknowledge of one byte always fires before the byte behind it is through the
\* shifter, so sio_handle_shift_complete never overwrites a pending one.
THEOREM AckAlwaysBeforeNextByte == SioSpec => []AckBeforeNextByte
<1>1. SioInv => AckBeforeNextByte
  BY Zenon DEF SioInv, Safe, Apart, AckBeforeNextByte
<1> QED BY <1>1, PortAlwaysSafe, PTL

\* However the last byte ended (acknowledged, unanswered, dropped by TX_EN or by the
\* select line, or wiped by a reset), an idle port that is not the pad's reads TX_RDY.
THEOREM IdleCardAlwaysReady == SioSpec => []IdleCardIsReady
<1>1. SioInv => IdleCardIsReady
  BY Zenon DEF SioInv, Safe, Rests, IdleCardIsReady, Busy
<1> QED BY <1>1, PortAlwaysSafe, PTL

-----------------------------------------------------------------------------
(* The serial port: a charge may be split *)

\* A port whose flags are flags, whose buffer is behind a byte in the shifter, and whose
\* clock runs while anything is counted down.
Clocked(s) ==
  /\ s = [f \in PortFields |-> s[f]]
  /\ s.tx_buffered \in BOOLEAN /\ s.timing_active \in BOOLEAN
  /\ s.tx_buffered => s.shift_active
  /\ s.shift_active \/ s.pending_ack => s.timing_active

Sound(s) == Safe(s) /\ Clocked(s)

\* An event is due after k cycles; k is the first number of cycles after which one is; and
\* what the event makes of the port.
At(s, k) == ShiftDue(s, k) \/ AckDue(s, k)
First(s, k) == At(s, k) /\ \A j \in Nat : j < k => ~At(s, j)
Fire(s, k) ==
  IF ShiftDue(s, k) THEN sio_handle_shift_complete(Elapsed(s, k))
  ELSE sio_fire_ack_irq([Elapsed(s, k) EXCEPT !.pending_ack = FALSE])

\* How many events the port can still have before the guest writes again.
ToCome(s) ==
  (IF s.shift_active THEN 2 ELSE 0) + (IF s.tx_buffered THEN 2 ELSE 0)
    + (IF s.pending_ack THEN 1 ELSE 0)

\* Within n cycles there is a first event, or none.
LEMMA FirstOrNone ==
  ASSUME NEW s, NEW n \in Nat
  PROVE  \/ \A k \in Nat : k < n => ~At(s, k)
         \/ \E k \in Nat : k < n /\ First(s, k)
<1>. DEFINE T == {k \in Nat : k < n /\ At(s, k)}
<1>1. T \in SUBSET Nat
  BY Zenon
<1>2. CASE T = {}
  BY <1>2, Zenon
<1>3. CASE T # {}
  <2>1. PICK k \in T : \A j \in T : k <= j
    BY <1>1, <1>3, LeastNat, Zenon
  <2>2. \A j \in Nat : j < k => ~At(s, j)
    BY <2>1
  <2>. QED BY <2>1, <2>2, Zenon DEF First
<1>. QED BY <1>2, <1>3, Zenon

\* One iteration of sio_advance with nothing left to do, without an event, and with one.
LEMMA IterateDone ==
  ASSUME NEW l, l.left = 0
  PROVE  Iterate(l) = l
BY Zenon DEF Iterate

\* Without an event the iteration uses up the charge.
LEMMA IterateQuiet ==
  ASSUME NEW s, NEW n \in Nat \ {0}, \A k \in Nat : k < n => ~At(s, k)
  PROVE  Iterate([port |-> s, left |-> n]) = [port |-> Elapsed(s, n), left |-> 0]
<1>. DEFINE l == [port |-> s, left |-> n]
            events == {k \in 0..(l.left - 1) : ShiftDue(l.port, k) \/ AckDue(l.port, k)}
<1>1. l.port = s /\ l.left = n
  BY Zenon
<1>2. events = {}
  BY <1>1 DEF At
<1>. HIDE DEF l
<1>3. Iterate(l) = [port |-> Elapsed(l.port, l.left), left |-> 0]
  BY <1>1, <1>2, Zenon DEF Iterate
<1>. QED BY <1>1, <1>3, Zenon DEF l

\* With a first event after d cycles it fires that one and leaves the rest of the charge.
LEMMA IterateFirst ==
  ASSUME NEW s, NEW n \in Nat \ {0}, NEW d \in Nat, d < n, First(s, d)
  PROVE  Iterate([port |-> s, left |-> n]) = [port |-> Fire(s, d), left |-> n - d]
<1>. DEFINE l == [port |-> s, left |-> n]
            events == {k \in 0..(l.left - 1) : ShiftDue(l.port, k) \/ AckDue(l.port, k)}
            dt == CHOOSE k \in events : \A j \in events : k <= j
<1>1. l.port = s /\ l.left = n
  BY Zenon
<1>2. d \in events /\ \A j \in events : d <= j
  BY <1>1 DEF First, At
<1>3. events \subseteq Nat
  BY <1>1
<1>4. dt \in events /\ \A j \in events : dt <= j
  BY <1>2, Zenon
<1>. HIDE DEF dt
<1>5. dt = d
  BY <1>2, <1>3, <1>4
<1>6. Iterate(l) = [port |-> IF ShiftDue(l.port, dt) THEN sio_handle_shift_complete(Elapsed(l.port, dt))
                             ELSE sio_fire_ack_irq([Elapsed(l.port, dt) EXCEPT !.pending_ack = FALSE]),
                    left |-> l.left - dt]
  <2>1. events # {} /\ l.left # 0
    BY <1>1, <1>2, Zenon
  <2>. HIDE DEF l
  <2>. QED BY <2>1, Zenon DEF Iterate, dt
<1>. HIDE DEF l
<1>. QED BY <1>1, <1>5, <1>6, Zenon DEF Fire, l

\* Time that passes in two parts, none of them with an event, is one.
LEMMA ElapsedAdds ==
  ASSUME NEW s, Sound(s), NEW a \in Nat, NEW b \in Nat
  PROVE  Elapsed(Elapsed(s, a), b) = Elapsed(s, a + b)
<1>1. /\ s = [f \in PortFields |-> s[f]] /\ s.shift_remaining \in Nat /\ s.ack_remaining \in Nat
      /\ DOMAIN s = PortFields
  BY Zenon DEF Sound, Safe, Typed, Clocked
<1>. DEFINE e == Elapsed(s, a)
<1>2. /\ DOMAIN e = PortFields /\ e.shift_active = s.shift_active /\ e.pending_ack = s.pending_ack
      /\ e.shift_remaining = IF s.shift_active THEN s.shift_remaining - a ELSE s.shift_remaining
      /\ e.ack_remaining = IF s.pending_ack THEN s.ack_remaining - a ELSE s.ack_remaining
  BY <1>1, ElapsedParts
<1>3. e = [f \in PortFields |-> IF f = "shift_remaining" THEN e.shift_remaining
                                ELSE IF f = "ack_remaining" THEN e.ack_remaining ELSE s[f]]
  BY <1>1, <1>2, Zenon DEF Elapsed, PortFields
<1>. HIDE DEF e
<1>. DEFINE x == IF s.shift_active THEN s.shift_remaining - (a + b) ELSE s.shift_remaining
            y == IF s.pending_ack THEN s.ack_remaining - (a + b) ELSE s.ack_remaining
<1>4. /\ (IF e.shift_active THEN e.shift_remaining - b ELSE e.shift_remaining) = x
      /\ (IF e.pending_ack THEN e.ack_remaining - b ELSE e.ack_remaining) = y
  BY <1>1, <1>2
<1>5. Elapsed(s, a + b) = [s EXCEPT !.shift_remaining = x, !.ack_remaining = y]
  BY Zenon DEF Elapsed
<1>. HIDE DEF x, y
<1>6. Elapsed(e, b) = [e EXCEPT !.shift_remaining = x, !.ack_remaining = y]
  BY <1>4, Zenon DEF Elapsed
<1>7. [e EXCEPT !.shift_remaining = x, !.ack_remaining = y]
        = [f \in PortFields |-> IF f = "shift_remaining" THEN x
                                ELSE IF f = "ack_remaining" THEN y ELSE s[f]]
  BY <1>3, Zenon DEF PortFields
<1>8. [s EXCEPT !.shift_remaining = x, !.ack_remaining = y]
        = [f \in PortFields |-> IF f = "shift_remaining" THEN x
                                ELSE IF f = "ack_remaining" THEN y ELSE s[f]]
  BY <1>1, Zenon DEF PortFields
<1>. QED BY <1>5, <1>6, <1>7, <1>8, Zenon DEF e

\* An event is as far away after a cycles as it was before, less a; and it does the same.
LEMMA ElapsedFires ==
  ASSUME NEW s, Sound(s), NEW a \in Nat, NEW k \in Nat
  PROVE  /\ At(Elapsed(s, a), k) <=> At(s, a + k)
         /\ Fire(Elapsed(s, a), k) = Fire(s, a + k)
<1>1. s.shift_remaining \in Nat /\ s.ack_remaining \in Nat /\ DOMAIN s = PortFields
  BY Zenon DEF Sound, Safe, Typed
<1>. DEFINE e == Elapsed(s, a)
<1>2. /\ e.shift_active = s.shift_active /\ e.pending_ack = s.pending_ack
      /\ e.shift_remaining = IF s.shift_active THEN s.shift_remaining - a ELSE s.shift_remaining
      /\ e.ack_remaining = IF s.pending_ack THEN s.ack_remaining - a ELSE s.ack_remaining
  BY <1>1, ElapsedParts
<1>3. Elapsed(e, k) = Elapsed(s, a + k)
  BY ElapsedAdds, Zenon
<1>. HIDE DEF e
<1>4. (ShiftDue(e, k) <=> ShiftDue(s, a + k)) /\ (AckDue(e, k) <=> AckDue(s, a + k))
  BY <1>1, <1>2 DEF ShiftDue, AckDue
<1>5. At(e, k) <=> At(s, a + k)
  BY <1>4, Zenon DEF At
<1>6. Fire(e, k) = Fire(s, a + k)
  BY <1>3, <1>4, Zenon DEF Fire
<1>. QED BY <1>5, <1>6, Zenon DEF e

\* The number of events to come is a number.
LEMMA PendingNat ==
  ASSUME NEW s, Sound(s)
  PROVE  ToCome(s) \in 0..5
<1>1. s.shift_active \in BOOLEAN /\ s.pending_ack \in BOOLEAN /\ s.tx_buffered \in BOOLEAN
  BY Zenon DEF Sound, Safe, Typed, Clocked
<1>. QED BY <1>1 DEF ToCome

\* Time without an event keeps the port sound and its events to come.
LEMMA ElapsedSound ==
  ASSUME NEW s, Sound(s), NEW n \in Nat \ {0}, \A k \in Nat : k < n => ~At(s, k)
  PROVE  Sound(Elapsed(s, n)) /\ ToCome(Elapsed(s, n)) = ToCome(s)
<1>. DEFINE e == Elapsed(s, n)
            l == [port |-> s, left |-> n]
<1>1. Iterate(l) = [port |-> e, left |-> 0]
  BY IterateQuiet, Zenon
<1>2. Safe(s) /\ l.port = s /\ l.left \in Nat
  BY Zenon DEF Sound
<1>3. Safe(Iterate(l).port)
  <2>. HIDE DEF l
  <2>. QED BY <1>2, IterateSafe, Zenon
<1>. HIDE DEF e, l
<1>4. Safe(e)
  BY <1>1, <1>3
<1>5. s = [f \in PortFields |-> s[f]] /\ DOMAIN s = PortFields
  BY Zenon DEF Sound, Safe, Typed, Clocked
<1>6. /\ e.shift_active = s.shift_active /\ e.pending_ack = s.pending_ack
      /\ e.tx_buffered = s.tx_buffered /\ e.timing_active = s.timing_active
      /\ e = [f \in PortFields |-> e[f]]
  BY <1>5, Zenon DEF e, Elapsed, PortFields
<1>7. Clocked(e)
  BY <1>6, Zenon DEF Sound, Clocked
<1>8. ToCome(e) = ToCome(s)
  BY <1>6, Zenon DEF ToCome
<1>. QED BY <1>4, <1>7, <1>8, Zenon DEF Sound, e

\* A byte that leaves the shifter lets the one behind it in, and leaves fewer events.
LEMMA ShiftSound ==
  ASSUME NEW s, Typed(s), Clocked(s), s.shift_active, ~s.pending_ack,
         NEW n, n = sio_handle_shift_complete(s)
  PROVE  Clocked(n) /\ ToCome(n) < ToCome(s)
<1>0. /\ DOMAIN s = PortFields /\ s.tx_buffered \in BOOLEAN /\ s.timing_active \in BOOLEAN
      /\ s.timing_active /\ s.pending_ack \in BOOLEAN /\ s = [f \in PortFields |-> s[f]]
  BY Zenon DEF Typed, Clocked
<1>1. PICK c : c = Complete(s)
  BY Zenon
<1>2. DOMAIN c = PortFields /\ c.shift_active = FALSE /\ c.pending_ack \in BOOLEAN
  BY <1>0, <1>1, CompleteParts, Zenon
<1>3. /\ c.tx_buffered = s.tx_buffered /\ c.timing_active = s.timing_active
      /\ c = [f \in PortFields |-> c[f]]
  <2>1. PICK p : p = sio_process_byte(s, s.shift_byte)
    BY Zenon
  <2>2. /\ p.tx_buffered = s.tx_buffered /\ p.timing_active = s.timing_active
        /\ DOMAIN p = PortFields /\ p = [f \in PortFields |-> p[f]]
    BY <1>0, <2>1, Zenon DEF sio_process_byte, PortFields
  <2>3. c = [p EXCEPT !.stat = @ \ {"ACK"},
               !.shift_active = FALSE, !.shift_byte = NoByte,
               !.pending_ack = @ \/ "ACK" \in p.stat,
               !.ack_remaining = IF "ACK" \in p.stat THEN ACK ELSE @,
               !.pending_ack_irq_en = IF "ACK" \in p.stat THEN s.shift_ack_irq_en ELSE @]
    BY <1>1, <2>1, Zenon DEF Complete
  <2>. QED BY <2>2, <2>3, Zenon DEF PortFields
<1>4. PICK q : q = IF s.tx_buffered THEN Promote(c) ELSE [c EXCEPT !.stat = @ \cup Ready]
  BY Zenon
<1>5. n = IF Busy(q) THEN q ELSE [q EXCEPT !.timing_active = FALSE]
  BY <1>1, <1>4, Zenon DEF sio_handle_shift_complete
<1>6. CASE s.tx_buffered
  <2>1. /\ q.shift_active = TRUE /\ q.tx_buffered = FALSE /\ q.pending_ack = c.pending_ack
        /\ q.timing_active = c.timing_active /\ DOMAIN q = PortFields
        /\ q = [f \in PortFields |-> q[f]]
    BY <1>2, <1>3, <1>4, <1>6, Zenon DEF Promote, PortFields
  <2>2. Busy(q)
    BY <2>1, Zenon DEF Busy
  <2>3. n = q
    BY <1>5, <2>2, Zenon
  <2>4. Clocked(q)
    BY <1>0, <1>3, <2>1, Zenon DEF Clocked
  <2>5. ToCome(s) = 4
    BY <1>0, <1>6 DEF ToCome
  <2>6. ToCome(q) <= 3
    BY <1>2, <2>1 DEF ToCome
  <2>7. ToCome(q) \in Int
    BY <1>2, <2>1 DEF ToCome
  <2>. QED BY <2>3, <2>4, <2>5, <2>6, <2>7
<1>7. CASE ~s.tx_buffered
  <2>1. /\ q.shift_active = FALSE /\ q.tx_buffered = s.tx_buffered /\ q.pending_ack = c.pending_ack
        /\ q.timing_active = s.timing_active /\ DOMAIN q = PortFields
        /\ q = [f \in PortFields |-> q[f]]
    BY <1>2, <1>3, <1>4, <1>7, Zenon DEF PortFields
  <2>2. Busy(q) <=> q.pending_ack
    BY <1>7, <2>1, Zenon DEF Busy
  <2>3. /\ n.shift_active = FALSE /\ n.tx_buffered = s.tx_buffered /\ n.pending_ack = q.pending_ack
        /\ n.timing_active = (IF q.pending_ack THEN q.timing_active ELSE FALSE)
        /\ n = [f \in PortFields |-> n[f]]
    BY <1>5, <2>1, <2>2, Zenon DEF PortFields
  <2>4. n.timing_active \in BOOLEAN /\ (n.pending_ack => n.timing_active)
    BY <1>0, <2>1, <2>3, Zenon
  <2>5. Clocked(n)
    BY <1>0, <1>7, <2>3, <2>4, Zenon DEF Clocked
  <2>6. ToCome(s) = 2
    BY <1>0, <1>7 DEF ToCome
  <2>7. ToCome(n) <= 1 /\ ToCome(n) \in Int
    BY <1>2, <1>7, <2>1, <2>3 DEF ToCome
  <2>. QED BY <2>5, <2>6, <2>7
<1>. QED BY <1>6, <1>7, Zenon

\* So does an acknowledge that fires.
LEMMA AckSound ==
  ASSUME NEW s, Typed(s), Clocked(s), s.pending_ack,
         NEW n, n = sio_fire_ack_irq([s EXCEPT !.pending_ack = FALSE])
  PROVE  Clocked(n) /\ ToCome(n) < ToCome(s)
<1>0. /\ DOMAIN s = PortFields /\ s.tx_buffered \in BOOLEAN /\ s.timing_active \in BOOLEAN
      /\ s.timing_active /\ s.shift_active \in BOOLEAN /\ s = [f \in PortFields |-> s[f]]
      /\ s.tx_buffered => s.shift_active
  BY Zenon DEF Typed, Clocked
<1>1. PICK f : f = [s EXCEPT !.pending_ack = FALSE]
  BY Zenon
<1>2. /\ DOMAIN f = PortFields /\ f.tx_buffered = s.tx_buffered /\ f.shift_active = s.shift_active
      /\ f.timing_active = s.timing_active /\ f.pending_ack = FALSE
      /\ f = [x \in PortFields |-> f[x]]
  BY <1>0, <1>1, Zenon DEF PortFields
<1>3. PICK en \in BOOLEAN : en = (f.pending_ack_irq_en \/ "ACK_IRQ_EN" \in f.ctrl)
  BY Zenon
<1>4. n = [f EXCEPT !.stat = @ \cup {"ACK"},
               !.ack_visible_reads = 2, !.pending_ack_irq_en = FALSE,
               !.i_stat = @ \/ en,
               !.timing_active = IF en /\ ~Busy(f) THEN FALSE ELSE @]
  BY <1>1, <1>3, Zenon DEF sio_fire_ack_irq
<1>5. /\ n.tx_buffered = s.tx_buffered /\ n.shift_active = s.shift_active /\ n.pending_ack = FALSE
      /\ n.timing_active = (IF en /\ ~Busy(f) THEN FALSE ELSE s.timing_active)
      /\ n = [x \in PortFields |-> n[x]]
  BY <1>2, <1>4, Zenon DEF PortFields
<1>6. s.shift_active => Busy(f)
  BY <1>2, Zenon DEF Busy
<1>7. n.timing_active \in BOOLEAN /\ (n.shift_active => n.timing_active)
  BY <1>0, <1>5, <1>6, Zenon
<1>8. Clocked(n)
  BY <1>0, <1>5, <1>7, Zenon DEF Clocked
<1>9. ToCome(n) < ToCome(s)
  BY <1>0, <1>5 DEF ToCome
<1>. QED BY <1>8, <1>9, Zenon

\* The first event keeps the port sound and leaves fewer to come.
LEMMA FireSound ==
  ASSUME NEW s, Sound(s), NEW d \in Nat, First(s, d)
  PROVE  Sound(Fire(s, d)) /\ ToCome(Fire(s, d)) < ToCome(s)
<1>. DEFINE l == [port |-> s, left |-> d + 1]
            e == Elapsed(s, d)
            n == Fire(s, d)
<1>1. Iterate(l) = [port |-> n, left |-> (d + 1) - d]
  <2>1. d + 1 \in Nat \ {0} /\ d < d + 1
    OBVIOUS
  <2>. QED BY <2>1, IterateFirst, Zenon
<1>2. Safe(s) /\ l.port = s /\ l.left \in Nat
  BY DEF Sound
<1>3. Safe(Iterate(l).port)
  <2>. HIDE DEF l
  <2>. QED BY <1>2, IterateSafe, Zenon
<1>4. Safe(n)
  <2>. HIDE DEF n, l
  <2>. QED BY <1>1, <1>3
<1>5. /\ DOMAIN s = PortFields /\ s = [f \in PortFields |-> s[f]]
      /\ s.shift_active \in BOOLEAN /\ s.pending_ack \in BOOLEAN
      /\ s.shift_remaining \in Nat /\ s.ack_remaining \in Nat
      /\ s.shift_active /\ s.pending_ack => s.ack_remaining < s.shift_remaining
  BY Zenon DEF Sound, Safe, Typed, Clocked, Apart
<1>6. /\ s.shift_active => d <= s.shift_remaining
      /\ s.pending_ack => d <= s.ack_remaining
  <2>1. \A j \in Nat : j < d => ~ShiftDue(s, j) /\ ~AckDue(s, j)
    BY Zenon DEF First, At
  <2>2. s.shift_remaining < d => ~ShiftDue(s, s.shift_remaining)
    BY <1>5, <2>1, Zenon
  <2>3. s.ack_remaining < d => ~AckDue(s, s.ack_remaining)
    BY <1>5, <2>1, Zenon
  <2>. QED BY <1>5, <2>2, <2>3 DEF ShiftDue, AckDue
<1>7. /\ DOMAIN e = PortFields /\ e.shift_active = s.shift_active /\ e.pending_ack = s.pending_ack
      /\ e.shift_remaining = IF s.shift_active THEN s.shift_remaining - d ELSE s.shift_remaining
      /\ e.ack_remaining = IF s.pending_ack THEN s.ack_remaining - d ELSE s.ack_remaining
  BY <1>5, ElapsedParts
<1>8. /\ e.tx_buffered = s.tx_buffered /\ e.timing_active = s.timing_active
      /\ e = [f \in PortFields |-> e[f]]
  BY <1>5, Zenon DEF Elapsed, PortFields
<1>. HIDE DEF e
<1>9. Typed(e)
  BY <1>5, <1>6, <1>7 DEF Typed
<1>10. Clocked(e)
  BY <1>7, <1>8, Zenon DEF Sound, Clocked
<1>11. ToCome(e) = ToCome(s)
  BY <1>7, <1>8, Zenon DEF ToCome
<1>12. CASE ShiftDue(s, d)
  <2>1. n = sio_handle_shift_complete(e)
    BY <1>12, Zenon DEF Fire, e
  <2>2. e.shift_active /\ ~e.pending_ack
    BY <1>5, <1>6, <1>7, <1>12 DEF ShiftDue
  <2>. HIDE DEF n
  <2>3. Clocked(n) /\ ToCome(n) < ToCome(e)
    BY <1>9, <1>10, <2>1, <2>2, ShiftSound, Zenon
  <2>. QED BY <1>4, <1>11, <2>3, Zenon DEF Sound, n
<1>13. CASE ~ShiftDue(s, d)
  <2>1. n = sio_fire_ack_irq([e EXCEPT !.pending_ack = FALSE])
    BY <1>13, Zenon DEF Fire, e
  <2>2. e.pending_ack
    BY <1>7, <1>13, Zenon DEF First, At, AckDue
  <2>. HIDE DEF n
  <2>3. Clocked(n) /\ ToCome(n) < ToCome(e)
    BY <1>9, <1>10, <2>1, <2>2, AckSound, Zenon
  <2>. QED BY <1>4, <1>11, <2>3, Zenon DEF Sound, n
<1>. QED BY <1>12, <1>13, Zenon

\* A state of the loop of sio_advance, and the port the loop's eight iterations end with.
Fine(l) == Sound(l.port) /\ l.left \in Nat /\ l = [port |-> l.port, left |-> l.left]
Four(l) == Iterate(Iterate(Iterate(Iterate(l))))
End(l) == Four(Four(l)).port
Loop(s, n) == [port |-> s, left |-> n]

\* Splitting any charge of this port in two does not matter.
Splits(s) == \A a, b \in Nat : End(Loop(End(Loop(s, a)), b)) = End(Loop(s, a + b))

\* An iteration either finishes the charge or uses up an event.
LEMMA IterateSettles ==
  ASSUME NEW l, Fine(l), NEW m \in Nat, l.left = 0 \/ ToCome(l.port) < m + 1,
         NEW n, n = Iterate(l)
  PROVE  Fine(n) /\ (n.left = 0 \/ ToCome(n.port) < m)
<1>1. CASE l.left = 0
  <2>1. n = l
    BY <1>1, IterateDone, Zenon
  <2>. QED BY <1>1, <2>1, Zenon
<1>2. CASE l.left # 0
  <2>0. PICK s : s = l.port
    BY Zenon
  <2>1. PICK k \in Nat \ {0} : s = l.port /\ k = l.left
    BY <1>2, <2>0, Zenon DEF Fine
  <2>2. Sound(s) /\ n = Iterate([port |-> s, left |-> k])
    BY <2>1, Zenon DEF Fine
  <2>3. CASE \A j \in Nat : j < k => ~At(s, j)
    <3>1. n = [port |-> Elapsed(s, k), left |-> 0]
      BY <2>2, <2>3, IterateQuiet, Zenon
    <3>2. Sound(Elapsed(s, k))
      BY <2>2, <2>3, ElapsedSound, Zenon
    <3>. QED BY <3>1, <3>2 DEF Fine
  <2>4. CASE \E d \in Nat : d < k /\ First(s, d)
    <3>1. PICK d \in Nat : d < k /\ First(s, d)
      BY <2>4, Zenon
    <3>2. n = [port |-> Fire(s, d), left |-> k - d]
      BY <2>2, <3>1, IterateFirst, Zenon
    <3>3. Sound(Fire(s, d)) /\ ToCome(Fire(s, d)) < ToCome(s)
      BY <2>2, <3>1, FireSound, Zenon
    <3>4. PICK f, p, q : f = Fire(s, d) /\ p = ToCome(f) /\ q = ToCome(s)
      BY Zenon
    <3>5. p \in 0..5 /\ q \in 0..5
      BY <2>2, <3>3, <3>4, PendingNat, Zenon
    <3>6. q < m + 1
      BY <1>2, <2>1, <3>4, Zenon
    <3>7. p < m
      BY <3>3, <3>4, <3>5, <3>6
    <3>8. n.port = f /\ n.left = k - d /\ n = [port |-> f, left |-> k - d]
      BY <3>2, <3>4
    <3>9. k - d \in Nat
      BY <3>1
    <3>. QED BY <3>3, <3>4, <3>7, <3>8, <3>9, Zenon DEF Fine
  <2>. QED BY <2>3, <2>4, FirstOrNone, Zenon
<1>. QED BY <1>1, <1>2, Zenon

\* Two of the eight iterations are to spare, so one more changes nothing.
LEMMA EndNext ==
  ASSUME NEW l, Fine(l)
  PROVE  End(Iterate(l)) = End(l) /\ Sound(End(l))
<1>1. PICK v1 : v1 = Iterate(l)
  BY Zenon
<1>2. PICK v2 : v2 = Iterate(v1)
  BY Zenon
<1>3. PICK v3 : v3 = Iterate(v2)
  BY Zenon
<1>4. PICK v4 : v4 = Iterate(v3)
  BY Zenon
<1>5. PICK v5 : v5 = Iterate(v4)
  BY Zenon
<1>6. PICK v6 : v6 = Iterate(v5)
  BY Zenon
<1>7. ToCome(l.port) < 5 + 1
  BY PendingNat DEF Fine
<1>8. Fine(v1) /\ (v1.left = 0 \/ ToCome(v1.port) < 4 + 1)
  BY <1>1, <1>7, IterateSettles
<1>9. Fine(v2) /\ (v2.left = 0 \/ ToCome(v2.port) < 3 + 1)
  BY <1>2, <1>8, IterateSettles
<1>10. Fine(v3) /\ (v3.left = 0 \/ ToCome(v3.port) < 2 + 1)
  BY <1>3, <1>9, IterateSettles
<1>11. Fine(v4) /\ (v4.left = 0 \/ ToCome(v4.port) < 1 + 1)
  BY <1>4, <1>10, IterateSettles
<1>12. Fine(v5) /\ (v5.left = 0 \/ ToCome(v5.port) < 0 + 1)
  BY <1>5, <1>11, IterateSettles
<1>13. Fine(v6) /\ (v6.left = 0 \/ ToCome(v6.port) < 0)
  BY <1>6, <1>12, IterateSettles, Zenon
<1>14. v6.left = 0
  BY <1>13, PendingNat DEF Fine
<1>15. Iterate(v6) = v6
  BY <1>14, IterateDone, Zenon
<1>16. End(l) = v6.port
  BY <1>1, <1>2, <1>3, <1>4, <1>5, <1>6, <1>15, Zenon DEF End, Four
<1>17. End(v1) = v6.port
  BY <1>2, <1>3, <1>4, <1>5, <1>6, <1>15, Zenon DEF End, Four
<1>. QED BY <1>1, <1>13, <1>16, <1>17, Zenon DEF Fine

\* No time passes in no cycles.
LEMMA ElapsedZero ==
  ASSUME NEW s, Sound(s)
  PROVE  Elapsed(s, 0) = s
<1>1. /\ s = [f \in PortFields |-> s[f]] /\ s.shift_remaining \in Nat /\ s.ack_remaining \in Nat
  BY Zenon DEF Sound, Safe, Typed, Clocked
<1>2. /\ (IF s.shift_active THEN s.shift_remaining - 0 ELSE s.shift_remaining) = s.shift_remaining
      /\ (IF s.pending_ack THEN s.ack_remaining - 0 ELSE s.ack_remaining) = s.ack_remaining
  BY <1>1
<1>3. Elapsed(s, 0) = [s EXCEPT !.shift_remaining = s.shift_remaining,
                               !.ack_remaining = s.ack_remaining]
  BY <1>2, Zenon DEF Elapsed
<1>. QED BY <1>1, <1>3, Zenon

\* The loop on a charge without an event, and on one with a first event after d cycles.
LEMMA EndQuiet ==
  ASSUME NEW s, Sound(s), NEW n \in Nat, \A k \in Nat : k < n => ~At(s, k)
  PROVE  End(Loop(s, n)) = Elapsed(s, n) /\ Sound(Elapsed(s, n))
<1>1. PICK l : l = Loop(s, n)
  BY Zenon
<1>2. Fine(l) /\ l.left = n /\ l.port = s
  BY <1>1, Zenon DEF Fine, Loop
<1>3. PICK z : z = Loop(Elapsed(s, n), 0)
  BY Zenon
<1>4. z.left = 0 /\ z.port = Elapsed(s, n)
  BY <1>3, Zenon DEF Loop
<1>5. Iterate(z) = z
  BY <1>4, IterateDone, Zenon
<1>6. End(z) = z.port
  BY <1>5, Zenon DEF End, Four
<1>7. CASE n = 0
  <2>1. z = l /\ Elapsed(s, n) = s
    BY <1>1, <1>3, <1>7, ElapsedZero, Zenon
  <2>. QED BY <1>1, <1>4, <1>6, <2>1, Zenon
<1>8. CASE n # 0
  <2>1. Iterate(l) = z
    BY <1>1, <1>3, <1>8, IterateQuiet, Zenon DEF Loop
  <2>2. End(l) = End(z)
    BY <1>2, <2>1, EndNext, Zenon
  <2>3. Sound(Elapsed(s, n))
    BY <1>8, ElapsedSound, Zenon
  <2>. QED BY <1>1, <1>4, <1>6, <2>2, <2>3, Zenon
<1>. QED BY <1>7, <1>8, Zenon

\* After the first event the loop goes on with the rest of the charge.
LEMMA EndFirst ==
  ASSUME NEW s, Sound(s), NEW n \in Nat, NEW d \in Nat, d < n, First(s, d)
  PROVE  End(Loop(s, n)) = End(Loop(Fire(s, d), n - d))
<1>1. Fine(Loop(s, n))
  BY Zenon DEF Fine, Loop
<1>2. Iterate(Loop(s, n)) = Loop(Fire(s, d), n - d)
  <2>1. n \in Nat \ {0}
    OBVIOUS
  <2>. QED BY <2>1, IterateFirst, Zenon DEF Loop
<1>3. PICK l : l = Loop(s, n)
  BY Zenon
<1>4. End(Iterate(l)) = End(l)
  BY <1>1, <1>3, EndNext, Zenon
<1>. QED BY <1>2, <1>3, <1>4, Zenon

\* A charge may be split when every charge may be after the first event.
LEMMA SplitStep ==
  ASSUME NEW s, Sound(s), \A d \in Nat : First(s, d) => Splits(Fire(s, d))
  PROVE  Splits(s)
<1>. SUFFICES ASSUME NEW a \in Nat, NEW b \in Nat
              PROVE  End(Loop(End(Loop(s, a)), b)) = End(Loop(s, a + b))
  BY Zenon DEF Splits
<1>1. CASE \A k \in Nat : k < a => ~At(s, k)
  <2>1. PICK e : e = Elapsed(s, a)
    BY Zenon
  <2>2. End(Loop(s, a)) = e /\ Sound(e)
    BY <1>1, <2>1, EndQuiet, Zenon
  <2>3. \A k \in Nat : /\ At(e, k) <=> At(s, a + k)
                       /\ Fire(e, k) = Fire(s, a + k)
    BY <2>1, ElapsedFires, Zenon
  <2>4. CASE \A k \in Nat : k < a + b => ~At(s, k)
    <3>1. \A k \in Nat : k < b => ~At(e, k)
      BY <2>3, <2>4
    <3>2. End(Loop(e, b)) = Elapsed(e, b)
      BY <2>2, <3>1, EndQuiet, Zenon
    <3>3. Elapsed(e, b) = Elapsed(s, a + b)
      BY <2>1, ElapsedAdds, Zenon
    <3>4. a + b \in Nat
      OBVIOUS
    <3>5. End(Loop(s, a + b)) = Elapsed(s, a + b)
      BY <2>4, <3>4, EndQuiet, Zenon
    <3>. QED BY <2>2, <3>2, <3>3, <3>5, Zenon
  <2>5. CASE \E d \in Nat : d < a + b /\ First(s, d)
    <3>1. PICK d \in Nat : d < a + b /\ First(s, d)
      BY <2>5, Zenon
    <3>2. a <= d
      BY <1>1, <3>1 DEF First
    <3>3. PICK k \in Nat : k = d - a
      BY <3>2
    <3>4. d = a + k /\ k < b /\ b - k = (a + b) - d
      BY <3>1, <3>2, <3>3
    <3>5. First(e, k)
      <4>1. At(e, k)
        BY <2>3, <3>1, <3>4, Zenon DEF First
      <4>2. \A j \in Nat : j < k => ~At(e, j)
        <5>1. SUFFICES ASSUME NEW j \in Nat, j < k PROVE ~At(e, j)
          BY Zenon
        <5>2. a + j \in Nat /\ a + j < d
          BY <3>4, <5>1
        <5>. QED BY <2>3, <3>1, <5>2, Zenon DEF First
      <4>. QED BY <4>1, <4>2, Zenon DEF First
    <3>6. End(Loop(e, b)) = End(Loop(Fire(e, k), b - k))
      BY <2>2, <3>4, <3>5, EndFirst, ZenonT(60)
    <3>7. a + b \in Nat
      OBVIOUS
    <3>8. End(Loop(s, a + b)) = End(Loop(Fire(s, d), (a + b) - d))
      BY <3>1, <3>7, EndFirst, ZenonT(60)
    <3>9. Fire(e, k) = Fire(s, d)
      BY <2>3, <3>4, Zenon
    <3>. QED BY <2>2, <3>4, <3>6, <3>8, <3>9, Zenon
  <2>6. a + b \in Nat
    OBVIOUS
  <2>. QED BY <2>4, <2>5, <2>6, FirstOrNone, Zenon
<1>2. CASE \E d \in Nat : d < a /\ First(s, d)
  <2>1. PICK d \in Nat : d < a /\ First(s, d)
    BY <1>2, Zenon
  <2>2. PICK f : f = Fire(s, d)
    BY Zenon
  <2>3. Splits(f)
    BY <2>1, <2>2, Zenon
  <2>4. End(Loop(s, a)) = End(Loop(f, a - d))
    BY <2>1, <2>2, EndFirst, Zenon
  <2>5. a + b \in Nat /\ d < a + b /\ a - d \in Nat /\ (a - d) + b = (a + b) - d
    BY <2>1
  <2>6. End(Loop(s, a + b)) = End(Loop(f, (a + b) - d))
    BY <2>1, <2>2, <2>5, EndFirst, Zenon
  <2>7. End(Loop(End(Loop(f, a - d)), b)) = End(Loop(f, (a - d) + b))
    BY <2>3, <2>5, Zenon DEF Splits
  <2>. QED BY <2>4, <2>5, <2>6, <2>7, Zenon
<1>. QED BY <1>1, <1>2, FirstOrNone, Zenon

\* Every sound port: induction over the events it can still have.
LEMMA SoundSplits ==
  ASSUME NEW s, Sound(s)
  PROVE  Splits(s)
<1>. DEFINE S == {m \in Nat : \A p : Sound(p) /\ ToCome(p) < m => Splits(p)}
<1>1. S \in SUBSET Nat
  BY Zenon
<1>2. 0 \in S
  BY PendingNat
<1>3. ASSUME NEW m \in S PROVE m + 1 \in S
  <2>1. SUFFICES ASSUME NEW p, Sound(p), ToCome(p) < m + 1 PROVE Splits(p)
    BY <1>1
  <2>2. ASSUME NEW d \in Nat, First(p, d) PROVE Splits(Fire(p, d))
    <3>1. PICK f : f = Fire(p, d)
      BY Zenon
    <3>2. Sound(f) /\ ToCome(f) < ToCome(p)
      BY <2>1, <2>2, <3>1, FireSound, Zenon
    <3>3. ToCome(f) \in 0..5 /\ ToCome(p) \in 0..5
      BY <2>1, <3>2, PendingNat, Zenon
    <3>4. ToCome(f) < m
      BY <1>1, <1>3, <2>1, <3>2, <3>3
    <3>. QED BY <1>3, <3>1, <3>2, <3>4, Zenon
  <2>. QED BY <2>1, <2>2, SplitStep, Zenon
<1>4. S = Nat
  <2>. HIDE DEF S
  <2>. QED BY <1>1, <1>2, <1>3, SetInduction, Zenon
<1>5. ToCome(s) \in 0..5
  BY PendingNat, Zenon
<1>6. ToCome(s) < 6 /\ 6 \in Nat
  BY <1>5
<1>7. 6 \in S
  BY <1>4, <1>6, Zenon
<1>8. \A p : Sound(p) /\ ToCome(p) < 6 => Splits(p)
  BY <1>7, Zenon
<1>. QED BY <1>6, <1>8, Zenon

\* sio_advance is the loop on a port whose clock runs, and nothing on one that rests.
LEMMA AdvanceEnd ==
  ASSUME NEW s, NEW cycles
  PROVE  sio_advance(s, cycles) = IF s.timing_active THEN End(Loop(s, cycles)) ELSE s
<1>. DEFINE loop[k \in 0..MAX_TRANSITIONS] ==
              IF k = 0 THEN [port |-> s, left |-> cycles] ELSE Iterate(loop[k - 1])
<1>0. sio_advance(s, cycles) = IF s.timing_active THEN loop[MAX_TRANSITIONS].port ELSE s
  BY Zenon DEF sio_advance
<1>1. loop = [k \in 0..MAX_TRANSITIONS |->
                IF k = 0 THEN [port |-> s, left |-> cycles] ELSE Iterate(loop[k - 1])]
  <2>1. \E f : f = LoopBody(f, s, cycles)
    BY LoopExists, Zenon
  <2>. QED BY <2>1, Zenon DEF LoopBody
<1>. HIDE DEF loop
<1>2. loop[0] = Loop(s, cycles)
  BY <1>1 DEF MAX_TRANSITIONS, Loop
<1>3. /\ loop[1] = Iterate(loop[0]) /\ loop[2] = Iterate(loop[1]) /\ loop[3] = Iterate(loop[2])
      /\ loop[4] = Iterate(loop[3]) /\ loop[5] = Iterate(loop[4]) /\ loop[6] = Iterate(loop[5])
      /\ loop[7] = Iterate(loop[6]) /\ loop[8] = Iterate(loop[7])
  BY <1>1 DEF MAX_TRANSITIONS
<1>4. loop[8].port = End(Loop(s, cycles))
  BY <1>2, <1>3, Zenon DEF End, Four
<1>5. loop[MAX_TRANSITIONS] = loop[8]
  BY Zenon DEF MAX_TRANSITIONS
<1>. QED BY <1>0, <1>4, <1>5, Zenon

\* A port whose clock does not run has nothing to count down.
LEMMA RestsQuiet ==
  ASSUME NEW s, Sound(s), ~s.timing_active, NEW n \in Nat
  PROVE  End(Loop(s, n)) = s
<1>1. /\ s = [f \in PortFields |-> s[f]] /\ ~s.shift_active /\ ~s.pending_ack
  BY Zenon DEF Sound, Clocked
<1>2. \A k \in Nat : ~At(s, k)
  BY <1>1, Zenon DEF At, ShiftDue, AckDue
<1>3. End(Loop(s, n)) = Elapsed(s, n)
  BY <1>2, EndQuiet, Zenon
<1>4. Elapsed(s, n) = [s EXCEPT !.shift_remaining = s.shift_remaining,
                               !.ack_remaining = s.ack_remaining]
  BY <1>1, Zenon DEF Elapsed
<1>5. [s EXCEPT !.shift_remaining = s.shift_remaining, !.ack_remaining = s.ack_remaining] = s
  BY <1>1, Zenon
<1>. QED BY <1>3, <1>4, <1>5, Zenon

\* On a sound port sio_advance is the loop, and leaves a sound port.
LEMMA SoundAdvance ==
  ASSUME NEW s, Sound(s), NEW n \in Nat
  PROVE  sio_advance(s, n) = End(Loop(s, n)) /\ Sound(sio_advance(s, n))
<1>1. sio_advance(s, n) = IF s.timing_active THEN End(Loop(s, n)) ELSE s
  BY AdvanceEnd, Zenon
<1>2. sio_advance(s, n) = End(Loop(s, n))
  BY <1>1, RestsQuiet, Zenon
<1>3. Fine(Loop(s, n))
  BY Zenon DEF Fine, Loop
<1>4. Sound(End(Loop(s, n)))
  BY <1>3, EndNext, Zenon
<1>. QED BY <1>2, <1>4, Zenon

\* Two charges do to a sound port what one does.
LEMMA AdvanceSplits ==
  ASSUME NEW s, Sound(s), NEW a \in Nat, NEW b \in Nat
  PROVE  sio_advance(sio_advance(s, a), b) = sio_advance(s, a + b)
<1>1. PICK r : r = sio_advance(s, a)
  BY Zenon
<1>2. r = End(Loop(s, a)) /\ Sound(r)
  BY <1>1, SoundAdvance, Zenon
<1>3. sio_advance(r, b) = End(Loop(r, b))
  BY <1>2, SoundAdvance, Zenon
<1>4. a + b \in Nat
  OBVIOUS
<1>5. sio_advance(s, a + b) = End(Loop(s, a + b))
  BY <1>4, SoundAdvance, Zenon
<1>6. End(Loop(End(Loop(s, a)), b)) = End(Loop(s, a + b))
  BY SoundSplits, Zenon DEF Splits
<1>. QED BY <1>1, <1>2, <1>3, <1>5, <1>6, Zenon

-----------------------------------------------------------------------------
(* The register accesses keep the clock running while anything is counted down *)

\* A step that leaves the four flags alone.
LEMMA KeepsClocked ==
  ASSUME NEW s, Clocked(s), NEW n, n = [f \in PortFields |-> n[f]],
         n.shift_active = s.shift_active, n.pending_ack = s.pending_ack,
         n.tx_buffered = s.tx_buffered, n.timing_active = s.timing_active
  PROVE  Clocked(n)
BY Zenon DEF Clocked

\* The block that abandons everything stops the clock too.
LEMMA KilledClocked ==
  ASSUME NEW s, DOMAIN s = PortFields, s = [f \in PortFields |-> s[f]], NEW k, k = Killed(s)
  PROVE  /\ DOMAIN k = PortFields /\ k = [f \in PortFields |-> k[f]]
         /\ k.shift_active = FALSE /\ k.tx_buffered = FALSE
         /\ k.pending_ack = FALSE /\ k.timing_active = FALSE
BY ZenonT(60) DEF Killed, PortFields

\* A port at rest is clocked.
LEMMA StoppedClocked ==
  ASSUME NEW n, n = [f \in PortFields |-> n[f]], n.shift_active = FALSE,
         n.tx_buffered = FALSE, n.pending_ack = FALSE, n.timing_active = FALSE
  PROVE  Clocked(n)
BY Zenon DEF Clocked

\* A byte on the pad's fast path,
LEMMA PadByteClocked ==
  ASSUME NEW s, DOMAIN s = PortFields, Clocked(s), NEW b, NEW n, n = PadByte(s, b)
  PROVE  Clocked(n)
<1>1. PICK k : k = Killed(s)
  BY Zenon
<1>2. /\ DOMAIN k = PortFields /\ k = [f \in PortFields |-> k[f]]
      /\ k.shift_active = FALSE /\ k.tx_buffered = FALSE
      /\ k.pending_ack = FALSE /\ k.timing_active = FALSE
  BY <1>1, KilledClocked, ZenonT(60) DEF Clocked
<1>3. PICK p : p = sio_process_byte([k EXCEPT !.pad_owner = TRUE, !.first = FALSE], b)
  BY Zenon
<1>4. /\ DOMAIN p = PortFields /\ p = [f \in PortFields |-> p[f]]
      /\ p.shift_active = FALSE /\ p.tx_buffered = FALSE
      /\ p.pending_ack = FALSE /\ p.timing_active = FALSE
  BY <1>2, <1>3, Zenon DEF sio_process_byte, PortFields
<1>5. n = IF {"ACK", "ACK_IRQ_EN"} \subseteq p.stat \cup p.ctrl
          THEN [p EXCEPT !.stat = @ \ (Ready \cup {"ACK"}),
                         !.pending_ack = TRUE, !.ack_remaining = BAUD + ACK,
                         !.pending_ack_irq_en = TRUE, !.timing_active = TRUE]
          ELSE [p EXCEPT !.stat = @ \cup Ready]
  BY <1>1, <1>3, Zenon DEF PadByte
<1>6. CASE {"ACK", "ACK_IRQ_EN"} \subseteq p.stat \cup p.ctrl
  <2>1. /\ n = [f \in PortFields |-> n[f]] /\ n.shift_active = FALSE /\ n.tx_buffered = FALSE
        /\ n.timing_active = TRUE
    BY <1>4, <1>5, <1>6, Zenon DEF PortFields
  <2>. QED BY <2>1, Zenon DEF Clocked
<1>7. CASE ~({"ACK", "ACK_IRQ_EN"} \subseteq p.stat \cup p.ctrl)
  <2>1. /\ n = [f \in PortFields |-> n[f]] /\ n.shift_active = FALSE /\ n.tx_buffered = FALSE
        /\ n.pending_ack = FALSE /\ n.timing_active = FALSE
    BY <1>4, <1>5, <1>7, Zenon DEF PortFields
  <2>. QED BY <2>1, StoppedClocked, Zenon
<1>. QED BY <1>6, <1>7, Zenon

\* a byte written to the shifter or its buffer,
LEMMA ShiftByteClocked ==
  ASSUME NEW s, DOMAIN s = PortFields, Clocked(s), NEW select, NEW b,
         NEW n, n = ShiftByte(s, select, b)
  PROVE  Clocked(n)
<1>1. PICK o : o = [s EXCEPT !.pad_owner = IF s.first THEN select ELSE @, !.first = FALSE]
  BY Zenon
<1>2. /\ DOMAIN o = PortFields /\ o = [f \in PortFields |-> o[f]]
      /\ o.shift_active = s.shift_active /\ o.pending_ack = s.pending_ack
      /\ o.tx_buffered = s.tx_buffered /\ o.timing_active = s.timing_active
  BY <1>1, Zenon DEF PortFields, Clocked
<1>3. Clocked(o)
  BY <1>2, KeepsClocked, Zenon
<1>4. n = IF ~s.shift_active THEN ShiftStart(o, b) ELSE IF ~s.tx_buffered THEN BufferLoad(o, b) ELSE o
  BY <1>1, Zenon DEF ShiftByte
<1>5. CASE ~s.shift_active
  <2>1. /\ n = [f \in PortFields |-> n[f]] /\ n.shift_active = TRUE /\ n.tx_buffered = o.tx_buffered
        /\ n.timing_active = TRUE
    BY <1>2, <1>4, <1>5, Zenon DEF ShiftStart, PortFields
  <2>. QED BY <1>3, <2>1, Zenon DEF Clocked
<1>6. CASE s.shift_active /\ ~s.tx_buffered
  <2>0. n = BufferLoad(o, b)
    BY <1>4, <1>6, Zenon
  <2>1. /\ n = [f \in PortFields |-> n[f]] /\ n.shift_active = o.shift_active
        /\ n.tx_buffered = TRUE /\ n.timing_active = o.timing_active
        /\ n.pending_ack = o.pending_ack
    BY <1>2, <2>0, Zenon DEF BufferLoad, PortFields
  <2>2. n.shift_active /\ n.timing_active /\ n.timing_active \in BOOLEAN
    BY <1>2, <1>3, <1>6, <2>1, Zenon DEF Clocked
  <2>. QED BY <2>1, <2>2, Zenon DEF Clocked
<1>7. CASE s.shift_active /\ s.tx_buffered
  BY <1>3, <1>4, <1>7, Zenon
<1>. QED BY <1>5, <1>6, <1>7, Zenon

\* asserting the select line,
LEMMA SelectAssertClocked ==
  ASSUME NEW s, DOMAIN s = PortFields, Clocked(s), NEW n, n = SelectAssert(s)
  PROVE  Clocked(n) /\ DOMAIN n = PortFields
<1>1. /\ DOMAIN n = PortFields /\ n = [f \in PortFields |-> n[f]]
      /\ n.shift_active = s.shift_active /\ n.pending_ack = s.pending_ack
      /\ n.tx_buffered = s.tx_buffered /\ n.timing_active = s.timing_active
  BY Zenon DEF SelectAssert, PortFields, Clocked
<1>. QED BY <1>1, KeepsClocked, Zenon

\* dropping TX_EN,
LEMMA TxEnDropClocked ==
  ASSUME NEW s, DOMAIN s = PortFields, Clocked(s), NEW c, NEW n, n = TxEnDrop(s, c)
  PROVE  Clocked(n) /\ DOMAIN n = PortFields
<1>1. PICK j, k : j = Killed(s) /\ k = [j EXCEPT !.stat = @ \cup Ready]
  BY Zenon
<1>2. n = IF ~Busy(s) THEN s ELSE IF "SELECT" \in c THEN k ELSE SelectAssert(k)
  BY <1>1, Zenon DEF TxEnDrop
<1>3. /\ DOMAIN j = PortFields /\ j = [f \in PortFields |-> j[f]]
      /\ j.shift_active = FALSE /\ j.tx_buffered = FALSE
      /\ j.pending_ack = FALSE /\ j.timing_active = FALSE
  BY <1>1, KilledClocked, ZenonT(60) DEF Clocked
<1>4. /\ DOMAIN k = PortFields /\ k = [f \in PortFields |-> k[f]]
      /\ k.shift_active = FALSE /\ k.tx_buffered = FALSE
      /\ k.pending_ack = FALSE /\ k.timing_active = FALSE
  BY <1>1, <1>3, Zenon DEF PortFields
<1>5. Clocked(k)
  BY <1>4, StoppedClocked, Zenon
<1>. QED BY <1>2, <1>4, <1>5, SelectAssertClocked, Zenon

\* releasing the select line,
LEMMA SelectDeassertClocked ==
  ASSUME NEW s, DOMAIN s = PortFields, Clocked(s), NEW n, n = SelectDeassert(s)
  PROVE  Clocked(n)
<1>1. PICK j : j = Killed(s)
  BY Zenon
<1>2. /\ DOMAIN j = PortFields /\ j = [f \in PortFields |-> j[f]]
      /\ j.shift_active = FALSE /\ j.tx_buffered = FALSE
      /\ j.pending_ack = FALSE /\ j.timing_active = FALSE
  BY <1>1, KilledClocked, ZenonT(60) DEF Clocked
<1>3. n = [j EXCEPT !.active_device = "none", !.pad_owner = FALSE, !.first = TRUE, !.stat = @ \cup Ready]
  BY <1>1, Zenon DEF SelectDeassert
<1>4. /\ n = [f \in PortFields |-> n[f]] /\ n.shift_active = FALSE /\ n.tx_buffered = FALSE
      /\ n.pending_ack = FALSE /\ n.timing_active = FALSE
  BY <1>2, <1>3, Zenon DEF PortFields
<1>. QED BY <1>4, StoppedClocked, Zenon

\* a reset,
LEMMA FreshClocked == Clocked(sio_init)
<1>1. PICK n : n = sio_init
  BY Zenon
<1>2. /\ n = [f \in PortFields |-> n[f]] /\ n.shift_active = FALSE /\ n.tx_buffered = FALSE
      /\ n.pending_ack = FALSE /\ n.timing_active = FALSE
  BY <1>1, Zenon DEF sio_init, PortFields
<1>. QED BY <1>1, <1>2, StoppedClocked, Zenon

\* and so a write to SIO_CTRL keep the port clocked.
LEMMA CtrlClocked ==
  ASSUME Safe(sio), Clocked(sio), NEW c, NEW ack, NEW reset, WriteCtrl(c, ack, reset)
  PROVE  Clocked(sio')
<1>0. DOMAIN sio = PortFields
  BY Zenon DEF Safe, Typed
<1>1. PICK old, s1 : old = sio.ctrl /\ s1 = [sio EXCEPT !.ctrl = c]
  BY Zenon
<1>2. PICK s2 : s2 = IF ack THEN CtrlAck(s1) ELSE s1
  BY Zenon
<1>3. PICK s3 : s3 = IF reset THEN CtrlReset(s2) ELSE s2
  BY Zenon
<1>4. PICK s4 : s4 = IF "SELECT" \in c \ old THEN SelectAssert(s3) ELSE s3
  BY Zenon
<1>5. PICK s5 : s5 = IF "TX_EN" \in old \ c THEN TxEnDrop(s4, c) ELSE s4
  BY Zenon
<1>6. sio' = IF "SELECT" \in old \ c THEN SelectDeassert(s5) ELSE s5
  BY <1>1, <1>2, <1>3, <1>4, <1>5, Zenon DEF WriteCtrl
<1>7. Clocked(s1) /\ DOMAIN s1 = PortFields
  <2>1. /\ DOMAIN s1 = PortFields /\ s1 = [f \in PortFields |-> s1[f]]
        /\ s1.shift_active = sio.shift_active /\ s1.pending_ack = sio.pending_ack
        /\ s1.tx_buffered = sio.tx_buffered /\ s1.timing_active = sio.timing_active
    BY <1>0, <1>1, Zenon DEF PortFields
  <2>. QED BY <2>1, KeepsClocked, Zenon
<1>8. Clocked(s2) /\ DOMAIN s2 = PortFields
  <2>1. CASE ack
    <3>1. /\ DOMAIN s2 = PortFields /\ s2 = [f \in PortFields |-> s2[f]]
          /\ s2.shift_active = s1.shift_active /\ s2.pending_ack = s1.pending_ack
          /\ s2.tx_buffered = s1.tx_buffered /\ s2.timing_active = s1.timing_active
      BY <1>2, <1>7, <2>1, Zenon DEF CtrlAck, PortFields
    <3>. QED BY <1>7, <3>1, KeepsClocked, Zenon
  <2>2. CASE ~ack
    BY <1>2, <1>7, <2>2, Zenon
  <2>. QED BY <2>1, <2>2, Zenon
<1>9. Clocked(s3) /\ DOMAIN s3 = PortFields
  <2>1. CASE reset
    <3>1. PICK i : i = sio_init
      BY Zenon
    <3>2. Clocked(i) /\ DOMAIN i = PortFields
      BY <3>1, FreshPort, FreshClocked, Zenon DEF Safe, Typed
    <3>3. s3 = [i EXCEPT !.i_stat = s2.i_stat]
      BY <1>3, <2>1, <3>1, Zenon DEF CtrlReset
    <3>4. /\ DOMAIN s3 = PortFields /\ s3 = [f \in PortFields |-> s3[f]]
          /\ s3.shift_active = i.shift_active /\ s3.pending_ack = i.pending_ack
          /\ s3.tx_buffered = i.tx_buffered /\ s3.timing_active = i.timing_active
      BY <3>2, <3>3, Zenon DEF PortFields
    <3>. QED BY <3>2, <3>4, KeepsClocked, Zenon
  <2>2. CASE ~reset
    BY <1>3, <1>8, <2>2, Zenon
  <2>. QED BY <2>1, <2>2, Zenon
<1>10. Clocked(s4) /\ DOMAIN s4 = PortFields
  BY <1>4, <1>9, SelectAssertClocked, Zenon
<1>11. Clocked(s5) /\ DOMAIN s5 = PortFields
  BY <1>5, <1>10, TxEnDropClocked, Zenon
<1>12. PICK p : p = sio'
  BY Zenon
<1>13. Clocked(p)
  BY <1>6, <1>11, <1>12, SelectDeassertClocked, Zenon
<1>. QED BY <1>12, <1>13, Zenon

\* What the proof of the split needs of every state the port reaches.
SoundInv == Sound(sio)

\* Every step of the port keeps it sound.
LEMMA SoundStep ==
  ASSUME SoundInv, [SioNext]_sioVars
  PROVE  SoundInv'
<1>0. Safe(sio) /\ Clocked(sio) /\ DOMAIN sio = PortFields
  BY Zenon DEF SoundInv, Sound, Safe, Typed
<1>. SUFFICES Clocked(sio')
  BY <1>0, SafeStep, Zenon DEF SoundInv, Sound
<1>1. PICK s, p : s = sio /\ p = sio'
  BY Zenon
<1>2. Sound(s) /\ Clocked(s) /\ DOMAIN s = PortFields
  BY <1>0, <1>1, Zenon DEF Sound
<1>. SUFFICES Clocked(p)
  BY <1>1, Zenon
<1>3. CASE \E n \in 1..MaxSioStep : AdvanceSio(n)
  <2>1. PICK n \in 1..MaxSioStep : p = sio_advance(s, n)
    BY <1>1, <1>3, Zenon DEF AdvanceSio
  <2>2. n \in Nat
    BY <2>1, SioAssumption
  <2>3. Sound(p)
    BY <1>2, <2>1, <2>2, SoundAdvance, Zenon
  <2>. QED BY <2>3, Zenon DEF Sound
<1>4. CASE \E select \in BOOLEAN, b \in Bytes : WriteTxData(select, b)
  <2>1. PICK select \in BOOLEAN, b \in Bytes : WriteTxData(select, b)
    BY <1>4, Zenon
  <2>2. p = PadByte(s, b) \/ p = ShiftByte(s, select, b)
    BY <1>1, <2>1, Zenon DEF WriteTxData
  <2>3. CASE p = PadByte(s, b)
    BY <1>2, <2>3, PadByteClocked, Zenon
  <2>4. CASE p = ShiftByte(s, select, b)
    BY <1>2, <2>4, ShiftByteClocked, Zenon
  <2>. QED BY <2>2, <2>3, <2>4, Zenon
<1>5. CASE \E c \in CtrlValues, ack, reset \in BOOLEAN : WriteCtrl(c, ack, reset)
  BY <1>0, <1>1, <1>5, CtrlClocked, Zenon
<1>6. CASE ReadStat
  <2>1. /\ p = [f \in PortFields |-> p[f]]
        /\ p.shift_active = s.shift_active /\ p.pending_ack = s.pending_ack
        /\ p.tx_buffered = s.tx_buffered /\ p.timing_active = s.timing_active
    BY <1>1, <1>2, <1>6, Zenon DEF ReadStat, PortFields
  <2>. QED BY <1>2, <2>1, KeepsClocked, Zenon
<1>7. CASE SioIntcAck
  <2>1. /\ p = [f \in PortFields |-> p[f]]
        /\ p.shift_active = s.shift_active /\ p.pending_ack = s.pending_ack
        /\ p.tx_buffered = s.tx_buffered /\ p.timing_active = s.timing_active
    BY <1>1, <1>2, <1>7, Zenon DEF SioIntcAck, PortFields
  <2>. QED BY <1>2, <2>1, KeepsClocked, Zenon
<1>8. CASE UNCHANGED sioVars
  BY <1>1, <1>2, <1>8, Zenon DEF sioVars
<1>. QED BY <1>3, <1>4, <1>5, <1>6, <1>7, <1>8, Zenon DEF SioNext

\* In every state the port reaches, whatever the guest wrote and read before, a charge of
\* cycles to sio_advance may be made in two parts: no transition is lost to
\* MAX_TRANSITIONS, and an event at the seam fires exactly once.
THEOREM SerialAlwaysSplits == SioSpec => []SplitAdvance
<1>1. SioInit => SoundInv
  BY FreshPort, FreshClocked, Zenon DEF SioInit, SoundInv, Sound
<1>2. SoundInv /\ [SioNext]_sioVars => SoundInv'
  BY SoundStep, Zenon
<1>3. SoundInv => SplitAdvance
  <2>. SUFFICES ASSUME SoundInv, NEW a \in 1..MaxSioStep, NEW b \in 1..MaxSioStep
                PROVE  sio_advance(sio_advance(sio, a), b) = sio_advance(sio, a + b)
    BY Zenon DEF SplitAdvance
  <2>1. a \in Nat /\ b \in Nat
    BY SioAssumption
  <2>2. PICK s : s = sio
    BY Zenon
  <2>3. Sound(s)
    BY <2>2, Zenon DEF SoundInv
  <2>4. sio_advance(sio_advance(s, a), b) = sio_advance(s, a + b)
    BY <2>1, <2>3, AdvanceSplits, Zenon
  <2>. QED BY <2>2, <2>4, Zenon
<1>. QED BY <1>1, <1>2, <1>3, PTL DEF SioSpec
=============================================================================
