------------------------------- MODULE Timers -------------------------------
(***************************************************************************)
(* A root counter (timers.c).  The operators are the functions of the      *)
(* file on one timer's state; each returns the new state, whose `fired'    *)
(* counts the IRQs raised, so that two ways of advancing a timer can be    *)
(* compared event by event.  W is the counter's modulus, 0x10000.          *)
(***************************************************************************)
EXTENDS Naturals

CONSTANTS
  W,        \* the counter's modulus
  Divisors, \* cycles per count of the clock sources (1, 5, 8, 2146)
  MaxTicks  \* largest advance compared

ASSUME TimersAssumption ==
  /\ W \in Nat \ {0, 1} /\ MaxTicks \in Nat
  /\ Divisors \subseteq Nat \ {0} /\ 1 \in Divisors

VARIABLE tm
tmVars == <<tm>>

\* The mode register's writable bits and the divisor the clock source selects.
Modes == [reset : BOOLEAN, irq_target : BOOLEAN, irq_overflow : BOOLEAN,
          repeat : BOOLEAN, toggle : BOOLEAN, div : Divisors]

Timer == [counter : 0..(W - 1), target : 0..(W - 1), mode : Modes, request : BOOLEAN,
          target_flag : BOOLEAN, overflow_flag : BOOLEAN, irq_line : BOOLEAN,
          frac : Nat, fired : Nat]

TimerInit ==
  tm = [counter |-> 0, target |-> 0,
        mode |-> [reset |-> FALSE, irq_target |-> FALSE, irq_overflow |-> FALSE,
                  repeat |-> FALSE, toggle |-> FALSE, div |-> 1],
        request |-> FALSE, target_flag |-> FALSE, overflow_flag |-> FALSE,
        irq_line |-> FALSE, frac |-> 0, fired |-> 0]

Disarmed(mode) ==
  IF mode.repeat THEN mode
  ELSE [mode EXCEPT !.irq_target = FALSE, !.irq_overflow = FALSE]

timer_fire_irq(t) ==
  LET line == t.mode.toggle /\ ~t.irq_line IN
  [t EXCEPT !.irq_line = IF t.mode.toggle THEN line ELSE @,
            !.request = ~line,
            !.fired = IF t.mode.toggle /\ ~line THEN @ ELSE @ + 1,
            !.mode = Disarmed(@)]

\* The two events a count can reach, in the order both advance functions test them.
AtTarget(t) ==
  LET f == [t EXCEPT !.target_flag = TRUE]
      g == IF f.mode.irq_target THEN timer_fire_irq(f) ELSE f
  IN IF g.mode.reset THEN [g EXCEPT !.counter = 0] ELSE g

AtOverflow(t) ==
  LET f == [t EXCEPT !.overflow_flag = TRUE]
  IN IF f.mode.irq_overflow THEN timer_fire_irq(f) ELSE f

timer_tick_one(t) ==
  LET c == [t EXCEPT !.counter = (@ + 1) % W]
      d == IF c.counter = c.target THEN AtTarget(c) ELSE c
  IN IF t.counter = W - 1 THEN AtOverflow(d) ELSE d

\* Counts to the next match with the target: a full turn if it matches now.
TargetDist(t) ==
  LET d == (t.target + W - t.counter) % W IN IF d = 0 THEN W ELSE d

OverflowDist(t) == W - t.counter

Least(S) == CHOOSE n \in S : \A m \in S : n <= m

Jump_noreset(t, step) ==
  LET c == [t EXCEPT !.counter = (@ + step) % W]
      d == IF step = TargetDist(t) THEN [AtTarget(c) EXCEPT !.counter = c.counter] ELSE c
  IN IF t.counter + step > W - 1 THEN AtOverflow(d) ELSE d

\* One iteration of timer_advance_counts' loop: jump to the nearest event.
Jump(t, step) ==
  LET c == [t EXCEPT !.counter = (@ + step) % W]
      d == IF step = TargetDist(t) THEN AtTarget(c) ELSE c
  IN IF t.counter + step > W - 1 THEN AtOverflow(d) ELSE d

\* The counts of the next iteration.
Stride(t, ticks) == Least({ticks, TargetDist(t), OverflowDist(t)})

timer_advance_counts[ticks \in Nat] ==
  [t \in Timer |->
     IF ticks = 0 THEN t
     ELSE LET step == Stride(t, ticks) IN timer_advance_counts[ticks - step][Jump(t, step)]]

TicksIn(t, cycles) == (t.frac + cycles) \div t.mode.div
FracAfter_lost(t, cycles) == 0
FracAfter(t, cycles) == (t.frac + cycles) % t.mode.div

timer_advance_divided(t, cycles) ==
  timer_advance_counts[TicksIn(t, cycles)][[t EXCEPT !.frac = FracAfter(t, cycles)]]

TimerNever == W + W

\* Counts to the next armed event; W + W where nothing is armed.
TicksToIrq(t) ==
  Least({TimerNever} \cup (IF t.mode.irq_target THEN {TargetDist(t)} ELSE {})
                \cup (IF t.mode.irq_overflow THEN {OverflowDist(t)} ELSE {}))

timers_cycles_to_irq(t) == TicksToIrq(t) * t.mode.div - t.frac

-----------------------------------------------------------------------------
AdvanceTimer(cycles) == tm' = [timer_advance_divided(tm, cycles) EXCEPT !.fired = 0]

WriteCounter(v) == tm' = [tm EXCEPT !.counter = v]
WriteTarget(v) == tm' = [tm EXCEPT !.target = v]

WriteMode(m) ==
  tm' = [tm EXCEPT !.mode = m, !.request = TRUE, !.counter = 0, !.irq_line = FALSE,
                   !.frac = 0, !.target_flag = FALSE, !.overflow_flag = FALSE]

\* Reading the mode register clears the two reached flags.
ReadMode == tm' = [tm EXCEPT !.target_flag = FALSE, !.overflow_flag = FALSE]

TimerNext ==
  \/ \E c \in 1..MaxTicks : AdvanceTimer(c)
  \/ \E v \in 0..(W - 1) : WriteCounter(v) \/ WriteTarget(v)
  \/ \E m \in Modes : WriteMode(m)
  \/ ReadMode

TimerSpec == TimerInit /\ [][TimerNext]_tmVars

-----------------------------------------------------------------------------

Ticked[n \in Nat] ==
  [t \in Timer |-> IF n = 0 THEN t ELSE Ticked[n - 1][timer_tick_one(t)]]

\* Advancing a timer n counts at once (timer_advance_counts) leaves the counter, the
\* mode, the flags and the IRQs raised exactly as n single counts (timer_tick_one) do.
BulkEqualsSingle == \A n \in 1..MaxTicks : timer_advance_counts[n][tm] = Ticked[n][tm]

\* Cycles charged in two parts advance the timer exactly as the same cycles charged
\* at once: the fraction carried between charges loses nothing.
SplitCharge ==
  \A a, b \in 0..MaxTicks :
    a + b <= MaxTicks =>
      timer_advance_divided(timer_advance_divided(tm, a), b) = timer_advance_divided(tm, a + b)

\* timers_cycles_to_irq never promises more time than there is: charging fewer cycles
\* than it returns raises no interrupt, and charging as many raises one, unless the
\* timer resets at its target before the overflow it waits for or toggles its line off.
TimerNeverLate ==
  LET due == timers_cycles_to_irq(tm) IN
  /\ \A n \in 0..MaxTicks : n < due => timer_advance_divided(tm, n).fired = 0
  /\ due <= MaxTicks /\ TicksToIrq(tm) < TimerNever /\ ~tm.mode.toggle /\ ~tm.mode.reset
       => timer_advance_divided(tm, due).fired > 0
=============================================================================
