------------------------------- MODULE Clock -------------------------------
(* What a sleep of the demo is worth.  demo/init.c sets the length of a     *)
(* tick (CONFIGURE_MICROSECONDS_PER_TICK); a sleep of n ticks ends with the *)
(* n-th tick from now, and the first of them may be at hand.                *)
EXTENDS Integers
CONSTANT TickMs

ASSUME ClockAssumption == TickMs \in Nat \ {0}

\* RTEMS_MILLISECONDS_TO_TICKS
Ticks(ms) == ms \div TickMs

\* Milliseconds that have passed for sure after n sleeps of Ticks(ms).
Slept(ms, n) == (n * Ticks(ms) - 1) * TickMs
=============================================================================
