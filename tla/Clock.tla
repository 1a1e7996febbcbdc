------------------------------- MODULE Clock -------------------------------
(***************************************************************************)
(* The 100 ms timer interrupt of the firmwares (tmr0_isr, the same code in *)
(* oflnode, ofldongle and oflomniradio) and wait100ms, which main() uses   *)
(* to wait for it.  Time is cut in Phases instants per tick, so that a     *)
(* wait can start anywhere between two interrupts.                         *)
(***************************************************************************)
EXTENDS Naturals

CONSTANTS
  CntMod,            \* values of tmr_cntr, 2^32 in the code
  Phases,            \* instants per tick
  SPM, MPH, HPD,     \* 60 seconds, 60 minutes, 24 hours in the code
  DAYS,              \* values of clock_d, 256 in the code
  MaxDelta           \* longest wait, in ticks: 600 in the code

ASSUME ClockAssumption ==
  /\ CntMod \in Nat /\ MaxDelta \in Nat /\ MaxDelta + 1 < CntMod
  /\ Phases \in Nat \ {0}
  /\ SPM \in Nat \ {0, 1} /\ MPH \in Nat \ {0, 1}
  /\ HPD \in Nat \ {0, 1} /\ DAYS \in Nat \ {0, 1}

VARIABLES
  phase,       \* instants since the last interrupt
  tmr_cntr,
  clock_100ms, clock_s, clock_m, clock_h, clock_d,
  ticks,       \* history: interrupts since the boot, modulo the clock's period
  doing,       \* "run" or inside wait100ms: "wait"
  oldc, delta, \* of wait100ms
  elapsed,     \* history: instants since wait100ms was called
  polled       \* the loop of wait100ms has looked at the last tick

wall == <<clock_100ms, clock_s, clock_m, clock_h, clock_d, ticks>>
clockVars == <<phase, tmr_cntr, wall, doing, oldc, delta, elapsed, polled>>

\* Unsigned arithmetic of tmr_cntr.
Inc(c) == IF c + 1 = CntMod THEN 0 ELSE c + 1
Minus(a, b) == IF a >= b THEN a - b ELSE a + CntMod - b

\* Bound: elapsed stops above what any wait should last.
Later(e) == IF e < (MaxDelta + 1) * Phases THEN e + 1 ELSE e

Period == 10 * SPM * MPH * HPD * DAYS
-----------------------------------------------------------------------------
ClockInit ==
  /\ phase = 0 /\ tmr_cntr = 0
  /\ clock_100ms = 0 /\ clock_s = 0 /\ clock_m = 0 /\ clock_h = 0 /\ clock_d = 0
  /\ ticks = 0
  /\ doing = "run" /\ oldc = 0 /\ delta = 0 /\ elapsed = 0 /\ polled = TRUE

\* The test of the tenths made before the increment.
CarriedEleven ==
  LET s == clock_100ms = 10
  IN  /\ clock_100ms' = IF s THEN 0 ELSE clock_100ms + 1
      /\ clock_s' = IF s THEN (clock_s + 1) % SPM ELSE clock_s
      /\ UNCHANGED <<clock_m, clock_h, clock_d>>

\* The carries, each tested on what the one before has left.
CarriedClock ==
  LET s == clock_100ms + 1 = 10
      m == s /\ clock_s + 1 = SPM
      h == m /\ clock_m + 1 = MPH
      d == h /\ clock_h + 1 = HPD
  IN  /\ clock_100ms' = IF s THEN 0 ELSE clock_100ms + 1
      /\ clock_s' = IF m THEN 0 ELSE IF s THEN clock_s + 1 ELSE clock_s
      /\ clock_m' = IF h THEN 0 ELSE IF m THEN clock_m + 1 ELSE clock_m
      /\ clock_h' = IF d THEN 0 ELSE IF h THEN clock_h + 1 ELSE clock_h
      /\ clock_d' = IF ~d THEN clock_d
                    ELSE IF clock_d + 1 = DAYS THEN 0 ELSE clock_d + 1

\* The interrupt.  wait100ms looks at the counter many times in a tick.
tmr0_isr ==
  /\ phase + 1 = Phases
  /\ doing = "wait" => polled
  /\ phase' = 0
  /\ tmr_cntr' = Inc(tmr_cntr)
  /\ CarriedClock
  /\ ticks' = IF ticks + 1 = Period THEN 0 ELSE ticks + 1
  /\ elapsed' = IF doing = "wait" THEN Later(elapsed) ELSE 0
  /\ polled' = (doing = "run")
  /\ UNCHANGED <<doing, oldc, delta>>

Advance ==
  /\ phase + 1 < Phases
  /\ doing = "wait" => polled
  /\ phase' = phase + 1
  /\ elapsed' = IF doing = "wait" THEN Later(elapsed) ELSE 0
  /\ UNCHANGED <<tmr_cntr, wall, doing, oldc, delta, polled>>

Wait100ms ==
  /\ doing = "run"
  /\ doing' = "wait"
  /\ oldc' = tmr_cntr
  /\ delta' \in 1..MaxDelta
  /\ elapsed' = 0
  /\ polled' = TRUE
  /\ UNCHANGED <<phase, tmr_cntr, wall>>

\* do { del = tmr_cntr - oldc; } while (del < delta), one look.
EnoughSigned == tmr_cntr >= oldc + delta
EnoughStrict == Minus(tmr_cntr, oldc) > delta
Enough == Minus(tmr_cntr, oldc) >= delta

PollAgain ==
  /\ doing = "wait"
  /\ ~polled
  /\ ~Enough
  /\ polled' = TRUE
  /\ UNCHANGED <<phase, tmr_cntr, wall, doing, oldc, delta, elapsed>>

Return ==
  /\ doing = "wait"
  /\ Enough
  /\ doing' = "run"
  /\ oldc' = 0 /\ delta' = 0 /\ elapsed' = 0 /\ polled' = TRUE
  /\ UNCHANGED <<phase, tmr_cntr, wall>>

ClockNext == tmr0_isr \/ Advance \/ Wait100ms \/ PollAgain \/ Return

\* The hardware counts and main() runs.
ClockSpec == ClockInit /\ [][ClockNext]_clockVars
FairClockSpec ==
  /\ ClockSpec
  /\ WF_clockVars(tmr0_isr) /\ WF_clockVars(Advance)
  /\ WF_clockVars(PollAgain) /\ WF_clockVars(Return)
-----------------------------------------------------------------------------
\* Types and ranges.
ClockTypes ==
  /\ phase \in 0..Phases - 1
  /\ tmr_cntr \in 0..CntMod - 1 /\ oldc \in 0..CntMod - 1
  /\ clock_100ms \in 0..9 /\ clock_s \in 0..SPM - 1 /\ clock_m \in 0..MPH - 1
  /\ clock_h \in 0..HPD - 1 /\ clock_d \in 0..DAYS - 1
  /\ ticks \in Nat
  /\ doing \in {"run", "wait"}
  /\ delta \in 0..MaxDelta
  /\ elapsed \in Nat /\ polled \in BOOLEAN

\* The clock reads what has elapsed since the boot: no tick is lost or counted
\* twice in any of the carries of tmr0_isr.
Reading ==
  10 * (SPM * (MPH * (HPD * clock_d + clock_h) + clock_m) + clock_s) + clock_100ms
ClockExact == Reading = ticks

\* oflnode.c:170, "FIXME: Not sure this works when tmr_cntr is about to
\* overflow".  It does: wherever the counter wraps, the wait returns at one of
\* the delta-th interrupts' looks, never an interrupt early and never later.
WaitInTicks ==
  doing = "wait" /\ Enough =>
    elapsed + Phases > delta * Phases /\ elapsed <= delta * Phases

\* Every call of wait100ms returns.
WaitReturns == (doing = "wait") ~> (doing = "run")
=============================================================================
