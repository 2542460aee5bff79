---------------------------- MODULE PressureMonitor ----------------------------
(***************************************************************************)
(* The agent's pressure monitor (agent/core/pressure_monitor.py): it counts *)
(* the consecutive ticks of Phase 3 whose pressure is above the threshold  *)
(* and, the first time there are enough, emits the intent to enter         *)
(* Desperate Mode.  A pressure is written as "above the threshold or not". *)
(***************************************************************************)
EXTENDS Integers

CONSTANT MinCycles   \* min_cycles, a positive number

VARIABLES cyclesHeld, latched

monitorVars == <<cyclesHeld, latched>>

\* A new instance: nothing of it is kept on disk.
MonitorInit == cyclesHeld = 0 /\ latched = FALSE

Held(high) ==
  IF ~high THEN 0 ELSE IF cyclesHeld < MinCycles THEN cyclesHeld + 1 ELSE MinCycles

\* Mutant: apprentices' ticks count as well.
ObserveEarly(phase, high) ==
  /\ cyclesHeld' = Held(high)
  /\ latched' = (latched \/ cyclesHeld' >= MinCycles)

\* observe: ticks outside Phase 3 reset the count.
Observe(phase, high) ==
  /\ cyclesHeld' = IF phase = "Adulthood" THEN Held(high) ELSE 0
  /\ latched' = (latched \/ cyclesHeld' >= MinCycles)

\* The step emits an EnterDesperateModeIntent.
Emits == ~latched /\ latched'

HandlePhaseTransition(from, to) ==
  /\ cyclesHeld' = IF from = "Apprenticeship" /\ to = "Adulthood" THEN 0
                   ELSE cyclesHeld
  /\ UNCHANGED latched

=============================================================================
