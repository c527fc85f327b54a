---------------------------- MODULE ControlClock ----------------------------
(***************************************************************************)
(* What every flight driver of the lab promises about time: a command is    *)
(* selected when the previous one has been held for a whole control         *)
(* interval, never earlier and never later; it is then held until the       *)
(* interval or the flight is over.                                          *)
(***************************************************************************)
EXTENDS Integers

CONSTANT Interval

VARIABLES
  step,   \* physics steps flown
  left,   \* steps the held command still has to be held
  over    \* the flight has ended

clockVars == <<step, left, over>>

Init == step = 0 /\ left = 0 /\ over = FALSE

Select == ~over /\ left = 0 /\ left' = Interval /\ UNCHANGED <<step, over>>

Hold ==
  /\ ~over /\ left > 0
  /\ step' = step + 1
  /\ left' = left - 1
  /\ over' \in BOOLEAN

Stop == ~over /\ over' = TRUE /\ UNCHANGED <<step, left>>

Next == Select \/ Hold \/ Stop

Spec == Init /\ [][Next]_clockVars
=============================================================================
