---------------------------- MODULE RotaryEncoder ----------------------------
(***************************************************************************)
(* The knob of src/input/RotaryEncoder.cpp: gpioCallback, an interrupt     *)
(* handler, counts ticks and sets a flag; UI takes both once per turn of   *)
(* its loop.  getDelta reads the counter and clears it in two steps, and   *)
(* the interrupt can fall between them; so can it between the test and the *)
(* clearing of the flag, and the clock tick after that.                    *)
(***************************************************************************)
EXTENDS Integers

CONSTANTS
  TICKS,       \* bound on ticks of the knob
  CLOCK,       \* values of the tick counter (2^32)
  DEBOUNCE,    \* debounceMs (300)
  TIME         \* bound on time

Parameters ==
  TICKS \in Nat /\ TIME \in Nat /\ DEBOUNCE \in Nat /\ CLOCK \in Nat \ {0} /\ DEBOUNCE < CLOCK

VARIABLES
  encoderValue, buttonPressed, lastButtonTick,   \* members
  ui,                      \* where the UI task is
  delta,                   \* what getDelta returns
  turns,                   \* history: ticks of the knob either way, and their sum
  reported, lost,          \* history: sum of what was returned, and of what came in between
  time, lastPress          \* history: time since start, time of the last press reported

vars == <<encoderValue, buttonPressed, lastButtonTick, ui, delta, turns, reported, lost, time, lastPress>>

Init ==
  /\ encoderValue = 0 /\ buttonPressed = FALSE /\ lastButtonTick = 0
  /\ ui = "turn" /\ delta = 0
  /\ turns = [count |-> 0, sum |-> 0] /\ reported = 0 /\ lost = 0
  /\ time = 0 /\ lastPress = -DEBOUNCE

\* getDelta.
LoadValue ==
  /\ ui = "turn"
  /\ delta' = encoderValue
  /\ ui' = "clear"
  /\ UNCHANGED <<encoderValue, buttonPressed, lastButtonTick, turns, reported, lost, time, lastPress>>

ClearedValue == 0

ClearValue ==
  /\ ui = "clear"
  /\ encoderValue' = ClearedValue
  /\ reported' = reported + delta
  /\ ui' = "button"
  /\ UNCHANGED <<buttonPressed, lastButtonTick, delta, turns, lost, time, lastPress>>

\* wasButtonPressed.
IsPressed == buttonPressed

TestFlag ==
  /\ ui = "button"
  /\ ui' = IF IsPressed THEN "pressed" ELSE "turn"
  /\ buttonPressed' = FALSE
  /\ UNCHANGED <<encoderValue, lastButtonTick, delta, turns, reported, lost, time, lastPress>>

\* xTaskGetTickCount.  Slip: it never wraps.
NowUnwrapped == time
Now == time % CLOCK

\* Ticks are unsigned.  Slip: a clock that has wrapped is taken for late enough.
DebouncedSigned == Now - lastButtonTick >= DEBOUNCE \/ Now < lastButtonTick
Debounced == (Now - lastButtonTick) % CLOCK >= DEBOUNCE

Debounce ==
  /\ ui = "pressed"
  /\ ui' = "turn"
  /\ IF Debounced THEN lastButtonTick' = Now /\ lastPress' = time
     ELSE UNCHANGED <<lastButtonTick, lastPress>>
  /\ UNCHANGED <<encoderValue, buttonPressed, delta, turns, reported, lost, time>>

UI == LoadValue \/ ClearValue \/ TestFlag \/ Debounce

\* gpioCallback.
Turn ==
  /\ turns.count < TICKS
  /\ \E way \in {1, -1} :
       /\ encoderValue' = encoderValue + way
       /\ turns' = [count |-> turns.count + 1, sum |-> turns.sum + way]
       /\ lost' = IF ui = "clear" THEN lost + way ELSE lost
  /\ UNCHANGED <<buttonPressed, lastButtonTick, ui, delta, reported, time, lastPress>>

Press ==
  /\ buttonPressed' = TRUE
  /\ UNCHANGED <<encoderValue, lastButtonTick, ui, delta, turns, reported, lost, time, lastPress>>

Tick ==
  /\ time < TIME /\ time' = time + 1
  /\ UNCHANGED <<encoderValue, buttonPressed, lastButtonTick, ui, delta, turns, reported, lost, lastPress>>

Next == UI \/ Turn \/ Press \/ Tick

Spec == Init /\ [][Next]_vars

-----------------------------------------------------------------------------
\* Type invariant.
TypeOK ==
  /\ encoderValue \in -TICKS .. TICKS /\ delta \in -TICKS .. TICKS
  /\ buttonPressed \in BOOLEAN /\ lastButtonTick \in 0 .. CLOCK - 1
  /\ ui \in {"turn", "clear", "button", "pressed"}
  /\ time \in 0 .. TIME /\ lastPress \in -DEBOUNCE .. TIME

(* "this returns accumulated ticks since last call and resets to 0": every *)
(* tick is returned once, except those that come between the load and the  *)
(* clearing of the counter.                                                *)
TicksAccounted ==
  ui # "clear" => reported + lost + encoderValue = turns.sum

(* Two presses that are reported lie at least debounceMs apart in real     *)
(* time, also when the tick counter wraps around between them.             *)
PressesApart == [][lastPress' # lastPress => lastPress' - lastPress >= DEBOUNCE]_vars
=============================================================================
