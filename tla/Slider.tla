-------------------------------- MODULE Slider --------------------------------
(***************************************************************************)
(* The slider of jQuery UI with two handles and the range between them.  A *)
(* handle is moved with the mouse or with the keys, even both at once, and *)
(* the page sets the values and moves the bounds.                          *)
(***************************************************************************)
EXTENDS Integers

CONSTANTS
    Step,
    Lowest, Highest   \* the bounds that the page chooses lie between these

Handle == {0, 1}
Other(i) == 1 - i

VARIABLES
    min, max,         \* the options of these names,
    values,           \* and options.values, as they are stored
    handleIndex,      \* the handle that the mouse slides, or NoHandle
    keySliding,       \* _keySliding
    focus,            \* the handle that gets the keys, or NoHandle
    lastChangedValue, \* the handle of the last change, or NoHandle
    announced         \* history: the values at the last event "change"

NoHandle == -1
sliderVars == <<min, max, values, handleIndex, keySliding, focus, lastChangedValue, announced>>

(* A bound that is no whole number of steps from the other would let a     *)
(* value be rounded past it.                                               *)
Bounds == {b \in Lowest .. Highest : (b - Lowest) % Step = 0}

(* _trimAlignValue of the number n / scale. *)
TrimAlign(n, scale) ==
    LET steps == (n - min * scale) % (Step * scale)
    IN CASE n <= min * scale -> min
         [] n >= max * scale -> max
         [] OTHER -> (n - steps) \div scale + IF 2 * steps >= Step * scale THEN Step ELSE 0

(* _values: what is stored is read within the bounds of the moment. *)
Value(i) == TrimAlign(values[i], 1)
Aligned == {TrimAlign(n, 1) : n \in min .. max}

SliderInit ==
    /\ min \in Bounds /\ max \in Bounds /\ min < max
    /\ values = [i \in Handle |-> min]
    /\ handleIndex = NoHandle /\ keySliding = FALSE /\ focus = NoHandle
    /\ lastChangedValue = NoHandle
    /\ announced = values

-----------------------------------------------------------------------------
(* Mutant of Clamped: only the lower handle is held by the other one.      *)
ClampedFromBelow(i, new) == IF i = 0 /\ new > Value(1) THEN Value(1) ELSE new

Clamped(i, new) ==
    IF (i = 0 /\ new > Value(1)) \/ (i = 1 /\ new < Value(0)) THEN Value(Other(i)) ELSE new

(* _change is silent while a handle is slid. *)
Change(i, now, sliding) ==
    IF sliding THEN UNCHANGED <<lastChangedValue, announced>>
    ELSE lastChangedValue' = i /\ announced' = now

(* _slide, which "slide" may refuse. *)
SlideTo(i, new) ==
    \/ UNCHANGED values
    \/ values' = [values EXCEPT ![i] = IF Clamped(i, new) = Value(i) THEN @ ELSE Clamped(i, new)]

(* _mouseCapture: the nearest handle; of two that are as near, the upper   *)
(* one if it changed last or stands at the lower end.                      *)
Nearest(norm) ==
    LET Distance(i) == IF norm >= Value(i) THEN norm - Value(i) ELSE Value(i) - norm
    IN IF \/ Distance(1) < Distance(0)
          \/ Distance(1) = Distance(0) /\ (lastChangedValue = 1 \/ Value(1) = min)
       THEN 1 ELSE 0

(* Over a handle the button only takes hold of it; "start" may refuse.     *)
MouseDown(norm, over) ==
    /\ handleIndex = NoHandle
    /\ norm \in Aligned
    /\ handleIndex' = Nearest(norm) /\ focus' = Nearest(norm)
    /\ IF over THEN UNCHANGED values ELSE SlideTo(Nearest(norm), norm)
    /\ UNCHANGED <<min, max, keySliding, lastChangedValue, announced>>

MouseDrag(norm) ==
    /\ handleIndex # NoHandle
    /\ norm \in Aligned
    /\ SlideTo(handleIndex, norm)
    /\ UNCHANGED <<min, max, handleIndex, keySliding, focus, lastChangedValue, announced>>

MouseStop ==
    /\ handleIndex # NoHandle /\ handleIndex' = NoHandle
    /\ Change(handleIndex, values, keySliding)
    /\ UNCHANGED <<min, max, values, keySliding, focus>>

-----------------------------------------------------------------------------
Target(key, value) ==
    CASE key = "home"     -> min
      [] key = "end"      -> max
      [] key = "pageUp"   -> TrimAlign(5 * value + (max - min), 5)
      [] key = "pageDown" -> TrimAlign(5 * value - (max - min), 5)
      [] key = "up"       -> TrimAlign(value + Step, 1)
      [] key = "down"     -> TrimAlign(value - Step, 1)

(* keydown, if "start" does not refuse the first one. *)
Keydown(key) ==
    /\ focus # NoHandle
    /\ keySliding' = TRUE
    /\ SlideTo(focus, Target(key, Value(focus)))
    /\ UNCHANGED <<min, max, handleIndex, focus, lastChangedValue, announced>>

Keyup ==
    /\ focus # NoHandle /\ keySliding
    /\ keySliding' = FALSE
    /\ Change(focus, values, handleIndex # NoHandle)
    /\ UNCHANGED <<min, max, values, handleIndex, focus>>

(* The focus comes and goes, also while a key is down. *)
MoveFocus(i) ==
    /\ focus' = i
    /\ UNCHANGED <<min, max, values, handleIndex, keySliding, lastChangedValue, announced>>

-----------------------------------------------------------------------------
(* values(array): the page gives the lower value first. *)
SetValues(low, high) ==
    /\ low <= high
    /\ values' = [i \in Handle |-> TrimAlign(IF i = 0 THEN low ELSE high, 1)]
    /\ Change(1, values', keySliding \/ handleIndex # NoHandle)
    /\ UNCHANGED <<min, max, handleIndex, keySliding, focus>>

(* option("min") and option("max"): what is stored stays. *)
SetBounds(low, high) ==
    /\ low < high
    /\ min' = low /\ max' = high
    /\ UNCHANGED <<values, handleIndex, keySliding, focus, lastChangedValue, announced>>

SliderNext ==
    \/ \E norm \in min .. max : MouseDrag(norm) \/ \E over \in BOOLEAN : MouseDown(norm, over)
    \/ \E key \in {"home", "end", "pageUp", "pageDown", "up", "down"} : Keydown(key)
    \/ \E i \in Handle \cup {NoHandle} : MoveFocus(i)
    \/ \E low, high \in Lowest .. Highest : SetValues(low, high)
    \/ \E low, high \in Bounds : SetBounds(low, high)
    \/ MouseStop \/ Keyup

SliderSpec == SliderInit /\ [][SliderNext]_sliderVars

-----------------------------------------------------------------------------
(* Properties.                                                             *)

(* The handles never pass each other, whatever is moved and whichever      *)
(* bounds come in between, and both stand on a step within the bounds.     *)
(* When neither the mouse nor a key slides, the page has been told of the  *)
(* values by "change".                                                     *)
RangeIsInOrder ==
    /\ Value(0) <= Value(1)
    /\ \A i \in Handle : Value(i) \in min .. max /\ (Value(i) - min) % Step = 0
    /\ handleIndex = NoHandle /\ ~keySliding => announced = values

=============================================================================
