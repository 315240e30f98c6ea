-------------------------------- MODULE Spinner --------------------------------
(***************************************************************************)
(* The spinner of jQuery UI: a number in a text field that keys, buttons,  *)
(* the wheel and the page move up and down.  A key or a button that is     *)
(* held spins on by a timer; the page hears of a change when the field     *)
(* loses the focus, which a press on a button must not take for that.      *)
(***************************************************************************)
EXTENDS Integers

CONSTANTS Lowest, Highest

VARIABLES
    value,       \* the text of the field: a number; what is typed may lie
                 \* past Highest
    previous,    \* this.previous: the value when the field got the focus
    saved,       \* the same, kept by a press on a button for its timer
    focused,
    spinning,
    timer,       \* what the timer of _repeat adds: 1, -1, or 0 for no timer
    wheelTimer,
    cancelBlur,  \* and the timer that a press starts to take it back
    pressed,     \* "none", the button held: "in" it or "out" of it
    direction,   \* of that button
    held,        \* the key that is held: 1, -1, or 0
    told         \* history: the value that the page knows

spinnerVars == <<value, previous, saved, focused, spinning, timer, wheelTimer, cancelBlur,
                 pressed, direction, held, told>>

Values == Lowest .. Highest + 1

SpinnerInit ==
    /\ value \in Values /\ previous = value /\ saved = value /\ told = value
    /\ focused = FALSE /\ spinning = FALSE /\ timer = 0 /\ wheelTimer = FALSE
    /\ cancelBlur = FALSE /\ pressed = "none" /\ direction = 1 /\ held = 0

-----------------------------------------------------------------------------
(* _spin and _adjustValue: by a step, or by several when it has gone on    *)
(* for long, but not past the bounds; "spin" may refuse.                   *)
Spin(up) ==
    \/ UNCHANGED value
    \/ value' \in IF up = 1 THEN {v \in Lowest .. Highest : v > value \/ v = Highest}
                  ELSE {v \in Lowest .. Highest : v < value \/ v = Lowest}

Stop == spinning' = FALSE /\ timer' = 0 /\ wheelTimer' = (wheelTimer /\ ~spinning)

(* _start and _repeat; "start" may refuse unless it spins already. *)
StartAndRepeat(up) ==
    \/ spinning' = TRUE /\ timer' = up /\ Spin(up)
    \/ ~spinning /\ UNCHANGED <<spinning, timer, value>>

RepeatTimer ==
    /\ timer # 0
    /\ Spin(timer)
    /\ UNCHANGED <<previous, saved, focused, spinning, timer, wheelTimer, cancelBlur, pressed,
                   direction, held, told>>

-----------------------------------------------------------------------------
(* The keyboard.                                                           *)

Keydown(up) ==
    /\ focused /\ held \in {0, up}
    /\ held' = up
    /\ StartAndRepeat(up)
    /\ UNCHANGED <<previous, saved, focused, wheelTimer, cancelBlur, pressed, direction, told>>

(* Any other key starts to spin as well, without a step. *)
Type(v) ==
    /\ focused
    /\ value' = v
    /\ spinning' \in {spinning, TRUE}
    /\ UNCHANGED <<previous, saved, focused, timer, wheelTimer, cancelBlur, pressed, direction,
                   held, told>>

Keyup ==
    /\ held' = 0
    /\ focused /\ Stop
    /\ UNCHANGED <<value, previous, saved, focused, cancelBlur, pressed, direction, told>>

(* The key goes up elsewhere, though not in the instant in which the field *)
(* is about to get the focus back.                                         *)
KeyupElsewhere ==
    /\ ~focused /\ ~cancelBlur /\ held # 0 /\ held' = 0
    /\ UNCHANGED <<value, previous, saved, focused, spinning, timer, wheelTimer, cancelBlur, pressed,
                   direction, told>>

Focus ==
    /\ ~focused /\ ~cancelBlur
    /\ focused' = TRUE /\ previous' = value
    /\ UNCHANGED <<value, saved, spinning, timer, wheelTimer, cancelBlur, pressed, direction, held,
                   told>>

(* A blur that a press on a button brings about counts for nothing.  (One  *)
(* that comes later with the mouse still down, by the TAB key, is left     *)
(* out: the mouse then goes on to spin a field without the focus.)         *)
Blur ==
    /\ focused /\ focused' = FALSE
    /\ pressed = "none" \/ cancelBlur
    /\ IF cancelBlur THEN UNCHANGED <<spinning, timer, wheelTimer, told>>
       ELSE Stop /\ told' = IF previous # value THEN value ELSE told
    /\ UNCHANGED <<value, previous, saved, cancelBlur, pressed, direction, held>>

-----------------------------------------------------------------------------
(* The mouse.                                                              *)

(* The field has the focus while a button is used, and what it held before *)
(* the press is what a change is measured by.                              *)
MouseDown(up) ==
    /\ pressed = "none" /\ ~cancelBlur
    /\ pressed' = "in" /\ direction' = up
    /\ saved' = IF focused THEN previous ELSE value
    /\ previous' = saved' /\ focused' = TRUE
    /\ cancelBlur' = TRUE
    /\ StartAndRepeat(up)
    /\ UNCHANGED <<wheelTimer, held, told>>

(* Mutant of AfterMouseDown: what the field held is the value of now.      *)
AfterMouseDownForgetting ==
    /\ cancelBlur /\ cancelBlur' = FALSE
    /\ focused' = TRUE
    /\ previous' = IF focused THEN previous ELSE value
    /\ UNCHANGED <<value, saved, spinning, timer, wheelTimer, pressed, direction, held, told>>

(* checkFocus again, by a delay of no time.                                *)
AfterMouseDown ==
    /\ cancelBlur /\ cancelBlur' = FALSE
    /\ focused' = TRUE
    /\ previous' = IF focused THEN previous ELSE saved
    /\ UNCHANGED <<value, saved, spinning, timer, wheelTimer, pressed, direction, held, told>>

MouseUp ==
    /\ pressed = "in" /\ pressed' = "none"
    /\ Stop
    /\ UNCHANGED <<value, previous, saved, focused, cancelBlur, direction, held, told>>

MouseUpElsewhere ==
    /\ pressed = "out" /\ pressed' = "none"
    /\ UNCHANGED <<value, previous, saved, focused, spinning, timer, wheelTimer, cancelBlur,
                   direction, held, told>>

MouseLeave ==
    /\ pressed = "in" /\ pressed' = "out"
    /\ Stop
    /\ UNCHANGED <<value, previous, saved, focused, cancelBlur, direction, held, told>>

MouseEnter ==
    /\ pressed = "out" /\ pressed' = "in"
    /\ StartAndRepeat(direction)
    /\ UNCHANGED <<previous, saved, focused, wheelTimer, cancelBlur, direction, held, told>>

(* The wheel, in a field that has the focus. *)
MouseWheel(up) ==
    /\ focused
    /\ \/ spinning' = TRUE /\ wheelTimer' = TRUE /\ Spin(up)
       \/ ~spinning /\ UNCHANGED <<spinning, wheelTimer, value>>
    /\ UNCHANGED <<previous, saved, focused, timer, cancelBlur, pressed, direction, held, told>>

WheelTimer ==
    /\ wheelTimer
    /\ IF spinning THEN Stop ELSE wheelTimer' = FALSE /\ UNCHANGED <<spinning, timer>>
    /\ UNCHANGED <<value, previous, saved, focused, cancelBlur, pressed, direction, held, told>>

-----------------------------------------------------------------------------
(* The page.  stepUp and stepDown start and stop; spinner_modifier tells   *)
(* of the change at once.  In a field that has the focus `previous` stays: *)
(* a user who then goes back to it is not heard of, and the page is taken  *)
(* not to meddle with a field in use.                                      *)
InUse == focused \/ cancelBlur

StepBy(up) ==
    /\ ~InUse
    /\ Stop \/ (~spinning /\ UNCHANGED <<spinning, timer, wheelTimer>>)
    /\ Spin(up)
    /\ told' = IF value' # value THEN value' ELSE told
    /\ UNCHANGED <<previous, saved, focused, cancelBlur, pressed, direction, held>>

SetValue(v) ==
    /\ v \in Lowest .. Highest /\ ~InUse
    /\ value' = v
    /\ told' = IF value' # value THEN v ELSE told
    /\ UNCHANGED <<previous, saved, focused, spinning, timer, wheelTimer, cancelBlur, pressed,
                   direction, held>>

SpinnerNext ==
    \/ \E up \in {-1, 1} : Keydown(up) \/ MouseDown(up) \/ MouseWheel(up) \/ StepBy(up)
    \/ \E v \in Values : Type(v) \/ SetValue(v)
    \/ Keyup \/ KeyupElsewhere \/ Focus \/ Blur
    \/ AfterMouseDown \/ MouseUp \/ MouseUpElsewhere \/ MouseLeave \/ MouseEnter
    \/ RepeatTimer \/ WheelTimer

SpinnerSpec == SpinnerInit /\ [][SpinnerNext]_spinnerVars

-----------------------------------------------------------------------------
(* Properties.                                                             *)

(* The timer runs only while something is held that will end it, and once  *)
(* the field has lost the focus for good the page knows its value.         *)
NoSpinIsLost ==
    /\ timer # 0 => spinning /\ (held # 0 \/ pressed = "in")
    /\ ~focused /\ ~cancelBlur => told = value

=============================================================================
