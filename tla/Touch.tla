-------------------------------- MODULE Touch --------------------------------
(***************************************************************************)
(* The touch screen driver drivers/touch.c: the pin PENIRQ, its edge       *)
(* interrupt, the thread "touch", and the GUI thread, which is less urgent *)
(* and switches calibration on and off, or gives new calibration data,     *)
(* through rtgui_touch_control.                                            *)
(*                                                                         *)
(* The pen may move at any time; the GUI thread moves only while "touch"   *)
(* sleeps, delays or waits for the SPI bus.  A step of the thread ends     *)
(* there and wherever the pin matters.  One coordinate is shown: y goes    *)
(* the way of x.  The GUI is taken to accept every event: touch.c ignores  *)
(* the result of rtgui_server_post_event.                                  *)
(***************************************************************************)
EXTENDS Integers

CONSTANTS
  Raws,        \* values the converter may give
  MinX, MaxX,  \* MIN_X_DEFAULT, MAX_X_DEFAULT: values at the edges (either may be larger)
  Calibrations, \* calibration data the set-up file may hold, also useless ones
  Width,       \* X_WIDTH
  Keep,        \* previous_keep
  Word         \* rt_uint16_t counts modulo Word, rt_uint32_t modulo its square

ASSUME TouchAssumption ==
  /\ Word \in Nat \ {0} /\ Raws \subseteq 0 .. Word - 1 /\ Keep \in 0 .. Word - 1
  /\ MinX \in Nat /\ MaxX \in Nat /\ Calibrations \subseteq [min : Nat, max : Nat]
  /\ Width \in Nat

VARIABLES
  pen,              \* the pin reads "down" or "up"
  enabled, pending, \* EXTI line 3
  event,            \* touch->event
  tpc,              \* position of the thread
  touch_down, x, previous, \* its view of the pen; touch->x; touch_previous.x
  calibrating,      \* touch->calibrating
  min_x, max_x,     \* touch->min_x, touch->max_x
  due,              \* GUI thread: the max_x it is about to store, or -1
  gui_down,         \* the last event the GUI was given is a press (history)
  torn              \* the mode was switched within the press (history)

exti == <<enabled, pending>>
view == <<touch_down, x, previous>>
mode == <<calibrating, min_x, max_x, due>>
gui  == <<gui_down, torn>>
vars == <<pen, exti, event, tpc, view, mode, gui>>

(* rtgui_touch_hw_init and rtgui_touch_init. *)
Init ==
  /\ pen = "up" /\ enabled = TRUE /\ pending = FALSE /\ event = FALSE
  /\ tpc = "sleep" /\ touch_down = FALSE /\ x = 0 /\ previous = 0
  /\ calibrating = FALSE /\ min_x = MinX /\ max_x = MaxX /\ due = -1 /\ gui_down = FALSE /\ torn = FALSE
------------------------------------------------------------------------------
(* The pen: a press is a falling edge, which an enabled line remembers. *)

PenDown ==
  /\ pen = "up"
  /\ pen' = "down"
  /\ pending' = (pending \/ enabled)
  /\ UNCHANGED <<enabled, event, tpc, view, mode, gui>>

PenUp ==
  /\ pen = "down"
  /\ pen' = "up"
  /\ UNCHANGED <<exti, event, tpc, view, mode, gui>>

(* EXTI3_IRQHandler: disables and clears the line and wakes the thread. *)
Isr ==
  /\ enabled /\ pending
  /\ enabled' = FALSE /\ pending' = FALSE
  /\ event' = TRUE
  /\ UNCHANGED <<pen, tpc, view, mode, gui>>

(* The GUI thread has the processor while "touch" sleeps, delays or waits for
   the SPI bus. *)
LetsRun == tpc \in {"sleep", "delay", "sample"} /\ ~(tpc = "sleep" /\ event)

(* RT_TOUCH_CALIBRATION and RT_TOUCH_NORMAL.  A switch while the thread holds
   the pen for down splits the press between the two receivers of events. *)
Control ==
  /\ LetsRun /\ due = -1
  /\ calibrating' = ~calibrating
  /\ torn' = (torn \/ touch_down)
  /\ UNCHANGED <<pen, exti, event, tpc, view, min_x, max_x, due, gui_down>>

(* RT_TOUCH_CALIBRATION_DATA: one edge is stored after the other. *)
ControlMin ==
  /\ LetsRun /\ due = -1
  /\ \E data \in Calibrations : min_x' = data.min /\ due' = data.max
  /\ UNCHANGED <<pen, exti, event, tpc, view, calibrating, max_x, gui>>

ControlMax ==
  /\ LetsRun /\ due # -1
  /\ max_x' = due /\ due' = -1
  /\ UNCHANGED <<pen, exti, event, tpc, view, calibrating, min_x, gui>>
------------------------------------------------------------------------------
(* The thread.  A definition that stands just before the one it spoils, and
   that nothing uses, is the code with one plausible mistake in it. *)

Wake ==
  /\ tpc = "sleep" /\ event
  /\ event' = FALSE
  /\ tpc' = "test"
  /\ UNCHANGED <<pen, exti, view, mode, gui>>

(* The pen is up and was not down: nothing to tell. *)
StillUp ==
  /\ tpc = "test" /\ pen = "up" /\ ~touch_down
  /\ tpc' = "rearm"
  /\ UNCHANGED <<pen, exti, event, view, mode, gui>>

(* The pen was lifted: its last place goes to the calibration or to the GUI. *)
AfterLiftForgotten == touch_down' = touch_down
AfterLift == touch_down' = FALSE

Lift ==
  /\ tpc = "test" /\ pen = "up" /\ touch_down
  /\ gui_down' = (gui_down /\ calibrating)
  /\ torn' = (torn /\ gui_down')
  /\ previous' = 0 /\ AfterLift
  /\ tpc' = "rearm"
  /\ UNCHANGED <<pen, exti, event, x, mode>>

(* touch_int_cmd(ENABLE) forgets an edge that came since the pin was read. *)
LineOnForgotten == enabled
LineOn == TRUE

Rearm ==
  /\ tpc = "rearm"
  /\ enabled' = LineOn /\ pending' = FALSE
  /\ tpc' = "sleep"
  /\ UNCHANGED <<pen, event, view, mode, gui>>

(* The pen is down: look again after a delay. *)
Down ==
  /\ tpc = "test" /\ pen = "down"
  /\ tpc' = "delay"
  /\ UNCHANGED <<pen, exti, event, view, mode, gui>>

(* "if(IS_TOUCH_UP()) continue". *)
LookAgain ==
  /\ tpc = "delay"
  /\ tpc' = IF pen = "up" THEN "test" ELSE "sample"
  /\ UNCHANGED <<pen, exti, event, view, mode, gui>>

(* rtgui_touch_calculate: the converter's value, scaled to the panel except
   when calibrating.  The difference is a signed int, the division truncates
   (and gives 0 for a divisor of 0, which the Cortex-M4 does not trap), and the
   result is stored in 16 bits. *)
Scaled(raw) ==
  LET n == IF max_x > min_x THEN raw - min_x ELSE min_x - raw
      d == IF max_x > min_x THEN max_x - min_x ELSE min_x - max_x
  IN  IF d = 0 THEN 0
      ELSE IF n >= 0 THEN ((n * Width) \div d) % Word
      ELSE (0 - ((0 - n) * Width) \div d) % Word

(* Samples that differ too much leave touch->x as it is. *)
Sampled == {x} \cup {IF calibrating THEN raw ELSE Scaled(raw) : raw \in Raws}

(* The filter: previous is unsigned and makes the difference unsigned, so
   that a place closer than Keep to the edge always counts as moved. *)
MovedSigned(new) == previous > new + Keep \/ (new >= Keep /\ previous < new - Keep)
Moved(new) == previous > new + Keep \/ previous < (new - Keep) % (Word * Word)

(* The GUI is told of a press or a move; a calibration only of the lift. *)
MarkedDownForgotten == touch_down' = touch_down
MarkedDown == touch_down' = TRUE

Sample ==
  /\ tpc = "sample"
  /\ x' \in Sampled
  /\ \/ /\ ~calibrating /\ Moved(x')
        /\ previous' = x' /\ MarkedDown
        /\ gui_down' = TRUE /\ torn' = (torn /\ touch_down)
     \/ ~calibrating /\ ~Moved(x') /\ UNCHANGED <<previous, touch_down, gui>>
     \/ calibrating /\ touch_down' = TRUE /\ UNCHANGED <<previous, gui>>
  /\ tpc' = "test"
  /\ UNCHANGED <<pen, exti, event, mode>>

Thread == Wake \/ StillUp \/ Lift \/ Rearm \/ Down \/ LookAgain \/ Sample

Next ==
  PenDown \/ PenUp \/ Isr \/ Control \/ ControlMin \/ ControlMax \/ Thread

Spec == Init /\ [][Next]_vars

(* Interrupt and thread run; neither the pen nor the GUI has to do anything. *)
FairSpec == Spec /\ WF_vars(Isr) /\ WF_vars(Thread)
------------------------------------------------------------------------------
(* Properties. *)

TypeOK ==
  /\ pen \in {"up", "down"} /\ enabled \in BOOLEAN /\ pending \in BOOLEAN
  /\ event \in BOOLEAN /\ touch_down \in BOOLEAN /\ calibrating \in BOOLEAN
  /\ gui_down \in BOOLEAN /\ torn \in BOOLEAN
  /\ x \in Nat /\ previous \in Nat
  /\ min_x \in Nat /\ max_x \in Nat /\ due \in Nat \cup {-1}
  /\ tpc \in {"sleep", "test", "rearm", "delay", "sample"}

(* What the GUI was told agrees with what the thread thinks: presses and
   lifts come in pairs, unless the mode was switched within a press. *)
GuiAgrees == ~torn => (gui_down <=> touch_down /\ ~calibrating)

(* A pen on the panel that nobody will ever look at. *)
Unseen == pen = "down" /\ tpc = "sleep" /\ ~event /\ ~(enabled /\ pending)

(* Only the step that enables the interrupt again loses a press: it clears an
   edge that came after the pin was read.  In particular the line is enabled
   whenever the thread sleeps. *)
OnlyRearmLosesPress == [][~Unseen /\ Unseen' => tpc = "rearm" /\ pen = "down"]_vars

(* A pen that stays on the panel is reported, unless it rests exactly Keep
   from the edge, the one place the filter takes for where the pen was. *)
PressReported == (tpc = "delay" /\ pen = "down") ~> (touch_down \/ pen = "up" \/ x = Keep)

(* The GUI learns that the pen was lifted. *)
PressReleased == gui_down ~> (~gui_down \/ pen = "down" \/ torn)
=============================================================================
