---------------------------- MODULE TouchProofs -----------------------------
(***************************************************************************)
(* Theorems about Touch for every converter, calibration and filter.       *)
(***************************************************************************)
EXTENDS Touch, TLAPS

(* A remainder of a positive divisor is a natural number, and so the scaled
   coordinate is one, although the difference it starts from may be negative. *)
LEMMA ModNat ==
  ASSUME NEW a \in Int, NEW b \in Nat \ {0}
  PROVE  a % b \in Nat
  OBVIOUS

LEMMA QuotientInt ==
  ASSUME NEW a \in Int, NEW b \in Nat \ {0}
  PROVE  a \div b \in Int
  OBVIOUS

LEMMA ProductInt ==
  ASSUME NEW a \in Int, NEW b \in Int
  PROVE  a * b \in Int
  OBVIOUS

LEMMA ScaledNat ==
  ASSUME TypeOK, NEW raw \in Raws
  PROVE  Scaled(raw) \in Nat
<1> DEFINE n == IF max_x > min_x THEN raw - min_x ELSE min_x - raw
           d == IF max_x > min_x THEN max_x - min_x ELSE min_x - max_x
<1>1. raw \in Nat /\ Width \in Nat /\ Word \in Nat \ {0} /\ n \in Int /\ d \in Nat
  BY TouchAssumption DEF TouchAssumption, TypeOK
<1> HIDE DEF n, d
<1>2. CASE d = 0
  BY <1>2 DEF Scaled, n, d
<1>3. CASE d # 0
  <2>1. d \in Nat \ {0}
    BY <1>1, <1>3
  <2>2. n * Width \in Int /\ (0 - n) * Width \in Int
    <3>1. 0 - n \in Int /\ Width \in Int
      BY <1>1
    <3>2. QED
      BY <1>1, <3>1, ProductInt
  <2>3. (n * Width) \div d \in Int /\ ((0 - n) * Width) \div d \in Int
    BY <2>1, <2>2, QuotientInt
  <2>4. 0 - ((0 - n) * Width) \div d \in Int
    BY <2>3
  <2>5. ((n * Width) \div d) % Word \in Nat /\ (0 - ((0 - n) * Width) \div d) % Word \in Nat
    BY <1>1, <2>3, <2>4, ModNat
  <2>6. Scaled(raw) = IF n >= 0 THEN ((n * Width) \div d) % Word
                      ELSE (0 - ((0 - n) * Width) \div d) % Word
    BY <1>3 DEF Scaled, n, d
  <2>7. QED
    BY <2>5, <2>6
<1>4. QED
  BY <1>2, <1>3

LEMMA InitType == Init => TypeOK
<1> SUFFICES ASSUME Init PROVE TypeOK
  OBVIOUS
<1>1. enabled \in BOOLEAN /\ pending \in BOOLEAN /\ event \in BOOLEAN /\ touch_down \in BOOLEAN
      /\ calibrating \in BOOLEAN /\ gui_down \in BOOLEAN /\ torn \in BOOLEAN
  BY DEF Init
<1>2. x \in Nat /\ previous \in Nat /\ min_x \in Nat /\ max_x \in Nat /\ due \in Nat \cup {-1}
  BY TouchAssumption DEF TouchAssumption, Init
<1>3. QED
  BY <1>1, <1>2 DEF Init, TypeOK

LEMMA StepType == TypeOK /\ [Next]_vars => TypeOK'
<1> SUFFICES ASSUME TypeOK, [Next]_vars PROVE TypeOK'
  OBVIOUS
<1> USE DEF TypeOK, exti, view, mode, gui
<1>1. CASE PenDown
  BY <1>1 DEF PenDown
<1>2. CASE PenUp
  BY <1>2 DEF PenUp
<1>3. CASE Isr
  BY <1>3 DEF Isr
<1>4. CASE Control
  BY <1>4 DEF Control
<1>5. CASE ControlMin
  BY <1>5, TouchAssumption DEF TouchAssumption, ControlMin
<1>6. CASE ControlMax
  BY <1>6 DEF ControlMax
<1>7. CASE Wake \/ StillUp \/ Down \/ LookAgain
  BY <1>7 DEF Wake, StillUp, Down, LookAgain
<1>8. CASE Lift
  BY <1>8 DEF Lift, AfterLift
<1>9. CASE Rearm
  BY <1>9 DEF Rearm, LineOn
<1>10. CASE Sample
  <2>1. x' \in Nat
    BY <1>10, ScaledNat, TouchAssumption DEF TouchAssumption, Sample, Sampled
  <2>2. QED
    BY <1>10, <2>1 DEF Sample, MarkedDown
<1>11. CASE UNCHANGED vars
  BY <1>11 DEF vars
<1>12. QED
  BY <1>1, <1>2, <1>3, <1>4, <1>5, <1>6, <1>7, <1>8, <1>9, <1>10, <1>11 DEF Next, Thread

(* Every field keeps its range; a coordinate never is below zero, whatever the
   converter gives and whatever calibration is loaded (rtgui_touch_calculate). *)
THEOREM FieldsTyped == Spec => []TypeOK
  BY InitType, StepType, PTL DEF Spec
-----------------------------------------------------------------------------
(* Presses and lifts come in pairs, unless the mode is switched within a press
   (touch_thread_entry, rtgui_touch_control). *)
THEOREM PressesPaired == Spec => []GuiAgrees
<1>1. Init => GuiAgrees
  BY DEF Init, GuiAgrees
<1>2. TypeOK /\ GuiAgrees /\ [Next]_vars => GuiAgrees'
  <2> SUFFICES ASSUME TypeOK, GuiAgrees, [Next]_vars PROVE GuiAgrees'
    OBVIOUS
  <2> USE DEF GuiAgrees, view, mode, gui
  <2>1. CASE PenDown \/ PenUp \/ Isr \/ Wake \/ StillUp \/ Rearm \/ Down \/ LookAgain
    BY <2>1 DEF PenDown, PenUp, Isr, Wake, StillUp, Rearm, Down, LookAgain
  <2>2. CASE ControlMin \/ ControlMax
    BY <2>2 DEF ControlMin, ControlMax
  <2>3. CASE Control
    BY <2>3 DEF Control, TypeOK
  <2>4. CASE Lift
    BY <2>4 DEF Lift, AfterLift, TypeOK
  <2>5. CASE Sample
    BY <2>5 DEF Sample, MarkedDown, TypeOK
  <2>6. CASE UNCHANGED vars
    BY <2>6 DEF vars
  <2>7. QED
    BY <2>1, <2>2, <2>3, <2>4, <2>5, <2>6 DEF Next, Thread
<1>3. QED
  BY <1>1, <1>2, FieldsTyped, PTL DEF Spec
-----------------------------------------------------------------------------
(* While the thread sleeps and nobody has woken it, the line is enabled. *)
LineReady == tpc = "sleep" /\ ~event => enabled

LEMMA LineReadyHolds == Spec => []LineReady
<1>1. Init => LineReady
  BY DEF Init, LineReady
<1>2. LineReady /\ [Next]_vars => LineReady'
  BY DEF LineReady, exti, vars, Next, Thread, PenDown, PenUp, Isr, Control, ControlMin, ControlMax,
         Wake, StillUp, Lift, Rearm, LineOn, Down, LookAgain, Sample
<1>3. QED
  BY <1>1, <1>2, PTL DEF Spec

(* Only the step that enables the line again loses a press, by clearing an edge
   that came after the pin was read (touch_int_cmd). *)
THEOREM PressLostByRearm == Spec => OnlyRearmLosesPress
<1>1. LineReady /\ [Next]_vars => [~Unseen /\ Unseen' => tpc = "rearm" /\ pen = "down"]_vars
  <2> SUFFICES ASSUME LineReady, [Next]_vars, ~Unseen, Unseen'
               PROVE  tpc = "rearm" /\ pen = "down"
    OBVIOUS
  <2> USE DEF Unseen, exti
  <2>1. CASE PenDown
    BY <2>1 DEF PenDown, LineReady
  <2>2. CASE PenUp \/ Isr
    BY <2>2 DEF PenUp, Isr
  <2>3. CASE Control \/ ControlMin \/ ControlMax
    BY <2>3 DEF Control, ControlMin, ControlMax
  <2>4. CASE Rearm
    BY <2>4 DEF Rearm
  <2>5. CASE Wake \/ StillUp \/ Lift \/ Down \/ LookAgain \/ Sample
    BY <2>5 DEF Wake, StillUp, Lift, Down, LookAgain, Sample
  <2>6. CASE UNCHANGED vars
    BY <2>6 DEF vars
  <2>7. QED
    BY <2>1, <2>2, <2>3, <2>4, <2>5, <2>6 DEF Next, Thread
<1>2. QED
  BY <1>1, LineReadyHolds, PTL DEF Spec, OnlyRearmLosesPress
-----------------------------------------------------------------------------
(* Why a pen on the panel is reported and its lift too: the thread looks at the
   pin again for as long as it holds the pen for down, and otherwise the filter
   starts from 0. *)
Looking == {"test", "delay", "sample"}
Watching ==
  /\ touch_down => tpc \in Looking
  /\ ~touch_down => previous = 0
  /\ x \in 0 .. Word - 1

LEMMA Remainder ==
  ASSUME NEW a \in Int, NEW b \in Nat \ {0}
  PROVE  a % b \in 0 .. b - 1
  OBVIOUS

LEMMA SampledRange ==
  ASSUME TypeOK, x \in 0 .. Word - 1, NEW new \in Sampled
  PROVE  new \in 0 .. Word - 1
<1>1. /\ Word \in Nat \ {0} /\ Raws \subseteq 0 .. Word - 1 /\ Raws \subseteq Nat /\ Width \in Nat
  BY TouchAssumption DEF TouchAssumption
<1>2. ASSUME NEW raw \in Raws PROVE Scaled(raw) \in 0 .. Word - 1
  <2> DEFINE n == IF max_x > min_x THEN raw - min_x ELSE min_x - raw
             d == IF max_x > min_x THEN max_x - min_x ELSE min_x - max_x
  <2>1. n \in Int /\ 0 - n \in Int /\ d \in Nat
    BY <1>1 DEF TypeOK
  <2>2. /\ d = 0 => Scaled(raw) = 0
        /\ d # 0 => Scaled(raw) = IF n >= 0 THEN ((n * Width) \div d) % Word
                                   ELSE (0 - ((0 - n) * Width) \div d) % Word
    BY DEF Scaled
  <2> HIDE DEF n, d
  <2>3. CASE d = 0
    BY <1>1, <2>2, <2>3
  <2>4. CASE d # 0
    <3>1. d \in Nat \ {0} /\ n * Width \in Int /\ (0 - n) * Width \in Int
      BY <1>1, <2>1, <2>4, ProductInt
    <3>2. (n * Width) \div d \in Int /\ ((0 - n) * Width) \div d \in Int
      BY <3>1, QuotientInt
    <3>3. 0 - ((0 - n) * Width) \div d \in Int
      BY <3>2
    <3>4. /\ ((n * Width) \div d) % Word \in 0 .. Word - 1
          /\ (0 - ((0 - n) * Width) \div d) % Word \in 0 .. Word - 1
      BY <1>1, <3>2, <3>3, Remainder
    <3>5. QED
      BY <2>2, <2>4, <3>4
  <2>5. QED
    BY <2>3, <2>4
<1>3. QED
  BY <1>1, <1>2 DEF Sampled

LEMMA WatchingStep == TypeOK /\ Watching /\ [Next]_vars => Watching'
<1> SUFFICES ASSUME TypeOK, Watching, [Next]_vars PROVE Watching'
  OBVIOUS
<1> USE DEF Watching, Looking, view
<1>1. CASE PenDown \/ PenUp \/ Isr \/ Control \/ ControlMin \/ ControlMax
  BY <1>1 DEF PenDown, PenUp, Isr, Control, ControlMin, ControlMax
<1>2. CASE Wake \/ StillUp \/ Rearm \/ Down \/ LookAgain
  BY <1>2 DEF Wake, StillUp, Rearm, Down, LookAgain
<1>3. CASE Lift
  BY <1>3 DEF Lift, AfterLift
<1>4. CASE Sample
  <2>1. x' \in 0 .. Word - 1
    BY <1>4, SampledRange DEF Sample
  <2>2. QED
    BY <1>4, <2>1 DEF Sample, MarkedDown
<1>5. CASE UNCHANGED vars
  BY <1>5 DEF vars
<1>6. QED
  BY <1>1, <1>2, <1>3, <1>4, <1>5 DEF Next, Thread

LEMMA WatchingHolds == Spec => []Watching
<1>1. Init => Watching
  BY TouchAssumption DEF TouchAssumption, Init, Watching
<1>2. QED
  BY <1>1, WatchingStep, FieldsTyped, PTL DEF Spec

(* A press the GUI was told of is watched until it is told of the lift: the
   thread does not sleep meanwhile, so no interrupt has to wake it
   (touch_thread_entry).  It is the safety that PressReleased rests on. *)
PressWatched == gui_down /\ ~torn => tpc \in Looking

THEOREM LiftSeen == Spec => []PressWatched
<1>1. GuiAgrees /\ Watching => PressWatched
  BY DEF GuiAgrees, Watching, PressWatched
<1>2. QED
  BY <1>1, PressesPaired, WatchingHolds, PTL

(* The unsigned difference of two 16-bit places is 0 only if they are equal. *)
LEMMA Differ ==
  ASSUME NEW w \in Nat \ {0}, NEW a \in 0 .. w - 1, NEW b \in 0 .. w - 1, a # b
  PROVE  (a - b) % (w * w) > 0
<1>1. w * w \in Nat /\ w * w >= w
  OBVIOUS
<1>2. PICK m \in Nat \ {0} : m = w * w
  BY <1>1
<1>3. a - b \in Int /\ a - b < m /\ b - a < m /\ a - b # 0
  BY <1>1, <1>2
<1>4. ASSUME NEW d \in Int, d < m, 0 - d < m, d # 0 PROVE d % m > 0
  <2>1. CASE d > 0
    <3>1. d % m = d
      BY <1>4, <2>1
    <3>2. QED
      BY <2>1, <3>1
  <2>2. CASE d < 0
    <3>1. d % m = d + m
      BY <1>4, <2>2
    <3>2. QED
      BY <1>4, <3>1
  <2>3. QED
    BY <1>4, <2>1, <2>2
<1>5. QED
  BY <1>2, <1>3, <1>4

(* The first sample of a press passes the filter, wherever the pen is, unless
   it rests exactly Keep from the edge: the difference of unsigned places
   wraps, so a place nearer the edge counts as moved (rtgui_touch_calculate,
   touch_thread_entry).  It is the safety that PressReported rests on. *)
Reported == Sample => touch_down' \/ x' = Keep

THEOREM FirstSampleReported == Spec => [][Reported]_vars
<1>1. TypeOK /\ Watching /\ [Next]_vars => [Reported]_vars
  <2> SUFFICES ASSUME TypeOK, Watching, Sample, ~touch_down', x' # Keep PROVE FALSE
    BY DEF Reported
  <2>1. ~calibrating /\ ~Moved(x') /\ ~touch_down /\ previous = 0
    BY DEF Sample, MarkedDown, Watching
  <2>2. x' \in 0 .. Word - 1 /\ Keep \in 0 .. Word - 1 /\ Word \in Nat \ {0}
    BY SampledRange, TouchAssumption DEF TouchAssumption, Sample, Watching
  <2>3. (x' - Keep) % (Word * Word) > 0
    BY <2>2, Differ
  <2>4. QED
    BY <2>1, <2>3 DEF Moved
<1>2. QED
  BY <1>1, FieldsTyped, WatchingHolds, PTL DEF Spec
=============================================================================
