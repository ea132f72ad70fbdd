------------------------------ MODULE LinuxPen ------------------------------
(* The Linux pen tablet (UinputPenTablet).  A call writes a script of events *)
(* and stops at the first write that fails; a negative pressure or distance  *)
(* leaves that axis as it is.  Positions and tilt, which nothing else        *)
(* depends on, are one event.                                                *)
EXTENDS Uinput

CONSTANTS
  Levels,          \* pressures and distances, in thirds of a unit of the axis
  PressureMax,     \* tablet_pressure_max
  DistanceMax,     \* tablet_distance_max
  MaxPenFailures   \* bound on failed writes

ASSUME LevelsAreIntegers ==
  Levels \subseteq Int /\ PressureMax \in Nat /\ DistanceMax \in Nat

VARIABLES
  pen,             \* "none", then "open", then "closed"
  last_tool,       \* last_tool_
  penKernel,       \* keys, pressure and distance the kernel holds
  penFailures,     \* number of failed writes
  penTouch,        \* has the application used the tool "touch"?
  penFaint         \* is the last pressure it gave one that rounds to nothing?

penVars == <<pen, last_tool, penKernel, penFailures, penTouch, penFaint>>

(* PenToolType and pen_tool_to_linux: the tool "touch" is the key BTN_TOUCH, *)
(* which also says whether a pen is in contact.                              *)
Tools == {"pen", "eraser", "touch", "unchanged"}
ToolKey(tool) == IF tool = "touch" THEN "BTN_TOUCH" ELSE tool
ToolKeys == {"pen", "eraser", "BTN_TOUCH"}
PenButtons == {"STYLUS", "STYLUS2"}

(* scale_normalized_axis: clamped to the axis and rounded, one third of a    *)
(* unit down and two thirds up                                               *)
AxisValue(level, max) == IF level > 3 * max THEN max ELSE (level + 1) \div 3
Faint(p) == p > 0 /\ AxisValue(p, PressureMax) = 0

PenReset == [keys |-> {}, pressure |-> 0, distance |-> 0]

FeedPen(k, event) ==
  CASE event[1] = "PRESSURE" -> [k EXCEPT !.pressure = event[2]]
    [] event[1] = "DISTANCE" -> [k EXCEPT !.distance = event[2]]
    [] event[1] \in ToolKeys \cup PenButtons
                             -> [k EXCEPT !.keys = KeysAfter(@, event)]
    [] OTHER                 -> k

PenMayFail == penFailures < MaxPenFailures
PenWrites(script, n) ==
  /\ penFailures' = penFailures + (IF n < Len(script) THEN 1 ELSE 0)
  /\ penKernel' = FoldLeft(FeedPen, penKernel, Sent(script, n))

-----------------------------------------------------------------------------
PenInit ==
  /\ pen = "none" /\ last_tool = "unchanged"
  /\ penKernel = PenReset /\ penFailures = 0
  /\ penTouch = FALSE /\ penFaint = FALSE

CreatePen ==
  /\ pen = "none"
  /\ pen' = "open"
  /\ UNCHANGED <<last_tool, penKernel, penFailures, penTouch, penFaint>>

\* Mutant: the old tool never leaves.
PenToolScriptKeeping(tool) ==
  IF tool \in {"unchanged", last_tool} THEN <<>> ELSE <<Key(ToolKey(tool), TRUE)>>

(* update_pen_tool: the new tool comes before the old one leaves *)
PenToolScript(tool) ==
  IF tool \in {"unchanged", last_tool} THEN <<>>
  ELSE <<Key(ToolKey(tool), TRUE)>>
         \o IF last_tool = "unchanged" THEN <<>>
            ELSE <<Key(ToolKey(last_tool), FALSE)>>

(* emit_pen_pressure and emit_pen_distance: a pen in contact is at distance  *)
(* zero and a pen at a distance is not in contact.  The axis gets the        *)
(* rounded pressure, contact is that of the pressure itself.                 *)
PressureScript(p) ==
  IF p < 0 THEN <<>>
  ELSE << <<"PRESSURE", AxisValue(p, PressureMax)>>, <<"DISTANCE", 0>>, Key("BTN_TOUCH", p > 0) >>
DistanceScript(d) ==
  IF d < 0 THEN <<>>
  ELSE << <<"DISTANCE", AxisValue(d, DistanceMax)>>, <<"PRESSURE", 0>>, Key("BTN_TOUCH", FALSE) >>

(* place_tool: the tool becomes the last tool once both its events are out *)
PlaceTool(tool, p, d) ==
  /\ pen = "open"
  /\ LET change == PenToolScript(tool)
         script == change \o << <<"POSITION", 0>> >> \o PressureScript(p)
                     \o DistanceScript(d) \o << <<"TILT", 0>>, Syn >>
     IN \E n \in Writable(script, PenMayFail) :
          /\ PenWrites(script, n)
          /\ last_tool' = IF change # <<>> /\ n >= Len(change) THEN tool ELSE last_tool
  /\ penTouch' = (penTouch \/ tool = "touch")
  /\ penFaint' = IF p < 0 THEN penFaint ELSE Faint(p)
  /\ UNCHANGED pen

PenButton(button, down) ==
  /\ pen = "open"
  /\ LET script == <<Key(button, down), Syn>>
     IN \E n \in Writable(script, PenMayFail) : PenWrites(script, n)
  /\ UNCHANGED <<pen, last_tool, penTouch, penFaint>>

ClosePen ==
  /\ pen = "open"
  /\ pen' = "closed" /\ penKernel' = PenReset
  /\ UNCHANGED <<last_tool, penFailures, penTouch, penFaint>>

PenNext ==
  \/ CreatePen
  \/ \E tool \in Tools, p, d \in Levels : PlaceTool(tool, p, d)
  \/ \E button \in PenButtons, down \in BOOLEAN : PenButton(button, down)
  \/ ClosePen

PenSpec == PenInit /\ [][PenNext]_penVars

-----------------------------------------------------------------------------
PenTypeOK ==
  /\ pen \in {"none", "open", "closed"}
  /\ last_tool \in Tools
  /\ penKernel.keys \subseteq ToolKeys \cup PenButtons
  /\ penKernel.pressure \in 0..PressureMax /\ penKernel.distance \in 0..DistanceMax

(* As long as no write has failed, the kernel has exactly the last tool, and *)
(* unless the application used the tool "touch", which shares its key, a pen *)
(* that has pressure is in contact, one in contact is at no distance, and    *)
(* one in contact without pressure was given a pressure so small that it     *)
(* rounds to nothing: whichever axes each call left unchanged.               *)
OneToolInOneContact ==
  pen = "open" /\ penFailures = 0 =>
    /\ penKernel.keys \ (PenButtons \cup {"BTN_TOUCH"})
         = {last_tool} \ {"unchanged", "touch"}
    /\ ~penTouch =>
         /\ penKernel.pressure > 0 => "BTN_TOUCH" \in penKernel.keys
         /\ "BTN_TOUCH" \in penKernel.keys => penKernel.distance = 0
         /\ "BTN_TOUCH" \in penKernel.keys /\ penKernel.pressure = 0 => penFaint
=============================================================================
