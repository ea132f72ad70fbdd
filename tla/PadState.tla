------------------------------ MODULE PadState ------------------------------
(* The whole state of a gamepad on its way to the host: GamepadStateAdapter  *)
(* keeps it, changes one input of it at a time and submits all of it; the    *)
(* runtime packs a HID report of it (core/report.cpp), which the UHID and    *)
(* Windows backends send whole, while the uinput gamepads of Linux and       *)
(* FreeBSD write it as one event per code.  An input is "held" when its      *)
(* value is not the neutral one.                                             *)
EXTENDS Uinput, ReportDescriptors, FiniteSets

CONSTANTS
  MaxHeld,          \* bound on inputs held at once
  MaxPadFailures    \* bound on failed submissions

ASSUME PadBounds == MaxHeld \in Nat \ {0} /\ MaxPadFailures \in Nat

VARIABLES
  padPath,          \* how the state reaches the host: "hid", "linux", "freebsd"
  padKind,          \* GamepadProfileKind
  padOpen,          \* "no", "open" or "closed"
  held,             \* state_ of the adapter
  shown,            \* what the host has
  inStep,           \* did the last submission succeed?
  padFailures

padVars == <<padPath, padKind, padOpen, held, shown, inStep, padFailures>>

Kinds == {"generic", "xbox_360", "xbox_one", "xbox_series", "dualshock4",
          "dualsense", "switch_pro"}
Xbox == {"xbox_360", "xbox_one", "xbox_series"}
PlayStation == {"dualshock4", "dualsense"}

Faces == {"a", "b", "x", "y"}
Directions == {"dpad_up", "dpad_down", "dpad_left", "dpad_right"}
Axes == {"left_x", "left_y", "right_x", "right_y"}
Triggers == {"left_trigger", "right_trigger"}
CommonButtons == Faces \cup Directions \cup
  {"back", "start", "guide", "left_stick", "right_stick", "left_shoulder", "right_shoulder"}
Motion == {"acceleration", "gyroscope"}
Touches == {"touch_0", "touch_1"}
Inputs == CommonButtons \cup Axes \cup Triggers \cup Motion \cup Touches
            \cup {"misc1", "touchpad", "battery"}

-----------------------------------------------------------------------------
(* Profiles: capabilities, and the ones the backend leaves of them           *)
Capabilities(kind) ==
  CASE kind \in {"generic", "xbox_360", "xbox_one"} -> {}
    [] kind = "xbox_series" -> {"battery"}
    [] kind \in PlayStation -> {"motion", "touchpad", "battery"}
    [] kind = "switch_pro"  -> {"motion", "battery"}

UsesUinput(path, kind) ==
  path = "freebsd" \/ (path = "linux" /\ kind \notin PlayStation)
Paths == {"hid", "linux", "freebsd"}

EffectiveCapabilities(path, kind) ==
  IF path = "freebsd" THEN {} ELSE Capabilities(kind)

(* gamepad_profile_support, supports_gamepad_button: what the setters accept *)
Accepted(path, kind) ==
  LET can == EffectiveCapabilities(path, kind)
  IN CommonButtons \cup Axes \cup Triggers
       \cup (IF kind \in {"generic", "xbox_series", "dualsense", "switch_pro"}
             THEN {"misc1"} ELSE {})
       \cup (IF "motion" \in can THEN Motion ELSE {})
       \cup (IF "touchpad" \in can THEN Touches \cup {"touchpad"} ELSE {})
       \cup (IF "battery" \in can THEN {"battery"} ELSE {})

-----------------------------------------------------------------------------
(* HID reports.  A report is the set of its fields that are not neutral,     *)
(* each <<place, value>>; a place is a byte, or a byte and a bit.            *)

Lit(places, inputs) == {<<places[c], "set">> : c \in inputs \cap DOMAIN places}

(* Opposite directions cancel each other (hat_from_buttons, dpad_axis).      *)
Opposite == [dpad_up |-> "dpad_down", dpad_down |-> "dpad_up",
             dpad_left |-> "dpad_right", dpad_right |-> "dpad_left"]
Hat(inputs) == {d \in inputs \cap Directions : Opposite[d] \notin inputs}
HatField(place, inputs) ==
  IF Hat(inputs) = {} THEN {} ELSE {<<place, Hat(inputs)>>}

(* The 11 buttons that the first bits of three of the reports have *)
CommonPlaces(byte) ==
  [a |-> <<byte, 0>>, b |-> <<byte, 1>>, x |-> <<byte, 2>>, y |-> <<byte, 3>>,
   left_shoulder |-> <<byte, 4>>, right_shoulder |-> <<byte, 5>>, back |-> <<byte, 6>>,
   start |-> <<byte, 7>>, left_stick |-> <<byte, 8>>, right_stick |-> <<byte, 9>>,
   misc1 |-> <<byte, 11>>]

GenericPlaces ==
  [guide |-> <<1, 10>>, dpad_up |-> <<1, 12>>, dpad_down |-> <<1, 13>>,
   dpad_left |-> <<1, 14>>, dpad_right |-> <<1, 15>>, left_x |-> <<3>>, left_y |-> <<4>>,
   right_x |-> <<5>>, right_y |-> <<6>>, left_trigger |-> <<7>>, right_trigger |-> <<8>>]
GenericReport(S) == Lit(CommonPlaces(1), S) \cup Lit(GenericPlaces, S)

Xbox360Places ==
  [guide |-> <<1, 10>>, left_x |-> <<3>>, left_y |-> <<4>>, left_trigger |-> <<5>>,
   right_x |-> <<6>>, right_y |-> <<7>>, right_trigger |-> <<8>>]
Xbox360Report(S) ==
  Lit(CommonPlaces(1), S) \cup Lit(Xbox360Places, S) \cup HatField(<<1, 12>>, S)

XboxGipPlaces ==
  [left_x |-> <<0>>, left_y |-> <<2>>, right_x |-> <<4>>, right_y |-> <<6>>,
   left_trigger |-> <<8>>, right_trigger |-> <<10>>, guide |-> <<15>>, battery |-> <<16>>]
XboxGipReport(S) ==
  Lit(CommonPlaces(12), S) \cup Lit(XboxGipPlaces, S) \cup HatField(<<14>>, S)

(* The sticks and buttons of both PlayStation reports; a trigger has a bit   *)
(* besides its byte.                                                         *)
PlayStationPlaces(byte) ==
  [left_x |-> <<0>>, left_y |-> <<1>>, right_x |-> <<2>>, right_y |-> <<3>>,
   x |-> <<byte, 4>>, a |-> <<byte, 5>>, b |-> <<byte, 6>>, y |-> <<byte, 7>>,
   left_shoulder |-> <<byte + 1, 0>>, right_shoulder |-> <<byte + 1, 1>>,
   left_trigger |-> <<byte + 1, 2>>, right_trigger |-> <<byte + 1, 3>>,
   back |-> <<byte + 1, 4>>, start |-> <<byte + 1, 5>>, left_stick |-> <<byte + 1, 6>>,
   right_stick |-> <<byte + 1, 7>>, guide |-> <<byte + 2, 0>>, touchpad |-> <<byte + 2, 1>>]

Dualshock4Places ==
  [left_trigger |-> <<7>>, right_trigger |-> <<8>>, battery |-> <<11>>, gyroscope |-> <<12>>,
   acceleration |-> <<18>>, touch_0 |-> <<34>>, touch_1 |-> <<38>>]
Dualshock4Report(S) ==
  Lit(PlayStationPlaces(4), S) \cup Lit(Dualshock4Places, S) \cup HatField(<<4, 0>>, S)

DualsensePlaces ==
  [left_trigger |-> <<4>>, right_trigger |-> <<5>>, misc1 |-> <<9, 2>>, gyroscope |-> <<15>>,
   acceleration |-> <<21>>, touch_0 |-> <<32>>, touch_1 |-> <<36>>, battery |-> <<52>>]
DualsenseReport(S) ==
  Lit(PlayStationPlaces(7), S) \cup Lit(DualsensePlaces, S) \cup HatField(<<7, 0>>, S)

SwitchProPlaces ==
  [battery |-> <<2>>, y |-> <<3, 0>>, x |-> <<3, 1>>, b |-> <<3, 2>>, a |-> <<3, 3>>,
   right_shoulder |-> <<3, 6>>, right_trigger |-> <<3, 7>>, back |-> <<4, 0>>,
   start |-> <<4, 1>>, right_stick |-> <<4, 2>>, left_stick |-> <<4, 3>>, guide |-> <<4, 4>>,
   misc1 |-> <<4, 5>>, dpad_down |-> <<5, 0>>, dpad_up |-> <<5, 1>>, dpad_right |-> <<5, 2>>,
   dpad_left |-> <<5, 3>>, left_shoulder |-> <<5, 6>>, left_trigger |-> <<5, 7>>,
   left_x |-> <<6>>, left_y |-> <<7>>, right_x |-> <<9>>, right_y |-> <<10>>]
SwitchProReport(S) == Lit(SwitchProPlaces, S)

(* pack_input_report *)
Report(kind, S) ==
  CASE kind \in {"xbox_one", "xbox_series"} -> XboxGipReport(S)
    [] kind = "dualshock4" -> Dualshock4Report(S)
    [] kind = "dualsense"  -> DualsenseReport(S)
    [] kind = "switch_pro" -> SwitchProReport(S)
    [] kind = "generic"    -> GenericReport(S)
    [] kind = "xbox_360"   -> Xbox360Report(S)

-----------------------------------------------------------------------------
(* uinput gamepads: the codes the device is created with                     *)
ButtonCodes == {"SOUTH", "EAST", "NORTH", "WEST", "TL", "TR", "SELECT", "START",
                "MODE", "THUMBL", "THUMBR"}
Misc1Code(path, kind) ==
  CASE kind \in {"generic", "xbox_series"} \/ (path = "freebsd" /\ kind = "dualsense") -> "RECORD"
    [] kind = "switch_pro" -> "Z"
    [] OTHER -> "none"

\* Mutant: digital triggers are not configured for a Switch Pro.
ConfiguredAlike(path, kind) ==
  ButtonCodes \cup {"HAT0X", "HAT0Y", "ABS_X", "ABS_Y", "ABS_RX", "ABS_RY"}
    \cup (IF kind \in Xbox THEN {"C", "Z", "TL2", "TR2"} ELSE {})
    \cup {"ABS_Z", "ABS_RZ"}
    \cup ({Misc1Code(path, kind)} \ {"none"})

ConfiguredCodes(path, kind) ==
  ButtonCodes \cup {"HAT0X", "HAT0Y", "ABS_X", "ABS_Y", "ABS_RX", "ABS_RY"}
    \cup (IF kind \in Xbox THEN {"C", "Z", "TL2", "TR2"} ELSE {})
    \cup (IF kind = "switch_pro" THEN {"TL2", "TR2"} ELSE {"ABS_Z", "ABS_RZ"})
    \cup ({Misc1Code(path, kind)} \ {"none"})

(* emit_button_state, emit_axis_state: one event for every code, in order    *)
FaceCodes(kind) ==
  IF kind = "switch_pro" THEN <<<<"a", "EAST">>, <<"b", "SOUTH">>, <<"x", "NORTH">>, <<"y", "WEST">>>>
  ELSE <<<<"a", "SOUTH">>, <<"b", "EAST">>, <<"x", "NORTH">>, <<"y", "WEST">>>>
CommonCodes ==
  <<<<"left_shoulder", "TL">>, <<"right_shoulder", "TR">>, <<"back", "SELECT">>,
    <<"start", "START">>, <<"guide", "MODE">>, <<"left_stick", "THUMBL">>,
    <<"right_stick", "THUMBR">>>>
Misc1Codes(path, kind) ==
  IF Misc1Code(path, kind) = "none" THEN <<>> ELSE <<<<"misc1", Misc1Code(path, kind)>>>>
StickCodes ==
  <<<<"left_x", "ABS_X">>, <<"left_y", "ABS_Y">>, <<"right_x", "ABS_RX">>, <<"right_y", "ABS_RY">>>>
TriggerCodes(kind) ==
  IF kind = "switch_pro" THEN <<<<"left_trigger", "TL2">>, <<"right_trigger", "TR2">>>>
  ELSE <<<<"left_trigger", "ABS_Z">>, <<"right_trigger", "ABS_RZ">>>>

Emitted(map, S) == [i \in DOMAIN map |-> Key(map[i][2], map[i][1] \in S)]
DpadAxis(S, negative, positive) ==
  CASE negative \in Hat(S) -> -1 [] positive \in Hat(S) -> 1 [] OTHER -> 0

StateScript(path, kind, S) ==
  Emitted(FaceCodes(kind) \o CommonCodes \o Misc1Codes(path, kind), S)
    \o << <<"HAT0X", DpadAxis(S, "dpad_left", "dpad_right")>>,
          <<"HAT0Y", DpadAxis(S, "dpad_up", "dpad_down")>> >>
    \o Emitted(StickCodes \o TriggerCodes(kind), S) \o << Syn >>

(* The kernel drops an event whose code the device was not created with; it  *)
(* holds the values that are not 0.  A script has every code once.           *)
Fed(values, script) ==
  LET events == Range(script)
      written == {e[1] : e \in events}
      known == ConfiguredCodes(padPath, padKind)
  IN {v \in values : v[1] \notin written}
       \cup {e \in events : e[1] \in known /\ e[2] # 0}

(* What the host has after all of S was submitted to a device in the state   *)
(* `before`                                                                  *)
ShownOf(before, S) ==
  IF UsesUinput(padPath, padKind)
  THEN Fed(before, StateScript(padPath, padKind, S))
  ELSE Report(padKind, S)

-----------------------------------------------------------------------------
(* submit of the adapter: a report is written or not, of a script the first  *)
(* n events are                                                              *)
SubmitPad(S) ==
  \/ inStep' = TRUE /\ shown' = ShownOf(shown, S) /\ UNCHANGED padFailures
  \/ /\ padFailures < MaxPadFailures
     /\ inStep' = FALSE /\ padFailures' = padFailures + 1
     /\ IF UsesUinput(padPath, padKind)
        THEN LET script == StateScript(padPath, padKind, S)
             IN \E n \in 0 .. Len(script) - 1 :
                  shown' = Fed(shown, Sent(script, n))
        ELSE shown' = shown

PadInit ==
  /\ padPath \in Paths /\ padKind \in Kinds
  /\ padOpen = "no" /\ held = {} /\ shown = {}
  /\ inStep = FALSE /\ padFailures = 0

(* create: the neutral state is submitted, and without it there is no pad *)
CreateAdapter ==
  /\ padOpen = "no"
  /\ SubmitPad({})
  /\ padOpen' = IF inStep' THEN "open" ELSE "closed"
  /\ UNCHANGED <<padPath, padKind, held>>

Changed(S) ==
  /\ padOpen = "open" /\ S # held
  /\ held' = S
  /\ SubmitPad(S)
  /\ UNCHANGED <<padPath, padKind, padOpen>>

(* set_button, the stick and trigger setters, set_acceleration,              *)
(* set_gyroscope, set_battery, set_touchpad_contact: an input the profile    *)
(* does not support is refused; one that is changed stays changed whether or *)
(* not the submission succeeds                                               *)
SetInput(input, active) ==
  /\ input \in Accepted(padPath, padKind)
  /\ active => Cardinality(held) < MaxHeld
  /\ Changed(IF active THEN held \cup {input} ELSE held \ {input})

SetMotion(active) ==
  /\ Motion \subseteq Accepted(padPath, padKind)
  /\ active => held \subseteq Motion
  /\ Changed(IF active THEN held \cup Motion ELSE held \ Motion)

(* set_state takes a state with any inputs: here the ones the setters refuse *)
SetState(S) == Changed(S)

(* submitting the state the adapter has, as a setter with the old value does *)
Resubmit ==
  /\ padOpen = "open" /\ ~inStep
  /\ SubmitPad(held)
  /\ UNCHANGED <<padPath, padKind, padOpen, held>>

ClosePad ==
  /\ padOpen = "open"
  /\ padOpen' = "closed" /\ shown' = {}
  /\ UNCHANGED <<padPath, padKind, held, inStep, padFailures>>

PadNext ==
  \/ CreateAdapter
  \/ \E input \in Inputs, active \in BOOLEAN : SetInput(input, active)
  \/ \E active \in BOOLEAN : SetMotion(active)
  \/ \E input \in Inputs \ Accepted(padPath, padKind) : SetState({input})
  \/ SetState({})
  \/ Resubmit
  \/ ClosePad

PadSpec == PadInit /\ [][PadNext]_padVars

-----------------------------------------------------------------------------
PadTypeOK ==
  /\ padPath \in Paths /\ padKind \in Kinds
  /\ padOpen \in {"no", "open", "closed"}
  /\ held \subseteq Inputs /\ (Cardinality(held) <= MaxHeld \/ held = Motion)
  /\ inStep \in BOOLEAN /\ padFailures \in 0 .. MaxPadFailures

(* The inputs the adapter accepts and no host ever sees: no report and no    *)
(* uinput code has the motion of a Switch Pro, and on Linux the uinput       *)
(* gamepads, whose profile keeps all its capabilities, have no battery.      *)
NeverShown ==
  (IF padKind = "switch_pro" THEN Motion ELSE {})
    \cup (IF padPath = "linux" /\ UsesUinput(padPath, padKind) THEN {"battery"} ELSE {})

Toggled(S, input) == IF input \in S THEN S \ {input} ELSE S \cup {input}

(* After a submission that succeeds, whatever earlier ones left half         *)
(* written, the host has the adapter's whole state: what it has does not     *)
(* depend on what it had before, and with any one accepted input changed it  *)
(* would have something else.  The only inputs the adapter accepts that make *)
(* no difference to the host are those of NeverShown.                        *)
PadShown ==
  padOpen = "open" /\ inStep =>
    /\ shown = ShownOf({}, held)
    /\ \A input \in Accepted(padPath, padKind) :
         shown = ShownOf({}, Toggled(held, input)) <=> input \in NeverShown

(* The usage a host expects of an input that has a field of its own *)
UsageOf(kind, input) ==
  LET playStation == kind \in PlayStation
  IN CASE input = "left_x" -> "X"
       [] input = "left_y" -> "Y"
       [] input = "right_x" -> IF playStation THEN "Z" ELSE "Rx"
       [] input = "right_y" -> IF playStation THEN "Rz" ELSE "Ry"
       [] input = "left_trigger"  -> IF playStation THEN "Rx" ELSE "Z"
       [] input = "right_trigger" -> IF playStation THEN "Ry" ELSE "Rz"
       [] input \in Directions -> IF kind = "generic" THEN "button" ELSE "hat"
       [] input = "guide" -> "system menu"
       [] input = "battery" -> "battery"
       [] OTHER -> "vendor"

(* Bytes of a report before the one its places are counted from, without the *)
(* report id                                                                 *)
Origin(kind, bus) ==
  CASE kind \in {"generic", "xbox_360"} -> -1
    [] bus = "bluetooth" -> IF kind = "dualshock4" THEN 2 ELSE 1
    [] OTHER -> 0

DeclaredAt(layout, origin, place, usage) ==
  LET bit == 8 * (origin + place[1]) + (IF Len(place) = 2 THEN place[2] ELSE 0) + 1
  IN /\ bit \in DOMAIN layout
     /\ IF usage \in Range(layout)
        THEN /\ layout[bit] = usage
             /\ usage \notin {"button", "vendor"} /\ bit > 1 => layout[bit - 1] # usage
        ELSE layout[bit] = "vendor"

(* A host that has only the report descriptor reads what is shown: each      *)
(* input is packed where the descriptor declares a field of its usage, or in *)
(* the vendor part when it declares none; the sizes the profile gives for    *)
(* input and output reports are those the descriptor declares, and so are    *)
(* those of the feature reports that are answered.  Reports of a Switch Pro  *)
(* have Nintendo's own format, which its drivers read without the            *)
(* descriptor; only their sizes agree.                                       *)
ReportsAsDeclared ==
  padPath = "hid" /\ padOpen = "open" =>
    \A bus \in DOMAIN Layouts[padKind] :
      /\ SizesAgree(padKind, bus)
      /\ padKind \in PlayStation => FeaturesAgree(padKind, bus)
      /\ \A input \in held \cap Accepted(padPath, padKind) :
           \A field \in Report(padKind, {input}) :
             \/ padKind = "switch_pro"
             \/ DeclaredAt(Layouts[padKind][bus], Origin(padKind, bus), field[1],
                           IF Len(field[1]) = 2 /\ input \notin Directions
                           THEN "button" ELSE UsageOf(padKind, input))
=============================================================================
