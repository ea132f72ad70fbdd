-------------------------- MODULE ReportDescriptors --------------------------
(* The HID report descriptors of the gamepad profiles (core/profiles.cpp):   *)
(* what a host that knows nothing but the descriptor finds in a report.  A   *)
(* layout is the sequence of the usages of an input report, one for each bit *)
(* after the report id; vendor usages stand for what only a driver of the    *)
(* controller understands.                                                   *)
EXTENDS Integers, Sequences, Functions

Bits(usage, n) == [i \in 1..n |-> usage]
Bytes(usage, n) == Bits(usage, 8 * n)
Axis(usages, bits) ==
  [i \in 1 .. bits * Len(usages) |-> usages[(i + bits - 1) \div bits]]
HatSwitch == Bits("hat", 4)

-----------------------------------------------------------------------------
(* Input reports *)
StandardGamepadLayout ==
  Bits("button", 16) \o Axis(<<"X", "Y", "Rx", "Ry", "Z", "Rz">>, 8)

\* Mutant: nothing fills up the bit of the button that is left out.
CommonGamepadButtonsUnpadded == Bits("button", 11)
\* append_common_gamepad_buttons without the misc button
CommonGamepadButtons == Bits("button", 11) \o Bits("padding", 1)
GamepadLayout ==
  CommonGamepadButtons \o HatSwitch \o Axis(<<"X", "Y", "Z", "Rx", "Ry", "Rz">>, 8)

XboxGipLayout(share) ==
  LET buttons == IF share THEN 12 ELSE 10
      trigger(usage) == Bits(usage, 10) \o Bits("padding", 6)
  IN Axis(<<"X", "Y", "Rx", "Ry">>, 16) \o trigger("Z") \o trigger("Rz")
       \o Bits("button", buttons) \o Bits("padding", 16 - buttons)
       \o HatSwitch \o Bits("padding", 4)
       \o Bits("system menu", 1) \o Bits("padding", 7) \o Bytes("battery", 1)

SwitchProLayout ==
  Bits("button", 14) \o Bits("padding", 2) \o Axis(<<"X", "Y", "Z", "Rz">>, 16)
    \o HatSwitch \o Bits("button", 4) \o Bytes("padding", 52)

PlayStationPrefix ==
  Axis(<<"X", "Y", "Z", "Rz">>, 8) \o HatSwitch \o Bits("button", 14)
Dualshock4UsbLayout ==
  PlayStationPrefix \o Bits("vendor", 6) \o Axis(<<"Rx", "Ry">>, 8) \o Bytes("vendor", 54)
Dualshock4BluetoothLayout ==
  Bytes("vendor", 2) \o Axis(<<"X", "Y", "Z", "Rz">>, 8) \o HatSwitch
    \o Bits("button", 14) \o Bits("vendor", 6) \o Axis(<<"Rx", "Ry">>, 8)
    \o Bytes("vendor", 66)
DualsenseUsbLayout ==
  Axis(<<"X", "Y", "Z", "Rz", "Rx", "Ry">>, 8) \o Bytes("vendor", 1) \o HatSwitch
    \o Bits("button", 15) \o Bits("vendor", 13) \o Bytes("vendor", 52)
\* The report 0x31; the one with id 1 is never sent.
DualsenseBluetoothLayout == Bytes("vendor", 77)

Layouts ==
  [generic     |-> [usb |-> StandardGamepadLayout],
   xbox_360    |-> [usb |-> GamepadLayout],
   xbox_one    |-> [usb |-> XboxGipLayout(FALSE)],
   xbox_series |-> [usb |-> XboxGipLayout(TRUE)],
   switch_pro  |-> [usb |-> SwitchProLayout],
   dualshock4  |-> [usb |-> Dualshock4UsbLayout, bluetooth |-> Dualshock4BluetoothLayout],
   dualsense   |-> [usb |-> DualsenseUsbLayout, bluetooth |-> DualsenseBluetoothLayout]]

-----------------------------------------------------------------------------
(* Lengths in bytes without the report id.  Output reports: the rumble block *)
(* of the Xbox 360 controller, the PID block, and the controllers' own       *)
PidRumbleOutput == (4 + 4 + 4 * 8 + 8 + 8 + 8) \div 8
OutputBytes(kind, bus) ==
  CASE kind = "xbox_360" -> 4
    [] kind \in {"generic", "xbox_one", "xbox_series"} -> PidRumbleOutput
    [] kind = "switch_pro" -> 63
    [] kind = "dualshock4" -> IF bus = "usb" THEN 31 ELSE 77
    [] kind = "dualsense"  -> IF bus = "usb" THEN 47 ELSE 77

(* Feature reports: pairs of a report id and a length *)
Dualshock4UsbFeatures ==
  {<<2, 36>>, <<4, 36>>, <<8, 3>>, <<16, 4>>, <<17, 2>>, <<18, 15>>, <<19, 22>>, <<20, 16>>,
   <<21, 44>>}
Dualshock4UsbTestFeatures ==
  {<<128, 6>>, <<129, 6>>, <<130, 5>>, <<131, 1>>, <<132, 4>>, <<133, 6>>, <<134, 6>>,
   <<135, 35>>, <<136, 34>>, <<137, 2>>, <<144, 5>>, <<145, 3>>}
Dualshock4UsbInfoFeatures ==
  {<<146, 3>>, <<147, 12>>, <<160, 6>>, <<161, 1>>, <<162, 1>>, <<163, 48>>, <<164, 13>>,
   <<165, 21>>, <<166, 21>>, <<240, 63>>, <<241, 63>>, <<242, 15>>}
Dualshock4UsbRestFeatures ==
  {<<167, 1>>, <<168, 1>>, <<169, 8>>, <<170, 1>>, <<171, 57>>, <<172, 57>>, <<173, 11>>,
   <<174, 1>>, <<175, 2>>, <<176, 63>>}
Dualshock4BluetoothFeatures == {<<5, 40>>, <<18, 15>>, <<163, 48>>}
DualsenseUsbFeatures ==
  {<<10, 26>>, <<33, 4>>, <<132, 63>>, <<133, 2>>, <<160, 1>>, <<224, 63>>, <<244, 63>>,
   <<245, 3>>}
DualsenseBluetoothFeatures ==
  {<<5, 40>>, <<8, 47>>, <<9, 19>>, <<130, 9>>, <<242, 15>>}
    \cup {<<id, 63>> : id \in {32, 34, 128, 129, 131, 240, 241}}

Features ==
  [dualshock4 |->
     [usb |-> Dualshock4UsbFeatures \cup Dualshock4UsbTestFeatures
                \cup Dualshock4UsbInfoFeatures \cup Dualshock4UsbRestFeatures,
      bluetooth |-> Dualshock4BluetoothFeatures],
   dualsense |->
     [usb |-> DualsenseUsbFeatures \cup DualsenseBluetoothFeatures,
      bluetooth |-> DualsenseBluetoothFeatures]]

(* The ones drivers need, and the length with the report id of what UHID and *)
(* the Windows driver answer to a request for one                            *)
NeededFeatures(kind, bus) ==
  IF kind = "dualshock4" THEN {IF bus = "usb" THEN 2 ELSE 5, 18, 163} ELSE {5, 9, 32}
FeatureReplies(kind, bus) ==
  IF kind = "dualshock4"
  THEN {<<2, 37>>, <<18, 16>>, <<163, 49>>} \cup (IF bus = "bluetooth" THEN {<<5, 41>>} ELSE {})
  ELSE {<<5, 41>>, <<9, 20>>, <<32, 64>>}

-----------------------------------------------------------------------------
(* The profile: whether reports start with an id, and their sizes with it    *)
IdBytes(kind) == IF kind \in {"xbox_one", "xbox_series"} THEN 0 ELSE 1
InputReportSize(kind, bus) ==
  CASE kind \in {"generic", "xbox_360"} -> 1 + 2 + 6
    [] kind \in {"xbox_one", "xbox_series"} -> 17
    [] kind = "switch_pro" -> 64
    [] kind \in {"dualshock4", "dualsense"} -> IF bus = "usb" THEN 64 ELSE 78
OutputReportSize(kind, bus) ==
  CASE kind = "xbox_360" -> 5
    [] kind = "generic" -> 9
    [] kind \in {"xbox_one", "xbox_series"} -> 8
    [] kind = "switch_pro" -> 64
    [] kind = "dualshock4" -> IF bus = "usb" THEN 32 ELSE 78
    [] kind = "dualsense"  -> IF bus = "usb" THEN 48 ELSE 78

SizesAgree(kind, bus) ==
  /\ 8 * (InputReportSize(kind, bus) - IdBytes(kind)) = Len(Layouts[kind][bus])
  /\ OutputReportSize(kind, bus) - IdBytes(kind) = OutputBytes(kind, bus)

Ids(features) == {f[1] : f \in features}
FeaturesAgree(kind, bus) ==
  LET declared == Features[kind][bus]
      replies  == FeatureReplies(kind, bus)
  IN /\ NeededFeatures(kind, bus) \subseteq Ids(declared) \cap Ids(replies)
     /\ \A f \in declared, reply \in replies : reply[1] = f[1] => reply[2] = f[2] + 1
=============================================================================
