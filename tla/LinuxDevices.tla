---------------------------- MODULE LinuxDevices -----------------------------
(* Checks the Linux devices, the gamepad state and the library's runtime in  *)
(* one run.  They share no state here: a behaviour picks one of them, part,  *)
(* and the others stay as they were created.  All are extended, so that the  *)
(* properties checked are those that theorems are about.                     *)
EXTENDS LinuxTouch, LinuxPen, LinuxKeyboard, UinputRumble, UhidGamepad, Runtime, PadState

(* The levels of the pen, and two effects: one that goes on until it is      *)
(* stopped, and one with a delay, a slope and an attack.                     *)
PenLevels == {-1, 0, 1, 5}
Shape(length, delay, from, to, attack, attackLevel) ==
  [length |-> length, delay |-> delay, from |-> from, to |-> to,
   attack |-> attack, attackLevel |-> attackLevel, fade |-> 0, fadeLevel |-> 0]
RumbleShapes == {Shape(0, 0, 1, 1, 0, 0), Shape(2, 1, 2, 0, 1, 1)}

VARIABLE part

vars == <<part, touchVars, kbVars, penVars, rumbleVars, uhidVars, padVars, rtVars>>

-----------------------------------------------------------------------------
Init ==
  /\ part \in {"touch", "keyboard", "pen", "rumble", "uhid", "state", "runtime"}
  /\ TouchInit /\ KeyboardInit /\ PenInit /\ RumbleInit /\ UhidInit
  /\ PadInit /\ (part # "state" => padPath = "hid" /\ padKind = "generic")
  /\ RuntimeInit /\ (part # "runtime" => ~appLocks /\ joins)

Next ==
  \/ /\ part = "touch" /\ TouchNext
     /\ UNCHANGED <<part, kbVars, penVars, rumbleVars, uhidVars, padVars, rtVars>>
  \/ /\ part = "keyboard" /\ KeyboardNext
     /\ UNCHANGED <<part, touchVars, penVars, rumbleVars, uhidVars, padVars, rtVars>>
  \/ /\ part = "pen" /\ PenNext
     /\ UNCHANGED <<part, touchVars, kbVars, rumbleVars, uhidVars, padVars, rtVars>>
  \/ /\ part = "rumble" /\ RumbleNext
     /\ UNCHANGED <<part, touchVars, kbVars, penVars, uhidVars, padVars, rtVars>>
  \/ /\ part = "uhid" /\ UhidNext
     /\ UNCHANGED <<part, touchVars, kbVars, penVars, rumbleVars, padVars, rtVars>>
  \/ /\ part = "state" /\ PadNext
     /\ UNCHANGED <<part, touchVars, kbVars, penVars, rumbleVars, uhidVars, rtVars>>
  \/ /\ part = "runtime" /\ RuntimeNext
     /\ UNCHANGED <<part, touchVars, kbVars, penVars, rumbleVars, uhidVars, padVars>>

(* No fair action of a part is enabled before the part is used. *)
LinuxSpec ==
  /\ Init /\ [][Next]_vars
  /\ KeyboardFairness
  /\ RumbleFairness
  /\ UhidFairness
  /\ RuntimeFairness

-----------------------------------------------------------------------------
LinuxTypeOK ==
  TouchTypeOK /\ KeyboardTypeOK /\ PenTypeOK /\ RumbleTypeOK
    /\ UhidTypeOK /\ PadTypeOK /\ RuntimeTypeOK

(* KeyboardCloseEnds, RumbleEnds and UhidCallsEnd, of the part in use: the   *)
(* calls that wait for a thread of their device end, and rumble is taken     *)
(* back.                                                                     *)
LinuxCallsEnd ==
  (\/ part = "keyboard" /\ KeyboardCloseWaits
   \/ part = "rumble" /\ RumbleHeard
   \/ part = "uhid" /\ UhidCallWaits)
  ~> (\/ part = "keyboard" /\ keyboard = "closed"
      \/ part = "rumble" /\ RumbleOver
      \/ part = "uhid" /\ UhidCallOver)
=============================================================================
