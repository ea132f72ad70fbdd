--------------------------- MODULE WindowsPointers ---------------------------
(* The Windows backend's touchscreen and pen tablet, which send the state of *)
(* every contact again each 50 ms from a thread of their own, and its        *)
(* keyboard and mouse.  All of them submit from a thread that is attached to *)
(* a desktop: input sent to another one than the user's is refused, and a    *)
(* submission that fails is tried again once on the desktop found then.      *)
EXTENDS Integers, Sequences, SequencesExt

CONSTANTS
  TouchIds,            \* contact ids of the application
  MaxContacts,         \* max_contacts
  Desktops,            \* desktops the system may switch to
  MaxSwitches          \* bound on switches of the desktop

VARIABLES
  slots,               \* contacts_, contact_ids_, contact_touching_
  stylus,              \* pointer_, active_, contacting_, barrel_pressed_
  pointerState,        \* "open", "stopping" or "closed", of each device
  refresher,           \* repeat_thread_ of each device: "running" or "ended"
  inputDesktop,        \* the desktop that receives input
  attached,            \* desktop of each thread
  known,               \* last_known_input_desktop of each thread
  sees,                \* where the system has each pointer
  edges,               \* has an edge been sent "once" each, "again", or was a
                       \* frame "refused" first?
  holds,               \* keys and buttons the system holds down
  switches

winVars == <<slots, stylus, pointerState, refresher, inputDesktop, attached,
             known, sees, edges, holds, switches>>
desktopVars == <<inputDesktop, attached, known, switches>>

Stylus == "stylus"
ASSUME ContactsAreTouches == Stylus \notin TouchIds
(* The system starts on the user's desktop *)
ASSUME WindowsBounds == MaxContacts \in Nat /\ "default" \in Desktops
PointerDevices == {"touchscreen", "pen"}
App == "application"
Repeat == "repeat"
WinThreads == {App, Repeat}
NoDesktop == "none"
HeldInputs == {"key"}

(* pointer_edge_triggered_flags: flags of one frame *)
EdgeFlags == {"down", "up", "update"}
(* a cancel is a release that says so with a flag more *)
Transitions == {"release", "leave"}

WinInit ==
  /\ slots = <<>>
  /\ stylus = [flags |-> {}, active |-> FALSE, contacting |-> FALSE, barrel |-> FALSE]
  /\ \E created \in PointerDevices \cup {"keyboard"} :
       /\ pointerState = [p \in PointerDevices |-> IF p = created THEN "open" ELSE "closed"]
       /\ refresher = [p \in PointerDevices |-> IF p = created THEN "running" ELSE "ended"]
  /\ inputDesktop = "default"
  /\ attached = [t \in WinThreads |-> "default"]
  /\ known = [t \in WinThreads |-> NoDesktop]
  /\ sees = [p \in TouchIds \cup {Stylus} |-> "out"]
  /\ edges = "once" /\ holds = {}
  /\ switches = 0

-----------------------------------------------------------------------------
(* submit_with_desktop_retry by thread t.  The second attempt is made only   *)
(* when the input desktop is not the one this thread found the last time.    *)
AttemptAgain(t, opened, accepted) ==
  /\ known' = [known EXCEPT ![t] = opened]
  /\ attached' = IF opened = NoDesktop THEN attached
                 ELSE [attached EXCEPT ![t] = opened]
  /\ accepted <=> known[t] # opened /\ attached'[t] = inputDesktop

Submit(t, accepted) ==
  /\ \/ attached[t] = inputDesktop /\ accepted /\ UNCHANGED <<attached, known>>
     \/ /\ attached[t] # inputDesktop
        /\ \E opened \in {inputDesktop, NoDesktop} : AttemptAgain(t, opened, accepted)
  /\ UNCHANGED <<inputDesktop, switches>>

SwitchDesktop(d) ==
  /\ switches < MaxSwitches /\ d # inputDesktop
  /\ inputDesktop' = d /\ switches' = switches + 1
  /\ UNCHANGED <<slots, stylus, pointerState, refresher, attached, known, sees,
                 edges, holds>>

-----------------------------------------------------------------------------
(* What the system makes of a frame: a set of pointers with their flags      *)
Where(flags) ==
  CASE "contact" \in flags -> "contact"
    [] "contact" \notin flags /\ "range" \in flags -> "hover"
    [] OTHER -> "out"

EdgeAgain(p, flags) == "down" \in flags /\ sees[p] = "contact"

Inject(t, frame, accepted) ==
  /\ Submit(t, accepted)
  /\ IF accepted
     THEN /\ sees' = [p \in DOMAIN sees |->
                        IF \E f \in frame : f.id = p
                        THEN Where((CHOOSE f \in frame : f.id = p).flags) ELSE sees[p]]
          /\ edges' = IF edges = "once" /\ \E f \in frame : EdgeAgain(f.id, f.flags)
                      THEN "again" ELSE edges
     ELSE /\ edges' = IF edges = "once" THEN "refused" ELSE edges
          /\ UNCHANGED sees

TouchFrame(contacts) ==
  {[id |-> contacts[i].id, flags |-> contacts[i].flags] : i \in 1..Len(contacts)}
PenFrame(pen) == {[id |-> Stylus, flags |-> pen.flags]}

\* Mutant: the edges of a frame stay for the next one.
Unsettled(flags) == flags

Settled(flags) == flags \ EdgeFlags

-----------------------------------------------------------------------------
(* place_contact: a contact that is new takes the slot after the last one,   *)
(* and keeps it when the injection fails                                     *)
SlotOf(c) == {i \in 1..Len(slots) : slots[i].id = c}
NewContact(c) == [id |-> c, flags |-> {}, touching |-> FALSE]

PlacedFlags(contact, touching) ==
  IF touching
  THEN contact.flags \cup {"range", "contact"}
         \cup {IF contact.touching THEN "update" ELSE "down"}
  ELSE (contact.flags \ {"contact"}) \cup {"range", "update"}

\* Mutant: one contact too many fits.
RoomForOneMore == Len(slots) <= MaxContacts
Room == Len(slots) < MaxContacts

PlaceWindowsContact(c, touching) ==
  /\ pointerState["touchscreen"] = "open"
  /\ SlotOf(c) # {} \/ Room
  /\ LET before == IF SlotOf(c) # {} THEN slots ELSE Append(slots, NewContact(c))
         slot == CHOOSE i \in 1..Len(before) : before[i].id = c
         asked == [before EXCEPT ![slot].flags = PlacedFlags(before[slot], touching)]
     IN \E accepted \in BOOLEAN :
          /\ Inject(App, TouchFrame(asked), accepted)
          /\ slots' = IF accepted
                      THEN [asked EXCEPT ![slot].flags = Settled(@),
                                         ![slot].touching = touching]
                      ELSE asked
  /\ UNCHANGED <<stylus, pointerState, refresher, holds>>

(* release_contact: the slot goes with the frame that says so, and the       *)
(* slots after it move up                                                    *)
LeftFlags(flags, touching, transition) ==
  (flags \ {"contact", "range"})
    \cup {IF touching /\ transition # "leave" THEN "up" ELSE "update"}

\* Mutant: the slot erased is the last one.
ErasedLast(contacts, i) == Front(contacts)

ErasedSlot(contacts, i) == RemoveAt(contacts, i)

ReleaseWindowsContact(c, transition) ==
  /\ pointerState["touchscreen"] = "open"
  /\ \E slot \in SlotOf(c), accepted \in BOOLEAN :
       LET asked == [slots EXCEPT ![slot].flags =
                       LeftFlags(@, slots[slot].touching, transition)]
       IN /\ Inject(App, TouchFrame(asked), accepted)
          /\ slots' = IF accepted THEN ErasedSlot(asked, slot) ELSE asked
  /\ UNCHANGED <<stylus, pointerState, refresher, holds>>

-----------------------------------------------------------------------------
(* place_tool: what the pen is taken to do changes before the injection      *)
PlacedStylus(touching) ==
  [stylus EXCEPT
     !.flags = (IF touching THEN @ \cup {"contact"} ELSE @ \ {"contact"})
                 \cup {"range", "update"}
                 \cup (IF touching /\ ~stylus.contacting THEN {"down"} ELSE {}),
     !.active = TRUE, !.contacting = touching]
LeftStylus(transition) ==
  [stylus EXCEPT !.flags = LeftFlags(@, stylus.contacting, transition),
                 !.active = FALSE, !.contacting = FALSE]

InjectStylus(asked) ==
  /\ pointerState["pen"] = "open"
  /\ \E accepted \in BOOLEAN :
       /\ Inject(App, PenFrame(asked), accepted)
       /\ stylus' = IF accepted THEN [asked EXCEPT !.flags = Settled(@)] ELSE asked
  /\ UNCHANGED <<slots, pointerState, refresher, holds>>

PlaceStylus(touching) == InjectStylus(PlacedStylus(touching))
LeaveStylus(transition) == InjectStylus(LeftStylus(transition))

(* button clears the flags of the frame whether or not it was accepted *)
StylusButton(pressed) ==
  /\ pointerState["pen"] = "open"
  /\ IF stylus.active
     THEN /\ \E accepted \in BOOLEAN :
               Inject(App, PenFrame([stylus EXCEPT !.flags = @ \cup {"update"}]), accepted)
          /\ stylus' = [stylus EXCEPT !.flags = Settled(@), !.barrel = pressed]
     ELSE /\ stylus' = [stylus EXCEPT !.barrel = pressed]
          /\ UNCHANGED <<desktopVars, sees, edges>>
  /\ UNCHANGED <<slots, pointerState, refresher, holds>>

-----------------------------------------------------------------------------
(* The repeat thread sends the last frame again while there is input *)
Refresh(p) ==
  /\ refresher[p] = "running" /\ pointerState[p] = "open"
  /\ IF p = "touchscreen" THEN slots # <<>> ELSE stylus.active
  /\ \E accepted \in BOOLEAN :
       Inject(Repeat, IF p = "touchscreen" THEN TouchFrame(slots) ELSE PenFrame(stylus), accepted)
  /\ UNCHANGED <<slots, stylus, pointerState, refresher, holds>>

(* close: the repeat thread is joined, then the device is destroyed *)
StopPointer(p) ==
  /\ pointerState[p] = "open"
  /\ pointerState' = [pointerState EXCEPT ![p] = "stopping"]
  /\ UNCHANGED <<slots, stylus, refresher, desktopVars, sees, edges, holds>>

EndRefresher(p) ==
  /\ pointerState[p] = "stopping" /\ refresher[p] = "running"
  /\ refresher' = [refresher EXCEPT ![p] = "ended"]
  /\ UNCHANGED <<slots, stylus, pointerState, desktopVars, sees, edges, holds>>

DestroyPointer(p) ==
  /\ pointerState[p] = "stopping" /\ refresher[p] = "ended"
  /\ pointerState' = [pointerState EXCEPT ![p] = "closed"]
  /\ sees' = [q \in DOMAIN sees |-> IF (q = Stylus) = (p = "pen") THEN "out" ELSE sees[q]]
  /\ UNCHANGED <<slots, stylus, refresher, desktopVars, edges, holds>>

(* Keyboard and mouse, used here while no pointer device is: presses and     *)
(* releases of single inputs; close sends nothing                            *)
PressOrRelease(input, pressed) ==
  /\ \A p \in PointerDevices : pointerState[p] = "closed"
  /\ \E accepted \in BOOLEAN :
       /\ Submit(App, accepted)
       /\ holds' = IF ~accepted THEN holds
                   ELSE IF pressed THEN holds \cup {input} ELSE holds \ {input}
  /\ UNCHANGED <<slots, stylus, pointerState, refresher, sees, edges>>

-----------------------------------------------------------------------------
WinNext ==
  \/ \E d \in Desktops : SwitchDesktop(d)
  \/ \E c \in TouchIds, touching \in BOOLEAN : PlaceWindowsContact(c, touching)
  \/ \E c \in TouchIds, x \in Transitions : ReleaseWindowsContact(c, x)
  \/ \E touching \in BOOLEAN : PlaceStylus(touching)
  \/ \E x \in Transitions : LeaveStylus(x)
  \/ \E pressed \in BOOLEAN : StylusButton(pressed)
  \/ \E p \in PointerDevices :
       Refresh(p) \/ StopPointer(p) \/ EndRefresher(p) \/ DestroyPointer(p)
  \/ \E i \in HeldInputs, pressed \in BOOLEAN : PressOrRelease(i, pressed)

(* The closing thread and the repeat threads run *)
PointerThreadStep == \E p \in PointerDevices : EndRefresher(p) \/ DestroyPointer(p)
WinFairness == WF_<<pointerState, refresher>>(PointerThreadStep)

WinSpec == WinInit /\ [][WinNext]_winVars /\ WinFairness

-----------------------------------------------------------------------------
WinTypeOK ==
  /\ Len(slots) <= MaxContacts
  /\ \A i \in 1..Len(slots) :
       /\ slots[i].id \in TouchIds /\ slots[i].touching \in BOOLEAN
       /\ slots[i].flags \subseteq EdgeFlags \cup {"range", "contact"}
  /\ pointerState \in [PointerDevices -> {"open", "stopping", "closed"}]
  /\ refresher \in [PointerDevices -> {"running", "ended"}]
  /\ inputDesktop \in Desktops /\ attached \in [WinThreads -> Desktops]
  /\ known \in [WinThreads -> Desktops \cup {NoDesktop}]
  /\ sees \in [TouchIds \cup {Stylus} -> {"out", "hover", "contact"}]
  /\ holds \subseteq HeldInputs /\ edges \in {"once", "refused", "again"}

(* A contact the system shows is one the touchscreen still tracks, so that   *)
(* the application can release it, whatever submissions were refused; and    *)
(* of a contact with no flag left from a refused frame, the system and the   *)
(* touchscreen say the same.                                                 *)
NoGhostContact ==
  /\ \A c \in TouchIds : sees[c] # "out" => SlotOf(c) # {}
  /\ \A i, j \in 1..Len(slots) : slots[i].id = slots[j].id => i = j
  /\ pointerState["touchscreen"] = "open" =>
       \A i \in 1..Len(slots) :
         slots[i].flags \cap EdgeFlags = {} =>
           (slots[i].touching <=> sees[slots[i].id] = "contact")

(* "One-frame pointer flags": as long as no frame is refused, no pointer     *)
(* that is in contact is sent down again, by a call or by the repeat thread. *)
(* After a refused frame the repeat thread repeats the edges until the next  *)
(* call about that pointer succeeds.                                         *)
EdgesInOneFrame == edges # "again"

(* A close ends, with the repeat thread it joins. *)
PointerCloseWaits == \E p \in PointerDevices : pointerState[p] = "stopping"
PointersClosed == \A p \in PointerDevices : pointerState[p] = "closed"
PointerCloseEnds == PointerCloseWaits ~> PointersClosed
=============================================================================
