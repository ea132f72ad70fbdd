----------------------------- MODULE LinuxTouch -----------------------------
(* The Linux touchscreen and trackpad (UinputTouchDevice and the two classes *)
(* built on it).  A call of the library writes a script of input events to   *)
(* /dev/uinput; the kernel keeps a current slot and one contact per slot and *)
(* applies each event as it is written.  Any write of a script may fail, and *)
(* the call then returns at once: the kernel has the events written so far,  *)
(* the device has the assignments made before the failing write.  The        *)
(* library calls a device under its lock, so a call is one step.             *)
EXTENDS Uinput, FiniteSets

CONSTANTS
  Contacts,         \* contact ids of the application
  Spots,            \* positions (with pressure and orientation)
  MaxSlots,         \* touch_max_contacts
  TrackingIds,      \* touch_tracking_id_count
  MaxTouchFailures  \* bound on failed writes

ASSUME SlotsAndIds == MaxSlots \in Nat \ {0} /\ TrackingIds \in Nat \ {0}

VARIABLES
  touchKind,        \* "none", then "touchscreen" or "trackpad", then "closed"
  contacts,         \* contacts_: slot of each contact
  current_slot,     \* current_slot_
  next_tracking_id, \* next_tracking_id_
  kernel,           \* what the kernel holds for the device
  touchFailures,    \* number of failed writes
  wanted            \* position of each contact in the last call that placed it

touchVars == <<touchKind, contacts, current_slot, next_tracking_id, kernel,
               touchFailures, wanted>>

Put(f, x, v) == [y \in DOMAIN f \cup {x} |-> IF y = x THEN v ELSE f[y]]
Drop(f, x) == [y \in DOMAIN f \ {x} |-> f[y]]
Slots == 0 .. MaxSlots - 1
Nowhere == "nowhere"
TouchKinds == {"touchscreen", "trackpad"}

-----------------------------------------------------------------------------
(* The kernel: an event is <<code, value>>. *)

KernelReset ==
  [slot |-> 0, track |-> [s \in Slots |-> -1], at |-> [s \in Slots |-> Nowhere],
   keys |-> {}]

KeyCodes == {"BTN_TOUCH", "BTN_LEFT", "FINGER", "DOUBLETAP", "TRIPLETAP",
             "QUADTAP", "QUINTTAP"}

Feed(k, event) ==
  LET code == event[1]
      value == event[2]
  IN CASE code = "SLOT"        -> [k EXCEPT !.slot = value]
       [] code = "TRACKING_ID" -> [k EXCEPT !.track[k.slot] = value]
       [] code = "POSITION"    -> [k EXCEPT !.at[k.slot] = value]
       [] code \in KeyCodes    -> [k EXCEPT !.keys = KeysAfter(@, event)]
       [] code = "SYN"         -> k

MayFail == touchFailures < MaxTouchFailures

(* The first n events of the script get through. *)
Writes(script, n) ==
  /\ touchFailures' = touchFailures + (IF n < Len(script) THEN 1 ELSE 0)
  /\ kernel' = FoldLeft(Feed, kernel, Sent(script, n))

-----------------------------------------------------------------------------
TouchInit ==
  /\ touchKind = "none"
  /\ contacts = <<>>
  /\ current_slot = -1
  /\ next_tracking_id = 0
  /\ kernel = KernelReset
  /\ touchFailures = 0
  /\ wanted = <<>>

CreateTouch(k) ==
  /\ touchKind = "none"
  /\ touchKind' = k
  /\ UNCHANGED <<contacts, current_slot, next_tracking_id, kernel,
                 touchFailures, wanted>>

(* select_slot: no event when the slot is already the current one; the slot  *)
(* becomes the current one before the event is written.                      *)
SelectScript(slot) ==
  IF current_slot = slot THEN <<>> ELSE << <<"SLOT", slot>> >>

(* emit_trackpad_tool_buttons for a number of contacts *)
ToolScript(count) ==
  <<Key("BTN_TOUCH", count > 0), Key("FINGER", count = 1),
    Key("DOUBLETAP", count = 2), Key("TRIPLETAP", count = 3),
    Key("QUADTAP", count = 4), Key("QUINTTAP", count >= 5)>>

FreeSlots == {s \in Slots : \A c \in DOMAIN contacts : contacts[c] # s}
\* Mutant: slots are counted instead of searched.
NextFree == Cardinality(DOMAIN contacts)
LowestFree == CHOOSE s \in FreeSlots : \A t \in FreeSlots : s <= t

\* Mutant: the tracking ids are not wrapped around.
TrackingIdAfterUnwrapped(id) == id + 1
TrackingIdAfter(id) == (id + 1) % TrackingIds

(* slot_for_contact, which keeps the contact whatever happens next *)
SlotForContact(c) ==
  IF c \in DOMAIN contacts THEN contacts[c] ELSE LowestFree

Arrival(count) ==
  << <<"TRACKING_ID", next_tracking_id>> >>
    \o IF touchKind = "trackpad" THEN ToolScript(count)
       ELSE << Key("BTN_TOUCH", TRUE) >>

(* place_touch_contact: the tracking id is used up once the slot is selected *)
PlaceContact(c, spot) ==
  /\ touchKind \in TouchKinds
  /\ c \in DOMAIN contacts \/ FreeSlots # {}
  /\ LET slot   == SlotForContact(c)
         fresh  == c \notin DOMAIN contacts
         select == SelectScript(slot)
         all    == Put(contacts, c, slot)
         script == select
                     \o (IF fresh THEN Arrival(Cardinality(DOMAIN all)) ELSE <<>>)
                     \o << <<"POSITION", spot>>, Syn >>
     IN /\ \E n \in Writable(script, MayFail) :
             /\ Writes(script, n)
             /\ next_tracking_id' =
                  IF fresh /\ n >= Len(select)
                  THEN TrackingIdAfter(next_tracking_id) ELSE next_tracking_id
        /\ contacts' = all
        /\ current_slot' = slot
        /\ wanted' = Put(wanted, c, spot)
  /\ UNCHANGED touchKind

(* release_touch_contact: the contact is forgotten once its slot is selected *)
ReleaseContact(c) ==
  /\ touchKind \in TouchKinds
  /\ c \in DOMAIN contacts
  /\ LET select == SelectScript(contacts[c])
         rest   == Drop(contacts, c)
         lift   == IF touchKind = "trackpad"
                   THEN ToolScript(Cardinality(DOMAIN rest))
                   ELSE IF rest = <<>> THEN << Key("BTN_TOUCH", FALSE) >> ELSE <<>>
         script == select \o << <<"TRACKING_ID", -1>> >> \o lift \o << Syn >>
     IN /\ \E n \in Writable(script, MayFail) :
             /\ Writes(script, n)
             /\ contacts' = IF n >= Len(select) THEN rest ELSE contacts
             /\ wanted' = IF n >= Len(select) THEN Drop(wanted, c) ELSE wanted
        /\ current_slot' = contacts[c]
  /\ UNCHANGED <<touchKind, next_tracking_id>>

(* emit_touch_button: the button of the trackpad *)
TouchButton(down) ==
  /\ touchKind = "trackpad"
  /\ LET script == <<Key("BTN_LEFT", down), Syn>>
     IN \E n \in Writable(script, MayFail) : Writes(script, n)
  /\ UNCHANGED <<touchKind, contacts, current_slot, next_tracking_id, wanted>>

(* close_touch_device: the kernel forgets a destroyed device *)
CloseTouch ==
  /\ touchKind \in TouchKinds
  /\ touchKind' = "closed"
  /\ kernel' = KernelReset
  /\ UNCHANGED <<contacts, current_slot, next_tracking_id, touchFailures, wanted>>

TouchNext ==
  \/ \E k \in TouchKinds : CreateTouch(k)
  \/ \E c \in Contacts, spot \in Spots : PlaceContact(c, spot)
  \/ \E c \in Contacts : ReleaseContact(c)
  \/ \E down \in BOOLEAN : TouchButton(down)
  \/ CloseTouch

TouchSpec == TouchInit /\ [][TouchNext]_touchVars

-----------------------------------------------------------------------------
TouchTypeOK ==
  /\ touchKind \in TouchKinds \cup {"none", "closed"}
  /\ DOMAIN contacts \subseteq Contacts
  /\ \A c \in DOMAIN contacts : contacts[c] \in Slots
  /\ current_slot \in Slots \cup {-1}
  /\ next_tracking_id \in 0 .. TrackingIds - 1
  /\ kernel.slot \in Slots
  /\ kernel.track \in [Slots -> -1 .. TrackingIds - 1]
  /\ kernel.at \in [Slots -> Spots \cup {Nowhere}]
  /\ kernel.keys \subseteq KeyCodes
  /\ DOMAIN wanted = DOMAIN contacts

ToolOf(count) ==
  IF count = 0 THEN {}
  ELSE {<<"FINGER", "DOUBLETAP", "TRIPLETAP", "QUADTAP", "QUINTTAP">>
          [IF count > 5 THEN 5 ELSE count]}

(* Two contacts never share a slot, whichever writes failed.  As long as no  *)
(* write has failed, after any sequence of calls the kernel shows exactly    *)
(* the contacts the application placed and has not released, each where the  *)
(* last call put it, and BTN_TOUCH and the finger-count tool of a trackpad   *)
(* agree with their number (select_slot's cached slot, the tracking ids and  *)
(* the button events are three caches of what the kernel holds).             *)
KernelShowsContacts ==
  /\ \A c, d \in DOMAIN contacts : contacts[c] = contacts[d] => c = d
  /\ touchKind \in TouchKinds /\ touchFailures = 0 =>
       /\ {s \in Slots : kernel.track[s] # -1} = {contacts[c] : c \in DOMAIN contacts}
       /\ \A c \in DOMAIN contacts : kernel.at[contacts[c]] = wanted[c]
       /\ "BTN_TOUCH" \in kernel.keys <=> contacts # <<>>
       /\ touchKind = "trackpad" =>
            kernel.keys \ {"BTN_TOUCH", "BTN_LEFT"} = ToolOf(Cardinality(DOMAIN contacts))
=============================================================================
