---------------------------- MODULE WindowsProofs ----------------------------
(* Theorems about the pointers and the rumble of the Windows backend, for    *)
(* any contacts, desktops, effects, times and limits, and the type           *)
(* invariant of their composition with the two queues of the driver.         *)
EXTENDS WindowsDevices, SequenceTheorems, FiniteSetTheorems, WellFoundedInduction, TLAPS

-----------------------------------------------------------------------------
(* The invariant *)

Flags == EdgeFlags \cup {"range", "contact"}
ContactTypes == [id : TouchIds, flags : SUBSET Flags, touching : BOOLEAN]
StylusTypes ==
  [flags : SUBSET Flags, active : BOOLEAN, contacting : BOOLEAN, barrel : BOOLEAN]

PointerTypes ==
  /\ slots \in Seq(ContactTypes)
  /\ stylus \in StylusTypes
  /\ pointerState \in [PointerDevices -> {"open", "stopping", "closed"}]
  /\ sees \in [TouchIds \cup {Stylus} -> {"out", "hover", "contact"}]
  /\ edges \in {"once", "refused", "again"}

(* No edge is left from a refused frame *)
Quiet(flags) == flags \cap EdgeFlags = {}

Unique(contacts) ==
  \A i, j \in 1..Len(contacts) : contacts[i].id = contacts[j].id => i = j
Ids(contacts) == {contacts[i].id : i \in 1..Len(contacts)}

(* The flags that are kept for the next frame say whether the contact        *)
(* touches, and so does what the repeat thread sends in between.             *)
Consistent(contacts) ==
  \A i \in 1..Len(contacts) :
    Quiet(contacts[i].flags) => ("contact" \in contacts[i].flags <=> contacts[i].touching)

AllQuiet(contacts) == \A i \in 1..Len(contacts) : Quiet(contacts[i].flags)

(* What the system shows is tracked, and of quiet contacts it is the same *)
Tracked == \A c \in TouchIds : sees[c] # "out" => c \in Ids(slots)
Shown ==
  pointerState["touchscreen"] = "open" =>
    \A i \in 1..Len(slots) :
      Quiet(slots[i].flags) => (slots[i].touching <=> sees[slots[i].id] = "contact")

TouchInv == Unique(slots) /\ Consistent(slots) /\ Tracked /\ Shown

(* The same of the stylus, as long as no frame was refused *)
StylusInv ==
  edges = "once" =>
    /\ Quiet(stylus.flags)
    /\ "contact" \in stylus.flags <=> stylus.contacting
    /\ pointerState["pen"] = "open" => (sees[Stylus] = "contact" <=> stylus.contacting)

EdgeInv == edges # "again" /\ (edges = "once" => AllQuiet(slots))

PointerInv == PointerTypes /\ TouchInv /\ StylusInv /\ EdgeInv

-----------------------------------------------------------------------------
(* Frames, slots and flags                                                   *)

LEMMA WhereIs ==
  ASSUME NEW flags
  PROVE  /\ Where(flags) \in {"out", "hover", "contact"}
         /\ Where(flags) = "contact" <=> "contact" \in flags
         /\ "contact" \notin flags /\ "range" \notin flags => Where(flags) = "out"
BY DEF Where

LEMMA QuietFlags ==
  ASSUME NEW flags \in SUBSET Flags
  PROVE  /\ Settled(flags) \in SUBSET Flags /\ Quiet(Settled(flags))
         /\ "contact" \in Settled(flags) <=> "contact" \in flags
         /\ "down" \in flags \/ "up" \in flags \/ "update" \in flags => ~Quiet(flags)
         /\ Quiet(flags) => "down" \notin flags
BY DEF Settled, Quiet, Flags, EdgeFlags

LEMMA Placing ==
  ASSUME NEW contact \in ContactTypes, NEW touching \in BOOLEAN
  PROVE  /\ PlacedFlags(contact, touching) \in SUBSET Flags
         /\ ~Quiet(PlacedFlags(contact, touching))
         /\ "contact" \in PlacedFlags(contact, touching) <=> touching
         /\ Quiet(contact.flags) /\ "down" \in PlacedFlags(contact, touching) =>
              touching /\ ~contact.touching
BY DEF PlacedFlags, ContactTypes, Flags, EdgeFlags, Quiet

LEMMA Leaving ==
  ASSUME NEW flags \in SUBSET Flags, NEW touching \in BOOLEAN, NEW transition
  PROVE  /\ LeftFlags(flags, touching, transition) \in SUBSET Flags
         /\ ~Quiet(LeftFlags(flags, touching, transition))
         /\ "contact" \notin LeftFlags(flags, touching, transition)
         /\ "range" \notin LeftFlags(flags, touching, transition)
         /\ Quiet(flags) => "down" \notin LeftFlags(flags, touching, transition)
BY DEF LeftFlags, Flags, EdgeFlags, Quiet

LEMMA ContactTyped ==
  ASSUME NEW contacts \in Seq(ContactTypes), NEW i \in 1..Len(contacts)
  PROVE  /\ contacts[i] \in ContactTypes
         /\ contacts[i].id \in TouchIds
         /\ contacts[i].flags \in SUBSET Flags
         /\ contacts[i].touching \in BOOLEAN
<1>1. contacts[i] \in ContactTypes
  OBVIOUS
<1> QED BY <1>1 DEF ContactTypes

LEMMA FrameShows ==
  ASSUME NEW contacts \in Seq(ContactTypes), Unique(contacts), NEW i \in 1..Len(contacts)
  PROVE  /\ \E f \in TouchFrame(contacts) : f.id = contacts[i].id
         /\ (CHOOSE f \in TouchFrame(contacts) : f.id = contacts[i].id).flags
              = contacts[i].flags
<1> DEFINE f0 == [id |-> contacts[i].id, flags |-> contacts[i].flags]
<1>1. f0 \in TouchFrame(contacts) /\ f0.id = contacts[i].id
  BY DEF TouchFrame
<1>2. ASSUME NEW f \in TouchFrame(contacts), f.id = contacts[i].id
      PROVE  f.flags = contacts[i].flags
  <2>1. PICK j \in 1..Len(contacts) :
              f = [id |-> contacts[j].id, flags |-> contacts[j].flags]
    BY DEF TouchFrame
  <2>2. contacts[j].id = contacts[i].id
    BY <1>2, <2>1
  <2>3. j = i
    BY <2>2 DEF Unique
  <2> QED BY <2>1, <2>3
<1> HIDE DEF f0
<1> QED BY <1>1, <1>2

LEMMA FrameHas ==
  ASSUME NEW contacts \in Seq(ContactTypes), NEW f \in TouchFrame(contacts)
  PROVE  \E i \in 1..Len(contacts) : /\ f.id = contacts[i].id
                                     /\ f.flags = contacts[i].flags
BY DEF TouchFrame

(* What a frame of the touchscreen that is accepted changes *)
LEMMA TouchInjected ==
  ASSUME PointerTypes, NEW t, NEW contacts \in Seq(ContactTypes), Unique(contacts),
         Inject(t, TouchFrame(contacts), TRUE)
  PROVE  /\ sees' \in [TouchIds \cup {Stylus} -> {"out", "hover", "contact"}]
         /\ \A i \in 1..Len(contacts) : sees'[contacts[i].id] = Where(contacts[i].flags)
         /\ \A p \in TouchIds \cup {Stylus} : p \notin Ids(contacts) => sees'[p] = sees[p]
         /\ edges' \in {edges, "again"}
         /\ edges # "again" /\ edges' = "again" =>
              /\ edges = "once"
              /\ \E i \in 1..Len(contacts) :
                   "down" \in contacts[i].flags /\ sees[contacts[i].id] = "contact"
<1> DEFINE frame == TouchFrame(contacts)
<1>1. /\ DOMAIN sees = TouchIds \cup {Stylus}
      /\ sees \in [TouchIds \cup {Stylus} -> {"out", "hover", "contact"}]
  BY DEF PointerTypes
<1>2. sees' = [p \in TouchIds \cup {Stylus} |->
                 IF \E f \in frame : f.id = p
                 THEN Where((CHOOSE f \in frame : f.id = p).flags) ELSE sees[p]]
  BY <1>1 DEF Inject
<1>3. edges' = IF edges = "once" /\ \E f \in frame : EdgeAgain(f.id, f.flags)
               THEN "again" ELSE edges
  BY DEF Inject
<1>4. sees' \in [TouchIds \cup {Stylus} -> {"out", "hover", "contact"}]
  BY <1>1, <1>2, WhereIs
<1>5. ASSUME NEW i \in 1..Len(contacts)
      PROVE  sees'[contacts[i].id] = Where(contacts[i].flags)
  <2>1. contacts[i].id \in TouchIds \cup {Stylus}
    BY ContactTyped
  <2> QED BY <1>2, <2>1, FrameShows
<1>6. ASSUME NEW p \in TouchIds \cup {Stylus}, p \notin Ids(contacts)
      PROVE  sees'[p] = sees[p]
  <2>1. ~\E f \in frame : f.id = p
    BY <1>6, FrameHas DEF Ids
  <2> QED BY <1>2, <2>1
<1>7. ASSUME edges # "again", edges' = "again"
      PROVE  /\ edges = "once"
             /\ \E i \in 1..Len(contacts) :
                  "down" \in contacts[i].flags /\ sees[contacts[i].id] = "contact"
  <2>1. edges = "once" /\ \E f \in frame : EdgeAgain(f.id, f.flags)
    BY <1>3, <1>7
  <2>2. PICK f \in frame : "down" \in f.flags /\ sees[f.id] = "contact"
    BY <2>1 DEF EdgeAgain
  <2> QED BY <2>1, <2>2, FrameHas
<1> QED BY <1>3, <1>4, <1>5, <1>6, <1>7

(* ... and one of the pen *)
LEMMA StylusInjected ==
  ASSUME PointerTypes, NEW t, NEW pen, Inject(t, PenFrame(pen), TRUE)
  PROVE  /\ sees' \in [TouchIds \cup {Stylus} -> {"out", "hover", "contact"}]
         /\ sees'[Stylus] = Where(pen.flags)
         /\ \A c \in TouchIds : sees'[c] = sees[c]
         /\ edges' \in {edges, "again"}
         /\ edges # "again" /\ edges' = "again" =>
              edges = "once" /\ "down" \in pen.flags /\ sees[Stylus] = "contact"
<1> DEFINE frame == PenFrame(pen)
           f0 == [id |-> Stylus, flags |-> pen.flags]
<1>1. /\ DOMAIN sees = TouchIds \cup {Stylus}
      /\ sees \in [TouchIds \cup {Stylus} -> {"out", "hover", "contact"}]
  BY DEF PointerTypes
<1>2. sees' = [p \in TouchIds \cup {Stylus} |->
                 IF \E f \in frame : f.id = p
                 THEN Where((CHOOSE f \in frame : f.id = p).flags) ELSE sees[p]]
  BY <1>1 DEF Inject
<1>3. edges' = IF edges = "once" /\ \E f \in frame : EdgeAgain(f.id, f.flags)
               THEN "again" ELSE edges
  BY DEF Inject
<1>4. sees' \in [TouchIds \cup {Stylus} -> {"out", "hover", "contact"}]
  BY <1>1, <1>2, WhereIs
<1>5. frame = {f0} /\ f0.id = Stylus /\ f0.flags = pen.flags
  BY DEF PenFrame
<1> HIDE DEF frame, f0
<1>6. (CHOOSE f \in frame : f.id = Stylus).flags = pen.flags
  <2>1. (CHOOSE f \in frame : f.id = Stylus) \in frame
    BY <1>5
  <2> QED BY <1>5, <2>1
<1>7. sees'[Stylus] = Where(pen.flags)
  BY <1>2, <1>5, <1>6
<1>8. \A c \in TouchIds : sees'[c] = sees[c]
  BY <1>2, <1>5, ContactsAreTouches
<1>9. edges # "again" /\ edges' = "again" =>
        edges = "once" /\ "down" \in pen.flags /\ sees[Stylus] = "contact"
  BY <1>3, <1>5 DEF EdgeAgain
<1> QED BY <1>3, <1>4, <1>7, <1>8, <1>9

LEMMA Refused ==
  ASSUME NEW t, NEW frame, Inject(t, frame, FALSE), PointerTypes
  PROVE  sees' = sees /\ edges' # "once" /\ (edges # "again" => edges' # "again")
         /\ edges' \in {"refused", "again"}
BY DEF Inject, PointerTypes

(* A slot with other flags, and with another state *)
WithFlags(s, slot, flags) == [s EXCEPT ![slot].flags = flags]
WithState(s, slot, flags, touching) ==
  [s EXCEPT ![slot].flags = flags, ![slot].touching = touching]

LEMMA SlotFlags ==
  ASSUME NEW s \in Seq(ContactTypes), NEW slot \in 1..Len(s), NEW flags \in SUBSET Flags,
         NEW wanted, wanted = WithFlags(s, slot, flags)
  PROVE  /\ wanted \in Seq(ContactTypes) /\ Len(wanted) = Len(s)
         /\ \A i \in 1..Len(s) : wanted[i].id = s[i].id /\ wanted[i].touching = s[i].touching
         /\ \A i \in 1..Len(s) : wanted[i].flags = IF i = slot THEN flags ELSE s[i].flags
         /\ Unique(s) => Unique(wanted)
         /\ Ids(wanted) = Ids(s)
<1> DEFINE contact == [s[slot] EXCEPT !.flags = flags]
<1>1. s[slot] \in ContactTypes
  OBVIOUS
<1>2. /\ contact \in ContactTypes /\ contact.id = s[slot].id
      /\ contact.touching = s[slot].touching /\ contact.flags = flags
  BY <1>1 DEF ContactTypes
<1>3. wanted = [s EXCEPT ![slot] = contact]
  BY DEF WithFlags
<1> HIDE DEF contact
<1>4. wanted \in Seq(ContactTypes) /\ Len(wanted) = Len(s)
  BY <1>2, <1>3
<1>5. \A i \in 1..Len(s) : wanted[i] = IF i = slot THEN contact ELSE s[i]
  BY <1>3
<1>6. \A i \in 1..Len(s) : wanted[i].id = s[i].id /\ wanted[i].touching = s[i].touching
  BY <1>2, <1>5
<1>7. \A i \in 1..Len(s) : wanted[i].flags = IF i = slot THEN flags ELSE s[i].flags
  BY <1>2, <1>5
<1>8. Unique(s) => Unique(wanted)
  BY <1>4, <1>6 DEF Unique
<1>9. Ids(wanted) = Ids(s)
  BY <1>4, <1>6 DEF Ids
<1> QED BY <1>4, <1>6, <1>7, <1>8, <1>9

LEMMA SlotState ==
  ASSUME NEW s \in Seq(ContactTypes), NEW slot \in 1..Len(s), NEW flags \in SUBSET Flags,
         NEW touching \in BOOLEAN
  PROVE  LET kept == WithState(s, slot, flags, touching)
         IN
         /\ kept \in Seq(ContactTypes) /\ Len(kept) = Len(s)
         /\ \A i \in 1..Len(s) : kept[i].id = s[i].id
         /\ \A i \in 1..Len(s) : kept[i].flags = IF i = slot THEN flags ELSE s[i].flags
         /\ \A i \in 1..Len(s) :
              kept[i].touching = IF i = slot THEN touching ELSE s[i].touching
         /\ Unique(s) => Unique(kept)
         /\ Ids(kept) = Ids(s)
<1> DEFINE kept == WithState(s, slot, flags, touching)
           contact == [[s[slot] EXCEPT !.flags = flags] EXCEPT !.touching = touching]
<1>1. s[slot] \in ContactTypes
  OBVIOUS
<1>2. /\ contact \in ContactTypes /\ contact.id = s[slot].id
      /\ contact.touching = touching /\ contact.flags = flags
  BY <1>1 DEF ContactTypes
<1>3. kept = [s EXCEPT ![slot] = contact]
  BY DEF WithState
<1> HIDE DEF contact, kept
<1>4. kept \in Seq(ContactTypes) /\ Len(kept) = Len(s)
  BY <1>2, <1>3
<1>5. \A i \in 1..Len(s) : kept[i] = IF i = slot THEN contact ELSE s[i]
  BY <1>3
<1>6. \A i \in 1..Len(s) : kept[i].id = s[i].id
  BY <1>2, <1>5
<1>7. \A i \in 1..Len(s) : /\ kept[i].flags = IF i = slot THEN flags ELSE s[i].flags
                           /\ kept[i].touching = IF i = slot THEN touching ELSE s[i].touching
  BY <1>2, <1>5
<1>8. Unique(s) => Unique(kept)
  BY <1>4, <1>6 DEF Unique
<1>9. Ids(kept) = Ids(s)
  BY <1>4, <1>6 DEF Ids
<1> QED BY <1>4, <1>6, <1>7, <1>8, <1>9 DEF kept

LEMMA Joined ==
  ASSUME NEW S, NEW a \in Seq(S), NEW b \in Seq(S)
  PROVE  a \o b \in Seq(S) /\ Len(a \o b) = Len(a) + Len(b)
OBVIOUS

(* erase_slot: the contacts after the slot move up, the others stay *)
LEMMA Erasing ==
  ASSUME NEW s \in Seq(ContactTypes), NEW slot \in 1..Len(s)
  PROVE  /\ ErasedSlot(s, slot) \in Seq(ContactTypes)
         /\ Len(ErasedSlot(s, slot)) = Len(s) - 1
         /\ \A i \in 1..Len(s) - 1 :
              ErasedSlot(s, slot)[i] = IF i < slot THEN s[i] ELSE s[i + 1]
<1> DEFINE a == SubSeq(s, 1, slot - 1)
           b == SubSeq(s, slot + 1, Len(s))
<1>1. /\ slot \in Int /\ Len(s) \in Nat /\ 1 <= slot /\ slot <= Len(s)
  OBVIOUS
<1>2. /\ a \in Seq(ContactTypes) /\ Len(a) = slot - 1
      /\ \A i \in 1..slot - 1 : a[i] = s[i]
  BY <1>1, SubSeqProperties
<1>3. /\ b \in Seq(ContactTypes) /\ Len(b) = Len(s) - slot
      /\ \A i \in 1..Len(s) - slot : b[i] = s[slot + i]
  BY <1>1, SubSeqProperties
<1>4. ErasedSlot(s, slot) = a \o b
  BY DEF ErasedSlot, RemoveAt
<1> HIDE DEF a, b
<1>5. a \o b \in Seq(ContactTypes) /\ Len(a \o b) = Len(s) - 1
  <2>1. a \o b \in Seq(ContactTypes) /\ Len(a \o b) = Len(a) + Len(b)
    BY <1>2, <1>3, Joined
  <2>2. Len(a) + Len(b) = Len(s) - 1
    BY <1>1, <1>2, <1>3
  <2> QED BY <2>1, <2>2
<1>6. ASSUME NEW i \in 1..Len(s) - 1
      PROVE  (a \o b)[i] = IF i < slot THEN s[i] ELSE s[i + 1]
  <2>1. CASE i < slot
    BY <1>1, <1>2, <1>3, <2>1
  <2>2. CASE ~(i < slot)
    <3>1. i - (slot - 1) \in 1..Len(s) - slot
      BY <1>1, <2>2
    <3>2. (a \o b)[i] = b[i - (slot - 1)]
      BY <1>1, <1>2, <1>3, <2>2
    <3>3. slot + (i - (slot - 1)) = i + 1
      BY <1>1
    <3>4. b[i - (slot - 1)] = s[i + 1]
      BY <1>3, <3>1, <3>3
    <3> QED BY <2>2, <3>2, <3>4
  <2> QED BY <2>1, <2>2
<1> QED BY <1>4, <1>5, <1>6

LEMMA ErasedIds ==
  ASSUME NEW s \in Seq(ContactTypes), Unique(s), NEW slot \in 1..Len(s)
  PROVE  /\ Unique(ErasedSlot(s, slot))
         /\ Ids(ErasedSlot(s, slot)) = Ids(s) \ {s[slot].id}
         /\ \A i \in 1..Len(ErasedSlot(s, slot)) :
              \E j \in 1..Len(s) \ {slot} : ErasedSlot(s, slot)[i] = s[j]
<1> DEFINE erased == ErasedSlot(s, slot)
<1>1. /\ Len(erased) = Len(s) - 1 /\ Len(s) \in Nat /\ slot \in Int
      /\ \A i \in 1..Len(s) - 1 : erased[i] = IF i < slot THEN s[i] ELSE s[i + 1]
  <2>1. Len(s) \in Nat /\ slot \in Int
    OBVIOUS
  <2> HIDE DEF erased
  <2>2. /\ Len(erased) = Len(s) - 1
        /\ \A i \in 1..Len(s) - 1 : erased[i] = IF i < slot THEN s[i] ELSE s[i + 1]
    BY Erasing DEF erased
  <2> QED BY <2>1, <2>2
<1> HIDE DEF erased
<1>2. ASSUME NEW i \in 1..Len(erased)
      PROVE  \E j \in 1..Len(s) \ {slot} : erased[i] = s[j]
  <2>1. CASE i < slot
    BY <1>1, <2>1
  <2>2. CASE ~(i < slot)
    <3>1. i + 1 \in 1..Len(s) \ {slot} /\ erased[i] = s[i + 1]
      BY <1>1, <2>2
    <3> QED BY <3>1
  <2> QED BY <2>1, <2>2
<1>3. Unique(erased)
  <2> SUFFICES ASSUME NEW i \in 1..Len(erased), NEW j \in 1..Len(erased),
                      erased[i].id = erased[j].id
               PROVE  i = j
    BY DEF Unique
  <2> DEFINE from(n) == IF n < slot THEN n ELSE n + 1
  <2>1. /\ from(i) \in 1..Len(s) /\ erased[i] = s[from(i)]
        /\ from(j) \in 1..Len(s) /\ erased[j] = s[from(j)]
    BY <1>1
  <2>2. from(i) = from(j)
    <3> HIDE DEF from
    <3> QED BY <2>1 DEF Unique
  <2> QED BY <1>1, <2>2
<1>4. ASSUME NEW j \in 1..Len(s) \ {slot}
      PROVE  \E i \in 1..Len(erased) : erased[i] = s[j]
  <2>1. CASE j < slot
    BY <1>1, <2>1
  <2>2. CASE ~(j < slot)
    <3>1. /\ j - 1 \in 1..Len(erased) /\ ~(j - 1 < slot) /\ j - 1 + 1 = j
      BY <1>1, <2>2
    <3> QED BY <1>1, <3>1
  <2> QED BY <2>1, <2>2
<1>5. Ids(erased) = Ids(s) \ {s[slot].id}
  <2>1. \A j \in 1..Len(s) \ {slot} : s[j].id # s[slot].id
    BY DEF Unique
  <2>2. ASSUME NEW x \in Ids(erased) PROVE x \in Ids(s) \ {s[slot].id}
    BY <1>2, <2>1 DEF Ids
  <2>3. ASSUME NEW x \in Ids(s) \ {s[slot].id} PROVE x \in Ids(erased)
    <3>1. PICK j \in 1..Len(s) : x = s[j].id
      BY DEF Ids
    <3>2. j # slot
      BY <2>3, <3>1
    <3> QED BY <1>4, <3>1, <3>2 DEF Ids
  <2> QED BY <2>2, <2>3
<1> QED BY <1>2, <1>3, <1>5 DEF erased

-----------------------------------------------------------------------------
(* The calls about contacts                                                  *)

(* A frame that is refused leaves an edge in the slot it was about, and      *)
(* nothing else changes.                                                     *)
LEMMA RefusedTouch ==
  ASSUME PointerInv, NEW t, NEW frame, Inject(t, frame, FALSE),
         NEW before \in Seq(ContactTypes), Unique(before), Consistent(before),
         Ids(slots) \subseteq Ids(before),
         NEW slot \in 1..Len(before), NEW flags \in SUBSET Flags, ~Quiet(flags),
         slots' = WithFlags(before, slot, flags),
         \A i \in 1..Len(before) : Quiet(before[i].flags) =>
           (before[i].touching <=> sees[before[i].id] = "contact"),
         UNCHANGED <<stylus, pointerState>>
  PROVE  PointerInv'
<1>1. /\ sees' = sees /\ edges' \in {"refused", "again"}
      /\ edges # "again" => edges' # "again"
  BY Refused DEF PointerInv
<1>2. /\ slots' \in Seq(ContactTypes) /\ Len(slots') = Len(before)
      /\ \A i \in 1..Len(before) : /\ slots'[i].id = before[i].id
                                   /\ slots'[i].touching = before[i].touching
      /\ \A i \in 1..Len(before) :
           slots'[i].flags = IF i = slot THEN flags ELSE before[i].flags
      /\ Unique(slots')
      /\ Ids(slots') = Ids(before)
  BY SlotFlags
<1>3. PointerTypes'
  BY <1>1, <1>2 DEF PointerInv, PointerTypes
<1>4. Consistent(slots')
  BY <1>2 DEF Consistent
<1>5. Tracked'
  BY <1>1, <1>2 DEF PointerInv, TouchInv, Tracked
<1>6. Shown'
  BY <1>1, <1>2 DEF Shown
<1>7. EdgeInv' /\ StylusInv'
  BY <1>1 DEF PointerInv, EdgeInv, StylusInv
<1> QED BY <1>2, <1>3, <1>4, <1>5, <1>6, <1>7 DEF PointerInv, TouchInv

(* The contacts with a slot for c *)
SlotsWith(c) == IF SlotOf(c) # {} THEN slots ELSE Append(slots, NewContact(c))

LEMMA SlotBefore ==
  ASSUME PointerInv, NEW c \in TouchIds, NEW before, before = SlotsWith(c),
         pointerState["touchscreen"] = "open"
  PROVE  /\ before \in Seq(ContactTypes) /\ Unique(before) /\ Consistent(before)
         /\ Ids(before) = Ids(slots) \cup {c}
         /\ AllQuiet(slots) => AllQuiet(before)
         /\ \A i \in 1..Len(before) : Quiet(before[i].flags) =>
              (before[i].touching <=> sees[before[i].id] = "contact")
<1>1. /\ slots \in Seq(ContactTypes) /\ Unique(slots) /\ Consistent(slots)
      /\ \A i \in 1..Len(slots) : Quiet(slots[i].flags) =>
           (slots[i].touching <=> sees[slots[i].id] = "contact")
      /\ Tracked
  BY DEF PointerInv, PointerTypes, TouchInv, Shown
<1>2. SlotOf(c) # {} <=> c \in Ids(slots)
  BY DEF SlotOf, Ids
<1>3. CASE SlotOf(c) # {}
  BY <1>1, <1>2, <1>3 DEF SlotsWith
<1>4. CASE SlotOf(c) = {}
  <2> DEFINE n == Len(slots) + 1
  <2>1. /\ NewContact(c) \in ContactTypes /\ NewContact(c).id = c
        /\ NewContact(c).flags = {} /\ NewContact(c).touching = FALSE
    BY DEF NewContact, ContactTypes
  <2>2. before = Append(slots, NewContact(c))
    BY <1>4 DEF SlotsWith
  <2>3. /\ before \in Seq(ContactTypes) /\ Len(before) = n /\ n \in Nat
        /\ before[n] = NewContact(c)
        /\ \A i \in 1..Len(slots) : before[i] = slots[i]
    BY <1>1, <2>1, <2>2
  <2>4. \A i \in 1..n : i \in 1..Len(slots) \/ i = n
    BY <1>1
  <2>5. \A i \in 1..Len(slots) : slots[i].id # c
    BY <1>4 DEF SlotOf
  <2> HIDE DEF n
  <2>6. Unique(before)
    <3> SUFFICES ASSUME NEW i \in 1..n, NEW j \in 1..n, before[i].id = before[j].id
                 PROVE  i = j
      BY <2>3 DEF Unique
    <3>1. CASE i \in 1..Len(slots) /\ j \in 1..Len(slots)
      BY <1>1, <2>3, <3>1 DEF Unique
    <3>2. CASE i = n /\ j = n
      BY <3>2
    <3>3. CASE i = n /\ j \in 1..Len(slots)
      BY <2>1, <2>3, <2>5, <3>3
    <3>4. CASE j = n /\ i \in 1..Len(slots)
      BY <2>1, <2>3, <2>5, <3>4
    <3> QED BY <2>4, <3>1, <3>2, <3>3, <3>4
  <2>7. Consistent(before)
    <3> SUFFICES ASSUME NEW i \in 1..n, Quiet(before[i].flags)
                 PROVE  "contact" \in before[i].flags <=> before[i].touching
      BY <2>3 DEF Consistent
    <3>1. CASE i \in 1..Len(slots)
      BY <1>1, <2>3, <3>1 DEF Consistent
    <3>2. CASE i = n
      BY <2>1, <2>3, <3>2
    <3> QED BY <2>4, <3>1, <3>2
  <2>8. Ids(before) = Ids(slots) \cup {c}
    <3>1. n \in 1..n
      BY <2>3, <1>1 DEF n
    <3>2. \A i \in 1..Len(slots) : i \in 1..n
      BY <1>1 DEF n
    <3> QED BY <2>1, <2>3, <2>4, <3>1, <3>2 DEF Ids
  <2>9. AllQuiet(slots) => AllQuiet(before)
    BY <2>1, <2>3, <2>4 DEF AllQuiet, Quiet
  <2>10. ASSUME NEW i \in 1..n, Quiet(before[i].flags)
         PROVE  before[i].touching <=> sees[before[i].id] = "contact"
    <3>1. CASE i \in 1..Len(slots)
      BY <1>1, <2>3, <2>10, <3>1
    <3>2. CASE i = n
      <4>1. sees[c] = "out"
        BY <1>1, <1>2, <1>4 DEF Tracked
      <4> QED BY <2>1, <2>3, <3>2, <4>1
    <3> QED BY <2>4, <3>1, <3>2
  <2> QED BY <2>3, <2>6, <2>7, <2>8, <2>9, <2>10
<1> QED BY <1>3, <1>4

(* A frame that is accepted: the system shows what the frame says, and the   *)
(* slots kept say the same of each contact once the edges are settled.       *)
LEMMA AcceptedTouch ==
  ASSUME PointerInv, NEW t, NEW wanted \in Seq(ContactTypes), Unique(wanted),
         Inject(t, TouchFrame(wanted), TRUE), Ids(slots) \subseteq Ids(wanted),
         edges = "once" => \A i \in 1..Len(wanted) :
           ~("down" \in wanted[i].flags /\ sees[wanted[i].id] = "contact"),
         slots' \in Seq(ContactTypes), Unique(slots'),
         \A i \in 1..Len(slots') : \E j \in 1..Len(wanted) :
           /\ slots'[i].id = wanted[j].id
           /\ Quiet(slots'[i].flags) =>
                /\ "contact" \in slots'[i].flags <=> slots'[i].touching
                /\ "contact" \in wanted[j].flags <=> slots'[i].touching,
         \A j \in 1..Len(wanted) :
           wanted[j].id \notin Ids(slots') => Where(wanted[j].flags) = "out",
         edges = "once" => AllQuiet(slots'),
         UNCHANGED <<stylus, pointerState>>
  PROVE  PointerInv'
<1>1. /\ sees' \in [TouchIds \cup {Stylus} -> {"out", "hover", "contact"}]
      /\ \A i \in 1..Len(wanted) : sees'[wanted[i].id] = Where(wanted[i].flags)
      /\ \A p \in TouchIds \cup {Stylus} : p \notin Ids(wanted) => sees'[p] = sees[p]
      /\ edges' \in {edges, "again"}
      /\ edges # "again" /\ edges' = "again" =>
           /\ edges = "once"
           /\ \E i \in 1..Len(wanted) :
                "down" \in wanted[i].flags /\ sees[wanted[i].id] = "contact"
  BY TouchInjected DEF PointerInv
<1>2. edges # "again" /\ edges' = edges
  BY <1>1 DEF PointerInv, EdgeInv
<1>3. PointerTypes'
  BY <1>1, <1>2 DEF PointerInv, PointerTypes
<1>4. Consistent(slots')
  BY DEF Consistent
<1>5. Tracked'
  <2> SUFFICES ASSUME NEW c \in TouchIds, sees'[c] # "out" PROVE c \in Ids(slots')
    BY DEF Tracked
  <2>1. CASE c \in Ids(wanted)
    <3>1. PICK j \in 1..Len(wanted) : c = wanted[j].id
      BY <2>1 DEF Ids
    <3> QED BY <1>1, <3>1
  <2>2. CASE c \notin Ids(wanted)
    <3>1. sees[c] # "out"
      BY <1>1, <2>2
    <3> QED BY <2>2, <3>1 DEF PointerInv, TouchInv, Tracked
  <2> QED BY <2>1, <2>2
<1>6. Shown'
  <2> SUFFICES ASSUME NEW i \in 1..Len(slots'), Quiet(slots'[i].flags)
               PROVE  slots'[i].touching <=> sees'[slots'[i].id] = "contact"
    BY DEF Shown
  <2>1. PICK j \in 1..Len(wanted) :
           /\ slots'[i].id = wanted[j].id
           /\ "contact" \in wanted[j].flags <=> slots'[i].touching
    OBVIOUS
  <2>2. sees'[slots'[i].id] = Where(wanted[j].flags)
    BY <1>1, <2>1
  <2> QED BY <2>1, <2>2, WhereIs
<1>7. EdgeInv'
  BY <1>2 DEF EdgeInv
<1>8. StylusInv'
  <2>1. Stylus \notin Ids(wanted)
    BY ContactTyped, ContactsAreTouches DEF Ids
  <2>2. sees'[Stylus] = sees[Stylus]
    BY <1>1, <2>1
  <2> QED BY <1>2, <2>2 DEF PointerInv, StylusInv
<1> QED BY <1>3, <1>4, <1>5, <1>6, <1>7, <1>8 DEF PointerInv, TouchInv

LEMMA PlaceInv ==
  ASSUME PointerInv, NEW c \in TouchIds, NEW touching \in BOOLEAN,
         PlaceWindowsContact(c, touching)
  PROVE  PointerInv' /\ Len(slots') = Len(SlotsWith(c))
<1> DEFINE before == SlotsWith(c)
           slot == CHOOSE i \in 1..Len(before) : before[i].id = c
           flags == PlacedFlags(before[slot], touching)
           wanted == WithFlags(before, slot, flags)
<1>0. pointerState["touchscreen"] = "open" /\ UNCHANGED <<stylus, pointerState>>
  BY DEF PlaceWindowsContact
<1>1. PICK accepted \in BOOLEAN :
        /\ Inject(App, TouchFrame(wanted), accepted)
        /\ slots' = IF accepted
                    THEN WithState(wanted, slot, Settled(wanted[slot].flags), touching)
                    ELSE wanted
  BY DEF PlaceWindowsContact, WithFlags, WithState, SlotsWith
<1>2. /\ before \in Seq(ContactTypes) /\ Unique(before) /\ Consistent(before)
      /\ Ids(before) = Ids(slots) \cup {c}
      /\ AllQuiet(slots) => AllQuiet(before)
      /\ \A i \in 1..Len(before) : Quiet(before[i].flags) =>
           (before[i].touching <=> sees[before[i].id] = "contact")
  BY <1>0, SlotBefore
<1> HIDE DEF before
<1>3. slot \in 1..Len(before) /\ before[slot].id = c
  <2>1. \E i \in 1..Len(before) : before[i].id = c
    BY <1>2 DEF Ids
  <2> QED BY <2>1
<1> HIDE DEF slot
<1>4. before[slot] \in ContactTypes
  BY <1>2, <1>3, ContactTyped
<1>5. /\ flags \in SUBSET Flags /\ ~Quiet(flags)
      /\ "contact" \in flags <=> touching
      /\ Quiet(before[slot].flags) /\ "down" \in flags => touching /\ ~before[slot].touching
  BY <1>4, Placing
<1> HIDE DEF flags
<1>6. /\ wanted \in Seq(ContactTypes) /\ Len(wanted) = Len(before)
      /\ \A i \in 1..Len(before) : /\ wanted[i].id = before[i].id
                                   /\ wanted[i].touching = before[i].touching
      /\ \A i \in 1..Len(before) :
           wanted[i].flags = IF i = slot THEN flags ELSE before[i].flags
      /\ Unique(wanted)
      /\ Ids(wanted) = Ids(before)
  BY <1>2, <1>3, <1>5, SlotFlags
<1>7. CASE accepted = FALSE
  <2>1. Inject(App, TouchFrame(wanted), FALSE) /\ slots' = wanted
    BY <1>1, <1>7
  <2>2. Ids(slots) \subseteq Ids(before)
    BY <1>2
  <2>3. PointerInv'
    BY <1>0, <1>2, <1>3, <1>5, <2>1, <2>2, RefusedTouch
  <2> QED BY <1>6, <2>1, <2>3 DEF before
<1>8. CASE accepted = TRUE
  <2> DEFINE settled == Settled(flags)
  <2>1. Inject(App, TouchFrame(wanted), TRUE)
    BY <1>1, <1>8
  <2>2. wanted[slot].flags = flags
    BY <1>3, <1>6
  <2>3. slots' = WithState(wanted, slot, settled, touching)
    BY <1>1, <1>8, <2>2
  <2>4. settled \in SUBSET Flags /\ Quiet(settled) /\ ("contact" \in settled <=> touching)
    BY <1>5, QuietFlags
  <2> HIDE DEF settled, wanted
  <2>5. slot \in 1..Len(wanted)
    BY <1>3, <1>6
  <2>6. /\ slots' \in Seq(ContactTypes) /\ Len(slots') = Len(wanted)
        /\ \A i \in 1..Len(wanted) : slots'[i].id = wanted[i].id
        /\ \A i \in 1..Len(wanted) :
             slots'[i].flags = IF i = slot THEN settled ELSE wanted[i].flags
        /\ \A i \in 1..Len(wanted) :
             slots'[i].touching = IF i = slot THEN touching ELSE wanted[i].touching
        /\ Unique(slots')
        /\ Ids(slots') = Ids(wanted)
    BY <1>6, <2>3, <2>4, <2>5, SlotState
  <2>7. ASSUME NEW i \in 1..Len(slots'), Quiet(slots'[i].flags)
        PROVE  /\ "contact" \in slots'[i].flags <=> slots'[i].touching
               /\ "contact" \in wanted[i].flags <=> slots'[i].touching
    <3>1. CASE i = slot
      BY <1>5, <2>2, <2>4, <2>5, <2>6, <3>1
    <3>2. CASE i # slot
      <4>1. i \in 1..Len(before) /\ slots'[i].flags = before[i].flags
            /\ wanted[i].flags = before[i].flags /\ slots'[i].touching = before[i].touching
        BY <1>6, <2>6, <3>2
      <4> QED BY <1>2, <2>7, <4>1 DEF Consistent
    <3> QED BY <3>1, <3>2
  <2>8. ASSUME edges = "once", NEW i \in 1..Len(wanted),
               "down" \in wanted[i].flags, sees[wanted[i].id] = "contact"
        PROVE  FALSE
    <3>1. i \in 1..Len(before) /\ AllQuiet(before) /\ Quiet(before[i].flags)
          /\ before[i].flags \in SUBSET Flags
      BY <1>2, <1>6, <2>8, ContactTyped DEF PointerInv, EdgeInv, AllQuiet
    <3>2. CASE i = slot
      <4>1. ~before[slot].touching
        BY <1>5, <2>2, <2>8, <3>1, <3>2
      <4> QED BY <1>2, <1>6, <2>8, <3>1, <3>2, <4>1
    <3>3. CASE i # slot
      <4>1. wanted[i].flags = before[i].flags
        BY <1>6, <3>1, <3>3
      <4> QED BY <2>8, <3>1, <4>1, QuietFlags
    <3> QED BY <3>2, <3>3
  <2>9. edges = "once" => AllQuiet(slots')
    <3> SUFFICES ASSUME edges = "once", NEW i \in 1..Len(wanted)
                 PROVE  Quiet(slots'[i].flags)
      BY <2>6 DEF AllQuiet
    <3>1. i \in 1..Len(before) /\ Quiet(before[i].flags)
      BY <1>2, <1>6 DEF PointerInv, EdgeInv, AllQuiet
    <3> QED BY <1>6, <2>4, <2>6, <3>1
  <2>10. Ids(slots) \subseteq Ids(wanted)
    BY <1>2, <1>6
  <2>11. \A j \in 1..Len(wanted) : wanted[j].id \in Ids(slots')
    BY <2>6 DEF Ids
  <2>12. \A i \in 1..Len(slots') : \E j \in 1..Len(wanted) :
           /\ slots'[i].id = wanted[j].id
           /\ Quiet(slots'[i].flags) =>
                /\ "contact" \in slots'[i].flags <=> slots'[i].touching
                /\ "contact" \in wanted[j].flags <=> slots'[i].touching
    BY <2>6, <2>7
  <2>13. PointerInv'
    BY <1>0, <1>6, <2>1, <2>6, <2>8, <2>9, <2>10, <2>11, <2>12, AcceptedTouch
  <2> QED BY <1>6, <2>6, <2>13 DEF before
<1> QED BY <1>7, <1>8

LEMMA ReleaseInv ==
  ASSUME PointerInv, NEW c \in TouchIds, NEW transition \in Transitions,
         ReleaseWindowsContact(c, transition)
  PROVE  PointerInv' /\ Len(slots') <= Len(slots)
<1>0. pointerState["touchscreen"] = "open" /\ UNCHANGED <<stylus, pointerState>>
  BY DEF ReleaseWindowsContact
<1>1. PICK slot \in SlotOf(c), accepted \in BOOLEAN :
        LET wanted == WithFlags(slots, slot,
                       LeftFlags(slots[slot].flags, slots[slot].touching, transition))
        IN /\ Inject(App, TouchFrame(wanted), accepted)
           /\ slots' = IF accepted THEN ErasedSlot(wanted, slot) ELSE wanted
  BY DEF ReleaseWindowsContact, WithFlags
<1> DEFINE flags == LeftFlags(slots[slot].flags, slots[slot].touching, transition)
           wanted == WithFlags(slots, slot, flags)
<1>2. /\ slots \in Seq(ContactTypes) /\ Unique(slots) /\ Consistent(slots)
      /\ \A i \in 1..Len(slots) : Quiet(slots[i].flags) =>
           (slots[i].touching <=> sees[slots[i].id] = "contact")
  BY <1>0 DEF PointerInv, PointerTypes, TouchInv, Shown
<1>3. slot \in 1..Len(slots)
  BY DEF SlotOf
<1>4. /\ slots[slot] \in ContactTypes /\ slots[slot].flags \in SUBSET Flags
      /\ slots[slot].touching \in BOOLEAN
  BY <1>2, <1>3, ContactTyped
<1>5. /\ flags \in SUBSET Flags /\ ~Quiet(flags)
      /\ "contact" \notin flags /\ "range" \notin flags
      /\ Quiet(slots[slot].flags) => "down" \notin flags
  BY <1>4, Leaving
<1>6. /\ Inject(App, TouchFrame(wanted), accepted)
      /\ slots' = IF accepted THEN ErasedSlot(wanted, slot) ELSE wanted
  BY <1>1
<1> HIDE DEF flags
<1>7. /\ wanted \in Seq(ContactTypes) /\ Len(wanted) = Len(slots)
      /\ \A i \in 1..Len(slots) : /\ wanted[i].id = slots[i].id
                                  /\ wanted[i].touching = slots[i].touching
      /\ \A i \in 1..Len(slots) :
           wanted[i].flags = IF i = slot THEN flags ELSE slots[i].flags
      /\ Unique(wanted)
      /\ Ids(wanted) = Ids(slots)
  BY <1>2, <1>3, <1>5, SlotFlags
<1>8. CASE accepted = FALSE
  <2>1. Inject(App, TouchFrame(wanted), FALSE) /\ slots' = wanted
    BY <1>6, <1>8
  <2>2. Ids(slots) \subseteq Ids(slots)
    OBVIOUS
  <2>3. PointerInv'
    BY <1>0, <1>2, <1>3, <1>5, <2>1, <2>2, RefusedTouch
  <2> QED BY <1>2, <1>7, <2>1, <2>3
<1>9. CASE accepted = TRUE
  <2>1. Inject(App, TouchFrame(wanted), TRUE) /\ slots' = ErasedSlot(wanted, slot)
    BY <1>6, <1>9
  <2> HIDE DEF wanted
  <2>2. slot \in 1..Len(wanted)
    BY <1>3, <1>7
  <2>3. slots' \in Seq(ContactTypes)
    BY <1>7, <2>1, <2>2, Erasing
  <2>4. /\ Unique(slots') /\ Ids(slots') = Ids(wanted) \ {wanted[slot].id}
        /\ \A i \in 1..Len(slots') : \E j \in 1..Len(wanted) \ {slot} : slots'[i] = wanted[j]
    BY <1>7, <2>1, <2>2, ErasedIds
  <2>5. ASSUME NEW i \in 1..Len(slots')
        PROVE  \E j \in 1..Len(wanted) :
                 /\ slots'[i].id = wanted[j].id
                 /\ Quiet(slots'[i].flags) =>
                      /\ "contact" \in slots'[i].flags <=> slots'[i].touching
                      /\ "contact" \in wanted[j].flags <=> slots'[i].touching
    <3>1. PICK j \in 1..Len(wanted) \ {slot} : slots'[i] = wanted[j]
      BY <2>4
    <3>2. j \in 1..Len(slots) /\ wanted[j].flags = slots[j].flags
          /\ wanted[j].touching = slots[j].touching
      BY <1>7, <3>1
    <3>3. Quiet(wanted[j].flags) => ("contact" \in wanted[j].flags <=> wanted[j].touching)
      BY <1>2, <3>2 DEF Consistent
    <3> QED BY <3>1, <3>3
  <2>6. ASSUME NEW j \in 1..Len(wanted), wanted[j].id \notin Ids(slots')
        PROVE  Where(wanted[j].flags) = "out"
    <3>1. wanted[j].id = wanted[slot].id
      BY <2>4, <2>6 DEF Ids
    <3>2. j = slot
      BY <1>7, <2>2, <3>1 DEF Unique
    <3> QED BY <1>5, <1>7, <2>2, <3>2, WhereIs
  <2>7. ASSUME edges = "once", NEW i \in 1..Len(wanted),
               "down" \in wanted[i].flags, sees[wanted[i].id] = "contact"
        PROVE  FALSE
    <3>1. i \in 1..Len(slots) /\ Quiet(slots[i].flags) /\ slots[i].flags \in SUBSET Flags
      BY <1>2, <1>7, <2>7, ContactTyped DEF PointerInv, EdgeInv, AllQuiet
    <3>2. CASE i = slot
      BY <1>5, <1>7, <2>7, <3>1, <3>2
    <3>3. CASE i # slot
      <4>1. wanted[i].flags = slots[i].flags
        BY <1>7, <3>1, <3>3
      <4> QED BY <2>7, <3>1, <4>1, QuietFlags
    <3> QED BY <3>2, <3>3
  <2>8. edges = "once" => AllQuiet(slots')
    <3> SUFFICES ASSUME edges = "once", NEW i \in 1..Len(slots')
                 PROVE  Quiet(slots'[i].flags)
      BY DEF AllQuiet
    <3>1. PICK j \in 1..Len(wanted) \ {slot} : slots'[i] = wanted[j]
      BY <2>4
    <3>2. j \in 1..Len(slots) /\ wanted[j].flags = slots[j].flags
      BY <1>7, <3>1
    <3> QED BY <3>1, <3>2 DEF PointerInv, EdgeInv, AllQuiet
  <2>9. Ids(slots) \subseteq Ids(wanted)
    BY <1>7
  <2>10. PointerInv'
    BY <1>0, <1>7, <2>1, <2>3, <2>4, <2>5, <2>6, <2>7, <2>8, <2>9, AcceptedTouch
  <2>11. Len(slots') = Len(slots) - 1 /\ Len(slots) \in Nat
    BY <1>2, <1>7, <2>1, <2>2, Erasing
  <2> QED BY <2>10, <2>11
<1> QED BY <1>8, <1>9

-----------------------------------------------------------------------------
(* The pen, the repeat thread and the rest                                   *)

(* A frame of the pen changes what the system shows of the stylus alone *)
LEMMA StylusFrame ==
  ASSUME PointerInv, NEW t, NEW pen \in StylusTypes, NEW accepted \in BOOLEAN,
         Inject(t, PenFrame(pen), accepted),
         pointerState["pen"] = "open",
         edges = "once" => ~("down" \in pen.flags /\ sees[Stylus] = "contact"),
         stylus' \in StylusTypes,
         edges = "once" /\ accepted =>
           /\ Quiet(stylus'.flags)
           /\ "contact" \in stylus'.flags <=> stylus'.contacting
           /\ "contact" \in pen.flags <=> stylus'.contacting,
         UNCHANGED <<slots, pointerState>>
  PROVE  PointerInv'
<1>1. CASE accepted = FALSE
  <2>1. /\ sees' = sees /\ edges' \in {"refused", "again"}
        /\ edges # "again" => edges' # "again"
    BY <1>1, Refused DEF PointerInv
  <2>2. PointerTypes'
    BY <2>1 DEF PointerInv, PointerTypes
  <2>3. TouchInv'
    BY <2>1 DEF PointerInv, TouchInv, Tracked, Shown
  <2> QED BY <2>1, <2>2, <2>3 DEF PointerInv, StylusInv, EdgeInv
<1>2. CASE accepted = TRUE
  <2>1. /\ sees' \in [TouchIds \cup {Stylus} -> {"out", "hover", "contact"}]
        /\ sees'[Stylus] = Where(pen.flags)
        /\ \A c \in TouchIds : sees'[c] = sees[c]
        /\ edges' \in {edges, "again"}
        /\ edges # "again" /\ edges' = "again" =>
             edges = "once" /\ "down" \in pen.flags /\ sees[Stylus] = "contact"
    BY <1>2, StylusInjected DEF PointerInv
  <2>2. edges # "again" /\ edges' = edges
    BY <2>1 DEF PointerInv, EdgeInv
  <2>3. PointerTypes'
    BY <2>1, <2>2 DEF PointerInv, PointerTypes
  <2>4. TouchInv'
    <3>1. Tracked'
      BY <2>1 DEF PointerInv, TouchInv, Tracked
    <3>2. Shown'
      <4>1. \A i \in 1..Len(slots) : slots[i].id \in TouchIds
        BY ContactTyped DEF PointerInv, PointerTypes
      <4> QED BY <2>1, <4>1 DEF PointerInv, TouchInv, Shown
    <3> QED BY <3>1, <3>2 DEF PointerInv, TouchInv
  <2>5. EdgeInv'
    BY <2>2 DEF PointerInv, EdgeInv
  <2>6. StylusInv'
    <3>1. Where(pen.flags) = "contact" <=> "contact" \in pen.flags
      BY WhereIs
    <3> QED BY <1>2, <2>1, <2>2, <3>1 DEF StylusInv
  <2> QED BY <2>3, <2>4, <2>5, <2>6 DEF PointerInv
<1> QED BY <1>1, <1>2

LEMMA StylusTyped ==
  ASSUME PointerInv
  PROVE  /\ stylus \in StylusTypes /\ stylus.flags \in SUBSET Flags
         /\ stylus.contacting \in BOOLEAN
         /\ \A flags \in SUBSET Flags : [stylus EXCEPT !.flags = flags] \in StylusTypes
BY DEF PointerInv, PointerTypes, StylusTypes

LEMMA InjectStylusInv ==
  ASSUME PointerInv, NEW wanted \in StylusTypes, InjectStylus(wanted),
         edges = "once" /\ pointerState["pen"] = "open" =>
           ~("down" \in wanted.flags /\ sees[Stylus] = "contact"),
         "contact" \in wanted.flags <=> wanted.contacting
  PROVE  PointerInv'
<1>1. PICK accepted \in BOOLEAN :
        /\ Inject(App, PenFrame(wanted), accepted)
        /\ stylus' = IF accepted THEN [wanted EXCEPT !.flags = Settled(@)] ELSE wanted
  BY DEF InjectStylus
<1>2. pointerState["pen"] = "open" /\ UNCHANGED <<slots, pointerState>>
  BY DEF InjectStylus
<1>3. /\ wanted.flags \in SUBSET Flags
      /\ Settled(wanted.flags) \in SUBSET Flags /\ Quiet(Settled(wanted.flags))
      /\ "contact" \in Settled(wanted.flags) <=> "contact" \in wanted.flags
  BY QuietFlags DEF StylusTypes
<1>4. stylus' \in StylusTypes
  BY <1>1, <1>3 DEF StylusTypes
<1>5. accepted => /\ stylus'.flags = Settled(wanted.flags)
                  /\ stylus'.contacting = wanted.contacting
  BY <1>1 DEF StylusTypes
<1>6. edges = "once" /\ accepted =>
        /\ Quiet(stylus'.flags)
        /\ "contact" \in stylus'.flags <=> stylus'.contacting
        /\ "contact" \in wanted.flags <=> stylus'.contacting
  BY <1>3, <1>5
<1> QED BY <1>1, <1>2, <1>4, <1>6, StylusFrame

LEMMA PlaceStylusInv ==
  ASSUME PointerInv, NEW touching \in BOOLEAN, PlaceStylus(touching)
  PROVE  PointerInv'
<1> DEFINE flags == (IF touching THEN stylus.flags \cup {"contact"}
                     ELSE stylus.flags \ {"contact"})
                      \cup {"range", "update"}
                      \cup (IF touching /\ ~stylus.contacting THEN {"down"} ELSE {})
           wanted == PlacedStylus(touching)
<1>1. flags \in SUBSET Flags
  <2>1. stylus.flags \in SUBSET Flags
    BY StylusTyped
  <2> QED BY <2>1 DEF Flags, EdgeFlags
<1>2. /\ wanted \in StylusTypes /\ wanted.flags = flags /\ wanted.contacting = touching
  <2>1. wanted = [stylus EXCEPT !.flags = flags, !.active = TRUE, !.contacting = touching]
    BY DEF PlacedStylus
  <2>2. stylus \in StylusTypes
    BY StylusTyped
  <2> HIDE DEF wanted, flags
  <2> QED BY <1>1, <2>1, <2>2 DEF StylusTypes
<1>3. "contact" \in flags <=> touching
  OBVIOUS
<1>4. ASSUME edges = "once", pointerState["pen"] = "open",
             "down" \in flags, sees[Stylus] = "contact"
      PROVE  FALSE
  <2>1. Quiet(stylus.flags) /\ stylus.contacting /\ stylus.flags \in SUBSET Flags
    BY <1>4, StylusTyped DEF PointerInv, StylusInv
  <2>2. "down" \notin stylus.flags
    BY <2>1, QuietFlags
  <2> QED BY <1>4, <2>1, <2>2
<1>5. InjectStylus(wanted)
  BY DEF PlaceStylus
<1> HIDE DEF wanted, flags
<1> QED BY <1>2, <1>3, <1>4, <1>5, InjectStylusInv

LEMMA LeaveStylusInv ==
  ASSUME PointerInv, NEW transition \in Transitions, LeaveStylus(transition)
  PROVE  PointerInv'
<1> DEFINE flags == LeftFlags(stylus.flags, stylus.contacting, transition)
           wanted == LeftStylus(transition)
<1>1. /\ flags \in SUBSET Flags /\ "contact" \notin flags
      /\ Quiet(stylus.flags) => "down" \notin flags
  BY StylusTyped, Leaving
<1>2. wanted \in StylusTypes /\ wanted.flags = flags /\ wanted.contacting = FALSE
  <2>1. wanted = [stylus EXCEPT !.flags = flags, !.active = FALSE, !.contacting = FALSE]
    BY DEF LeftStylus
  <2>2. stylus \in StylusTypes
    BY StylusTyped
  <2> HIDE DEF wanted, flags
  <2> QED BY <1>1, <2>1, <2>2 DEF StylusTypes
<1>3. edges = "once" => "down" \notin flags
  BY <1>1 DEF PointerInv, StylusInv
<1>4. InjectStylus(wanted)
  BY DEF LeaveStylus
<1> HIDE DEF wanted, flags
<1> QED BY <1>1, <1>2, <1>3, <1>4, InjectStylusInv

LEMMA StylusButtonInv ==
  ASSUME PointerInv, NEW pressed \in BOOLEAN, StylusButton(pressed)
  PROVE  PointerInv'
<1> DEFINE pen == [stylus EXCEPT !.flags = @ \cup {"update"}]
<1>1. /\ pointerState["pen"] = "open" /\ UNCHANGED <<slots, pointerState>>
      /\ stylus \in StylusTypes /\ stylus.flags \in SUBSET Flags
  BY StylusTyped DEF StylusButton
<1>2. /\ Settled(stylus.flags) \in SUBSET Flags /\ Quiet(Settled(stylus.flags))
      /\ "contact" \in Settled(stylus.flags) <=> "contact" \in stylus.flags
      /\ Quiet(stylus.flags) => "down" \notin stylus.flags
  BY <1>1, QuietFlags
<1>3. CASE stylus.active
  <2>1. PICK accepted \in BOOLEAN : Inject(App, PenFrame(pen), accepted)
    BY <1>3 DEF StylusButton
  <2>2. stylus' = [stylus EXCEPT !.flags = Settled(@), !.barrel = pressed]
    BY <1>3 DEF StylusButton
  <2>3. /\ stylus' \in StylusTypes /\ stylus'.flags = Settled(stylus.flags)
        /\ stylus'.contacting = stylus.contacting
    BY <1>1, <1>2, <2>2 DEF StylusTypes
  <2>4. stylus.flags \cup {"update"} \in SUBSET Flags
    BY <1>1 DEF Flags, EdgeFlags
  <2>5. pen \in StylusTypes /\ pen.flags = stylus.flags \cup {"update"}
    BY <1>1, <2>4 DEF StylusTypes
  <2>6. edges = "once" => "down" \notin pen.flags
    BY <1>2, <2>5 DEF PointerInv, StylusInv
  <2>7. edges = "once" =>
          /\ Quiet(stylus'.flags)
          /\ "contact" \in stylus'.flags <=> stylus'.contacting
          /\ "contact" \in pen.flags <=> stylus'.contacting
    BY <1>2, <2>3, <2>5 DEF PointerInv, StylusInv
  <2> HIDE DEF pen
  <2> QED BY <1>1, <2>1, <2>3, <2>5, <2>6, <2>7, StylusFrame
<1>4. CASE ~stylus.active
  <2>1. /\ stylus' \in {[stylus EXCEPT !.barrel = pressed],
                        [stylus EXCEPT !.flags = Settled(@), !.barrel = pressed]}
        /\ UNCHANGED <<sees, edges>>
    BY <1>4 DEF StylusButton
  <2>2. /\ stylus' \in StylusTypes
        /\ stylus'.flags \in {stylus.flags, Settled(stylus.flags)}
        /\ stylus'.contacting = stylus.contacting
        /\ UNCHANGED <<sees, edges>>
    BY <1>1, <1>2, <2>1 DEF StylusTypes
  <2>3. PointerTypes'
    BY <1>1, <2>2 DEF PointerInv, PointerTypes
  <2>4. TouchInv' /\ EdgeInv'
    BY <1>1, <2>2 DEF PointerInv, TouchInv, Tracked, Shown, EdgeInv
  <2>5. StylusInv'
    BY <1>1, <1>2, <2>2 DEF PointerInv, StylusInv
  <2> QED BY <2>3, <2>4, <2>5 DEF PointerInv
<1> QED BY <1>3, <1>4

LEMMA RefreshInv ==
  ASSUME PointerInv, NEW p \in PointerDevices, Refresh(p)
  PROVE  PointerInv'
<1>1. /\ pointerState[p] = "open" /\ p \in {"touchscreen", "pen"}
      /\ UNCHANGED <<slots, stylus, pointerState>>
  BY DEF Refresh, PointerDevices
<1>2. CASE p = "touchscreen"
  <2>1. PICK accepted \in BOOLEAN : Inject(Repeat, TouchFrame(slots), accepted)
    BY <1>2 DEF Refresh
  <2>2. slots \in Seq(ContactTypes) /\ Unique(slots) /\ Consistent(slots)
    BY DEF PointerInv, PointerTypes, TouchInv
  <2>3. CASE accepted = TRUE
    <3>1. Inject(Repeat, TouchFrame(slots), TRUE)
      BY <2>1, <2>3
    <3>2. edges = "once" => AllQuiet(slots)
      BY DEF PointerInv, EdgeInv
    <3>3. ASSUME edges = "once", NEW i \in 1..Len(slots),
                 "down" \in slots[i].flags, sees[slots[i].id] = "contact"
          PROVE  FALSE
      <4>1. Quiet(slots[i].flags) /\ slots[i].flags \in SUBSET Flags
        BY <2>2, <3>2, <3>3, ContactTyped DEF AllQuiet
      <4> QED BY <3>3, <4>1, QuietFlags
    <3>4. \A i \in 1..Len(slots) : slots[i].id \in Ids(slots)
      BY DEF Ids
    <3>5. slots' = slots
      BY <1>1
    <3>6. \A i \in 1..Len(slots') : \E j \in 1..Len(slots) :
           /\ slots'[i].id = slots[j].id
           /\ Quiet(slots'[i].flags) =>
                /\ "contact" \in slots'[i].flags <=> slots'[i].touching
                /\ "contact" \in slots[j].flags <=> slots'[i].touching
      BY <2>2, <3>5 DEF Consistent
    <3>7. \A j \in 1..Len(slots) : slots[j].id \notin Ids(slots') =>
            Where(slots[j].flags) = "out"
      BY <3>4, <3>5
    <3>8. /\ slots' \in Seq(ContactTypes) /\ Unique(slots')
          /\ edges = "once" => AllQuiet(slots')
      BY <2>2, <3>2, <3>5
    <3>9. Ids(slots) \subseteq Ids(slots)
      OBVIOUS
    <3>10. UNCHANGED <<stylus, pointerState>>
      BY <1>1
    <3> QED BY <2>2, <3>1, <3>3, <3>6, <3>7, <3>8, <3>9, <3>10, AcceptedTouch
  <2>4. CASE accepted = FALSE
    <3>1. /\ sees' = sees /\ edges' \in {"refused", "again"}
          /\ edges # "again" => edges' # "again"
      BY <2>1, <2>4, Refused DEF PointerInv
    <3>2. PointerTypes'
      BY <1>1, <3>1 DEF PointerInv, PointerTypes
    <3>3. TouchInv'
      BY <1>1, <3>1 DEF PointerInv, TouchInv, Tracked, Shown
    <3> QED BY <3>1, <3>2, <3>3 DEF PointerInv, StylusInv, EdgeInv
  <2> QED BY <2>3, <2>4
<1>3. CASE p = "pen"
  <2>1. PICK accepted \in BOOLEAN : Inject(Repeat, PenFrame(stylus), accepted)
    BY <1>3 DEF Refresh
  <2>2. stylus \in StylusTypes /\ stylus.flags \in SUBSET Flags
    BY StylusTyped
  <2>3. edges = "once" =>
          /\ "down" \notin stylus.flags /\ Quiet(stylus.flags)
          /\ "contact" \in stylus.flags <=> stylus.contacting
    BY <2>2, QuietFlags DEF PointerInv, StylusInv
  <2> QED BY <1>1, <1>3, <2>1, <2>2, <2>3, StylusFrame
<1> QED BY <1>1, <1>2, <1>3

LEMMA OtherPointerInv ==
  ASSUME PointerInv,
         \/ \E d \in Desktops : SwitchDesktop(d)
         \/ \E p \in PointerDevices : StopPointer(p) \/ EndRefresher(p) \/ DestroyPointer(p)
         \/ \E i \in HeldInputs, pressed \in BOOLEAN : PressOrRelease(i, pressed)
         \/ UNCHANGED winVars
  PROVE  PointerInv'
<1>1. ASSUME UNCHANGED <<slots, stylus, sees, edges>>,
             pointerState' \in [PointerDevices -> {"open", "stopping", "closed"}],
             \A p \in PointerDevices : pointerState'[p] = "open" => pointerState[p] = "open"
      PROVE  PointerInv'
  <2>1. PointerTypes'
    BY <1>1 DEF PointerInv, PointerTypes
  <2>2. TouchInv'
    BY <1>1 DEF PointerInv, TouchInv, Tracked, Shown, PointerDevices
  <2>3. StylusInv' /\ EdgeInv'
    BY <1>1 DEF PointerInv, StylusInv, EdgeInv, PointerDevices
  <2> QED BY <2>1, <2>2, <2>3 DEF PointerInv
<1>2. pointerState \in [PointerDevices -> {"open", "stopping", "closed"}]
  BY DEF PointerInv, PointerTypes
<1>3. ASSUME NEW d \in Desktops, SwitchDesktop(d) PROVE PointerInv'
  BY <1>1, <1>2, <1>3 DEF SwitchDesktop
<1>4. ASSUME NEW p \in PointerDevices, StopPointer(p) PROVE PointerInv'
  <2>1. \A q \in PointerDevices : pointerState'[q] = IF q = p THEN "stopping" ELSE pointerState[q]
    BY <1>2, <1>4 DEF StopPointer
  <2> QED BY <1>1, <1>2, <1>4, <2>1 DEF StopPointer
<1>5. ASSUME NEW p \in PointerDevices, EndRefresher(p) PROVE PointerInv'
  BY <1>1, <1>2, <1>5 DEF EndRefresher
<1>6. ASSUME NEW p \in PointerDevices, DestroyPointer(p) PROVE PointerInv'
  <2>1. /\ pointerState[p] = "stopping" /\ UNCHANGED <<slots, stylus, edges>>
        /\ pointerState' = [pointerState EXCEPT ![p] = "closed"]
        /\ sees' = [q \in DOMAIN sees |->
                      IF (q = Stylus) = (p = "pen") THEN "out" ELSE sees[q]]
    BY <1>6 DEF DestroyPointer
  <2>2. /\ pointerState' \in [PointerDevices -> {"open", "stopping", "closed"}]
        /\ \A q \in PointerDevices :
             pointerState'[q] = IF q = p THEN "closed" ELSE pointerState[q]
    BY <1>2, <2>1
  <2>3. sees \in [TouchIds \cup {Stylus} -> {"out", "hover", "contact"}]
    BY DEF PointerInv, PointerTypes
  <2>4. /\ sees' \in [TouchIds \cup {Stylus} -> {"out", "hover", "contact"}]
        /\ \A q \in TouchIds \cup {Stylus} : sees'[q] \in {"out", sees[q]}
        /\ p = "pen" => \A c \in TouchIds : sees'[c] = sees[c]
        /\ p # "pen" => sees'[Stylus] = sees[Stylus]
    BY <2>1, <2>3, ContactsAreTouches
  <2>5. PointerTypes'
    BY <2>1, <2>2, <2>4 DEF PointerInv, PointerTypes
  <2>6. Tracked'
    BY <2>1, <2>4 DEF PointerInv, TouchInv, Tracked
  <2>7. Shown'
    <3>1. CASE p = "pen"
      <4>1. \A i \in 1..Len(slots) : slots[i].id \in TouchIds
        BY ContactTyped DEF PointerInv, PointerTypes
      <4>2. pointerState'["touchscreen"] = pointerState["touchscreen"]
        BY <2>2, <3>1 DEF PointerDevices
      <4> QED BY <2>1, <2>4, <3>1, <4>1, <4>2 DEF PointerInv, TouchInv, Shown
    <3>2. CASE p = "touchscreen"
      BY <2>2, <3>2 DEF Shown, PointerDevices
    <3> QED BY <3>1, <3>2 DEF PointerDevices
  <2>8. StylusInv'
    <3>1. CASE p = "pen"
      BY <2>1, <2>2, <3>1 DEF PointerInv, StylusInv, PointerDevices
    <3>2. CASE p = "touchscreen"
      <4>1. pointerState'["pen"] = pointerState["pen"]
        BY <2>2, <3>2 DEF PointerDevices
      <4> QED BY <2>1, <2>4, <3>2, <4>1 DEF PointerInv, StylusInv
    <3> QED BY <3>1, <3>2 DEF PointerDevices
  <2> QED BY <2>1, <2>5, <2>6, <2>7, <2>8 DEF PointerInv, TouchInv, EdgeInv
<1>7. ASSUME NEW i \in HeldInputs, NEW pressed \in BOOLEAN, PressOrRelease(i, pressed)
      PROVE  PointerInv'
  BY <1>1, <1>2, <1>7 DEF PressOrRelease
<1>8. CASE UNCHANGED winVars
  BY <1>1, <1>2, <1>8 DEF winVars
<1> QED BY <1>3, <1>4, <1>5, <1>6, <1>7, <1>8

LEMMA PointersStart == WinInit => PointerInv
<1> SUFFICES ASSUME WinInit PROVE PointerInv
  OBVIOUS
<1>1. slots = <<>> /\ slots \in Seq(ContactTypes) /\ Len(slots) = 0
  BY DEF WinInit
<1>2. pointerState \in [PointerDevices -> {"open", "stopping", "closed"}]
  BY DEF WinInit
<1>3. stylus \in StylusTypes
  BY DEF WinInit, StylusTypes
<1>4. sees = [p \in TouchIds \cup {Stylus} |-> "out"] /\ edges = "once"
  BY DEF WinInit
<1>5. PointerTypes
  BY <1>1, <1>2, <1>3, <1>4 DEF PointerTypes
<1>6. TouchInv
  BY <1>1, <1>4 DEF TouchInv, Unique, Consistent, Tracked, Shown
<1>7. StylusInv
  BY <1>4 DEF WinInit, StylusInv, Quiet
<1>8. EdgeInv
  BY <1>1, <1>4 DEF EdgeInv, AllQuiet
<1> QED BY <1>5, <1>6, <1>7, <1>8 DEF PointerInv

LEMMA PointersKept == PointerInv /\ [WinNext]_winVars => PointerInv'
BY PlaceInv, ReleaseInv, PlaceStylusInv, LeaveStylusInv, StylusButtonInv, RefreshInv,
   OtherPointerInv
   DEF WinNext

LEMMA PointersSafe == WinSpec => []PointerInv
BY PointersStart, PointersKept, PTL DEF WinSpec

(* What the system shows of the touchscreen is tracked, so that it can be    *)
(* released, and of quiet contacts it is what the touchscreen believes,      *)
(* whatever frames were refused and however the repeat thread interleaves.   *)
THEOREM ContactsTracked == WinSpec => []NoGhostContact
<1>1. PointerInv => NoGhostContact
  <2> SUFFICES ASSUME PointerInv PROVE NoGhostContact
    OBVIOUS
  <2>1. \A c \in TouchIds : sees[c] # "out" => SlotOf(c) # {}
    <3> SUFFICES ASSUME NEW c \in TouchIds, sees[c] # "out" PROVE SlotOf(c) # {}
      OBVIOUS
    <3>1. PICK i \in 1..Len(slots) : slots[i].id = c
      BY DEF PointerInv, TouchInv, Tracked, Ids
    <3> QED BY <3>1 DEF SlotOf
  <2> QED BY <2>1 DEF PointerInv, TouchInv, Unique, Shown, Quiet, NoGhostContact
<1> QED BY <1>1, PointersSafe, PTL

(* Without a refused frame no pointer that is in contact is sent down again, *)
(* by a call or by the repeat thread.                                        *)
THEOREM EdgesOnce == WinSpec => []EdgesInOneFrame
<1>1. PointerInv => EdgesInOneFrame
  BY DEF PointerInv, EdgeInv, EdgesInOneFrame
<1> QED BY <1>1, PointersSafe, PTL

-----------------------------------------------------------------------------
(* The types of the pointers.  No more contacts are tracked than the device  *)
(* has room for, and a thread is attached to a desktop there is, whichever   *)
(* it opened last.                                                           *)

DesktopTypes ==
  /\ inputDesktop \in Desktops /\ attached \in [WinThreads -> Desktops]
  /\ known \in [WinThreads -> Desktops \cup {NoDesktop}]

RestTypes ==
  /\ DesktopTypes
  /\ Len(slots) <= MaxContacts
  /\ refresher \in [PointerDevices -> {"running", "ended"}]
  /\ holds \subseteq HeldInputs

LEMMA SubmitTyped ==
  ASSUME DesktopTypes, NEW t \in WinThreads, NEW accepted, Submit(t, accepted)
  PROVE  DesktopTypes'
<1>1. CASE UNCHANGED <<attached, known>>
  BY <1>1 DEF DesktopTypes, Submit
<1>2. ASSUME NEW opened \in {inputDesktop, NoDesktop}, AttemptAgain(t, opened, accepted)
      PROVE  DesktopTypes'
  <2>1. known' \in [WinThreads -> Desktops \cup {NoDesktop}]
    BY <1>2 DEF DesktopTypes, AttemptAgain
  <2>2. opened # NoDesktop => opened \in Desktops
    BY DEF DesktopTypes
  <2>3. attached' \in [WinThreads -> Desktops]
    BY <1>2, <2>2 DEF DesktopTypes, AttemptAgain
  <2> QED BY <2>1, <2>3 DEF DesktopTypes, Submit
<1> QED BY <1>1, <1>2 DEF Submit

LEMMA ContactsFit ==
  ASSUME PointerInv, Len(slots) <= MaxContacts,
         NEW c \in TouchIds, NEW touching \in BOOLEAN, PlaceWindowsContact(c, touching)
  PROVE  Len(slots') <= MaxContacts
<1>1. Len(slots') = Len(SlotsWith(c)) /\ slots \in Seq(ContactTypes)
  BY PlaceInv DEF PointerInv, PointerTypes
<1>2. CASE SlotOf(c) # {}
  BY <1>1, <1>2 DEF SlotsWith
<1>3. CASE SlotOf(c) = {}
  <2>1. Len(slots) < MaxContacts
    BY <1>3 DEF PlaceWindowsContact, Room
  <2>2. Len(slots') = Len(slots) + 1 /\ Len(slots) \in Nat
    BY <1>1, <1>3, AppendProperties DEF SlotsWith, NewContact
  <2> QED BY <2>1, <2>2, WindowsBounds
<1> QED BY <1>2, <1>3

LEMMA RestStep == PointerInv /\ RestTypes /\ [WinNext]_winVars => RestTypes'
<1> SUFFICES ASSUME PointerInv, RestTypes, [WinNext]_winVars PROVE RestTypes'
  OBVIOUS
<1>1. ASSUME DesktopTypes', Len(slots') <= MaxContacts, UNCHANGED <<refresher, holds>>
      PROVE  RestTypes'
  BY <1>1 DEF RestTypes, DesktopTypes
<1>2. DesktopTypes /\ Len(slots) <= MaxContacts
  BY DEF RestTypes, DesktopTypes
<1>3. App \in WinThreads /\ Repeat \in WinThreads
  BY DEF WinThreads
<1>4. ASSUME NEW t \in WinThreads, NEW frame, NEW accepted, Inject(t, frame, accepted)
      PROVE  DesktopTypes'
  BY <1>2, <1>4, SubmitTyped DEF Inject
<1>5. ASSUME NEW d \in Desktops, SwitchDesktop(d) PROVE RestTypes'
  BY <1>5 DEF SwitchDesktop, RestTypes, DesktopTypes
<1>6. ASSUME NEW c \in TouchIds, NEW touching \in BOOLEAN, PlaceWindowsContact(c, touching)
      PROVE  RestTypes'
  <2>1. DesktopTypes' /\ UNCHANGED <<refresher, holds>>
    BY <1>3, <1>4, <1>6 DEF PlaceWindowsContact
  <2> QED BY <1>1, <1>2, <1>6, <2>1, ContactsFit
<1>7. ASSUME NEW c \in TouchIds, NEW x \in Transitions, ReleaseWindowsContact(c, x)
      PROVE  RestTypes'
  <2>1. DesktopTypes' /\ UNCHANGED <<refresher, holds>>
    BY <1>3, <1>4, <1>7 DEF ReleaseWindowsContact
  <2>2. Len(slots') <= Len(slots) /\ Len(slots) \in Nat /\ Len(slots') \in Nat
    BY <1>7, ReleaseInv DEF PointerInv, PointerTypes
  <2> QED BY <1>1, <1>2, <2>1, <2>2, WindowsBounds
<1>8. ASSUME NEW to, InjectStylus(to) PROVE RestTypes'
  BY <1>1, <1>2, <1>3, <1>4, <1>8 DEF InjectStylus
<1>9. ASSUME NEW pressed \in BOOLEAN, StylusButton(pressed) PROVE RestTypes'
  <2>1. UNCHANGED <<slots, refresher, holds>>
    BY <1>9 DEF StylusButton
  <2>2. CASE stylus.active
    BY <1>1, <1>2, <1>3, <1>4, <1>9, <2>1, <2>2 DEF StylusButton
  <2>3. CASE ~stylus.active
    BY <1>1, <1>2, <1>9, <2>1, <2>3 DEF StylusButton, desktopVars, DesktopTypes
  <2> QED BY <2>2, <2>3
<1>10. ASSUME NEW p \in PointerDevices, Refresh(p) PROVE RestTypes'
  BY <1>1, <1>2, <1>3, <1>4, <1>10 DEF Refresh
<1>11. ASSUME NEW p \in PointerDevices, StopPointer(p) \/ EndRefresher(p) \/ DestroyPointer(p)
       PROVE  RestTypes'
  BY <1>11 DEF StopPointer, EndRefresher, DestroyPointer, desktopVars, RestTypes, DesktopTypes
<1>12. ASSUME NEW i \in HeldInputs, NEW pressed \in BOOLEAN, PressOrRelease(i, pressed)
       PROVE  RestTypes'
  <2>1. DesktopTypes' /\ UNCHANGED <<slots, refresher>>
    BY <1>2, <1>3, <1>12, SubmitTyped DEF PressOrRelease
  <2>2. holds' \subseteq HeldInputs
    BY <1>12 DEF PressOrRelease, RestTypes
  <2> QED BY <2>1, <2>2 DEF RestTypes, DesktopTypes
<1>13. CASE UNCHANGED winVars
  BY <1>13 DEF winVars, RestTypes, DesktopTypes
<1> QED BY <1>5, <1>6, <1>7, <1>8, <1>9, <1>10, <1>11, <1>12, <1>13
        DEF WinNext, PlaceStylus, LeaveStylus

LEMMA RestStarts == WinInit => RestTypes
<1> SUFFICES ASSUME WinInit PROVE RestTypes
  OBVIOUS
<1>1. slots = <<>> /\ Len(slots) <= MaxContacts
  BY WindowsBounds DEF WinInit
<1>2. refresher \in [PointerDevices -> {"running", "ended"}]
  BY DEF WinInit
<1> QED BY <1>1, <1>2, WindowsBounds DEF WinInit, RestTypes, DesktopTypes, WinThreads

LEMMA PointersTyped == PointerInv /\ RestTypes => WinTypeOK
<1> SUFFICES ASSUME PointerInv, RestTypes PROVE WinTypeOK
  OBVIOUS
<1>1. slots \in Seq(ContactTypes)
  BY DEF PointerInv, PointerTypes
<1>2. \A i \in 1..Len(slots) :
        /\ slots[i].id \in TouchIds /\ slots[i].touching \in BOOLEAN
        /\ slots[i].flags \subseteq EdgeFlags \cup {"range", "contact"}
  BY <1>1, ContactTyped DEF Flags
<1> QED BY <1>2 DEF PointerInv, PointerTypes, RestTypes, DesktopTypes, WinTypeOK

-----------------------------------------------------------------------------
(* The rumble: its invariant                                                 *)

Effects ==
  [running : BOOLEAN, started : BOOLEAN, magnitude : {0, 1}, duration : Nat \cup {Infinite},
   delay : Nat, asked : Nat, start : Nat, end : Nat \cup {NoTime}, putOff : BOOLEAN]

RumbleTypes ==
  /\ pidNow \in Nat
  /\ pidEffects \in [Blocks -> Effects]
  /\ enabled \in BOOLEAN /\ paused \in BOOLEAN
  /\ paused => pauseStarted \in Nat /\ pauseStarted <= pidNow
  /\ outputThread \in [step : {"reading", "found", "applied", "ended"}, tells : BOOLEAN]
  /\ timer \in [step : {"loop", "collected", "advanced", "undisturbed", "ended"},
                now : Nat, tells : BOOLEAN, until : Nat \cup {NoTime}]
  /\ timer.now <= pidNow

(* Who tells the application holds the mutex; an open gamepad is registered *)
Dispatching ==
  /\ outputThread.step = "applied" <=> dispatching = "output"
  /\ timer.step = "advanced" <=> dispatching = "timer"
  /\ padState = "open" => padRegistered

(* The timer is on its way with the effects it saw: no report has changed    *)
(* them since, or it will be woken.                                          *)
Undisturbed ==
  /\ timer.step \in {"collected", "advanced", "undisturbed"}
  /\ ~notified /\ outputThread.step # "applied"

(* What has started has done so by the time the effects were last looked at *)
Begun(e, t) == e.running /\ e.started /\ ~e.putOff => e.start <= t
LastLook == IF Undisturbed THEN timer.now ELSE pidNow
AllBegun == \A b \in Blocks : Begun(pidEffects[b], LastLook)

(* The strength is the one of that time, and the wait ends with it *)
Armed ==
  timer.step \in {"advanced", "undisturbed"} /\ Undisturbed /\ padState = "open" =>
    /\ lastStrength = Strength(pidEffects, enabled, paused, timer.now)
    /\ timer.until = NextTransition(pidEffects, paused)

(* The application knows the strength, or is about to *)
Told ==
  \/ heard = lastStrength
  \/ outputThread.step = "applied" /\ outputThread.tells
  \/ timer.step = "advanced" /\ timer.tells

(* No report is decoded before a callback is set *)
Idle(effects) == \A b \in Blocks : ~effects[b].running
Undecoded ==
  ~padCallback =>
    Idle(pidEffects) /\ lastStrength = 0 /\ heard = 0 /\ outputThread.step # "applied"

RumbleInv ==
  RumbleTypes /\ Dispatching /\ AllBegun /\ Armed /\ Told /\ Undecoded

-----------------------------------------------------------------------------
(* Effects                                                                   *)

LEMMA EffectTyped ==
  ASSUME NEW e \in Effects
  PROVE  /\ e.running \in BOOLEAN /\ e.started \in BOOLEAN /\ e.putOff \in BOOLEAN
         /\ e.magnitude \in {0, 1} /\ e.delay \in Nat /\ e.asked \in Nat /\ e.start \in Nat
         /\ e.duration \in Nat \cup {Infinite} /\ e.end \in Nat \cup {NoTime}
BY DEF Effects

LEMMA UnsetEffect == Unset \in Effects /\ ~Unset.running
BY DEF Unset, Effects, Infinite, NoTime

LEMMA HaltedEffect ==
  ASSUME NEW e \in Effects
  PROVE  Halted(e) \in Effects /\ ~Halted(e).running
BY DEF Halted, Effects

LEMMA EndedEffect ==
  ASSUME NEW e \in Effects
  PROVE  /\ EndOf(e) \in Effects
         /\ EndOf(e).running = e.running /\ EndOf(e).started = e.started
         /\ EndOf(e).putOff = e.putOff /\ EndOf(e).start = e.start
BY DEF EndOf, Effects, Infinite, NoTime

LEMMA ExpiredEffect ==
  ASSUME NEW e \in Effects, NEW t \in Nat
  PROVE  /\ Expired(e, t) \in Effects
         /\ \A u \in Nat : t <= u /\ Begun(e, u) => Begun(Expired(e, t), u)
<1> DEFINE now == e.started \/ t >= e.start
<1>1. Expired(e, t) = IF ~e.running THEN e
                      ELSE IF e.end # NoTime /\ t >= e.end THEN Halted(e)
                      ELSE [e EXCEPT !.started = now]
  BY DEF Expired
<1>2. now \in BOOLEAN /\ (now => e.started \/ e.start <= t)
  BY EffectTyped
<1> HIDE DEF now
<1>3. /\ [e EXCEPT !.started = now] \in Effects
      /\ \A u \in Nat : t <= u /\ Begun(e, u) => Begun([e EXCEPT !.started = now], u)
  <2> DEFINE d == [e EXCEPT !.started = now]
  <2>1. /\ d \in Effects /\ d.started = now /\ d.start = e.start
        /\ d.running = e.running /\ d.putOff = e.putOff
    BY <1>2 DEF Effects
  <2> HIDE DEF d
  <2>2. \A u \in Nat : t <= u /\ Begun(e, u) => Begun(d, u)
    BY <1>2, <2>1, EffectTyped DEF Begun
  <2> QED BY <2>1, <2>2 DEF d
<1>4. Halted(e) \in Effects /\ \A u \in Nat : Begun(Halted(e), u)
  BY HaltedEffect DEF Begun
<1> QED BY <1>1, <1>3, <1>4

LEMMA StartedAnew ==
  ASSUME NEW e \in Effects, NEW t \in Nat
  PROVE  StartedEffect(e, t) \in Effects /\ Begun(StartedEffect(e, t), t)
<1> DEFINE now == e.delay = 0
           start == t + e.delay
           d == [e EXCEPT !.running = TRUE, !.asked = t, !.started = now,
                          !.start = start, !.putOff = FALSE]
<1>1. StartedEffect(e, t) = EndOf(d)
  BY DEF StartedEffect
<1>2. now \in BOOLEAN /\ start \in Nat /\ (now => start <= t)
  BY EffectTyped
<1> HIDE DEF now, start
<1>3. d \in Effects /\ d.started = now /\ d.start = start
  BY <1>2 DEF Effects
<1> HIDE DEF d
<1>4. Begun(d, t)
  BY <1>2, <1>3 DEF Begun
<1> QED BY <1>1, <1>3, <1>4, EndedEffect DEF Begun

LEMMA RescheduledEffect ==
  ASSUME NEW e \in Effects, NEW t \in Nat, Begun(e, t)
  PROVE  Rescheduled(e, t) \in Effects /\ Begun(Rescheduled(e, t), t)
<1> DEFINE start == e.asked + e.delay
           now == t >= start
           d == IF e.started THEN e ELSE [e EXCEPT !.start = start, !.started = now]
<1>1. Rescheduled(e, t) = IF ~e.running THEN e ELSE Expired(EndOf(d), t)
  BY DEF Rescheduled
<1>2. now \in BOOLEAN /\ start \in Nat /\ (now => start <= t)
  BY EffectTyped
<1> HIDE DEF now, start
<1>3. d \in Effects /\ Begun(d, t)
  <2>1. CASE e.started
    BY <2>1
  <2>2. CASE ~e.started
    <3>1. d = [e EXCEPT !.start = start, !.started = now]
      BY <2>2
    <3>2. d \in Effects /\ d.start = start /\ d.started = now
      BY <3>1, <1>2 DEF Effects
    <3> QED BY <3>2, <1>2 DEF Begun
  <2> QED BY <2>1, <2>2
<1> HIDE DEF d
<1>4. EndOf(d) \in Effects /\ Begun(EndOf(d), t)
  BY <1>3, EndedEffect DEF Begun
<1> QED BY <1>1, <1>4, ExpiredEffect

LEMMA LaterEffect ==
  ASSUME NEW e \in Effects, NEW t \in Nat, NEW pause \in Nat
  PROVE  Later(e, pause, t) \in Effects /\ Begun(Later(e, pause, t), t)
<1>1. CASE ~e.running
  BY <1>1 DEF Later, Begun
<1>2. CASE e.running
  <2> DEFINE start == e.start + pause
             wanted == e.asked + pause
             end == IF e.end = NoTime THEN NoTime ELSE e.end + pause
             off == e.started /\ start > t
             d == [e EXCEPT !.putOff = off, !.asked = wanted, !.start = start, !.end = end]
  <2>1. Later(e, pause, t) = d
    BY <1>2 DEF Later
  <2>2. /\ start \in Nat /\ wanted \in Nat /\ end \in Nat \cup {NoTime} /\ off \in BOOLEAN
        /\ e.started /\ ~off => start <= t
    BY EffectTyped
  <2> HIDE DEF start, wanted, end, off
  <2>3. d \in Effects /\ d.started = e.started /\ d.start = start /\ d.putOff = off
    BY <2>2 DEF Effects
  <2> HIDE DEF d
  <2> QED BY <2>1, <2>2, <2>3 DEF Begun
<1> QED BY <1>1, <1>2

LEMMA AllExpired ==
  ASSUME NEW effects \in [Blocks -> Effects], NEW t \in Nat, NEW u \in Nat, t <= u,
         \A b \in Blocks : Begun(effects[b], u)
  PROVE  /\ ExpireEffects(effects, t) \in [Blocks -> Effects]
         /\ \A b \in Blocks : Begun(ExpireEffects(effects, t)[b], u)
         /\ Idle(effects) => ExpireEffects(effects, t) = effects
<1>1. CASE paused
  BY <1>1 DEF ExpireEffects
<1>2. CASE ~paused
  <2>1. ExpireEffects(effects, t) = [b \in Blocks |-> Expired(effects[b], t)]
    BY <1>2 DEF ExpireEffects
  <2>2. \A b \in Blocks : Expired(effects[b], t) \in Effects /\ Begun(Expired(effects[b], t), u)
    BY ExpiredEffect
  <2>3. Idle(effects) => \A b \in Blocks : Expired(effects[b], t) = effects[b]
    BY DEF Idle, Expired
  <2> QED BY <2>1, <2>2, <2>3
<1> QED BY <1>1, <1>2

LEMMA ReportTyped ==
  ASSUME NEW r \in Reports
  PROVE  /\ r.kind \in {"effect", "magnitude", "start", "solo", "stop", "free", "enable",
                        "disable", "stop_all", "reset", "pause", "continue"}
         /\ r.kind \in {"effect", "magnitude", "start", "solo", "stop", "free"} =>
              r.block \in Blocks
         /\ r.kind = "effect" => r.duration \in Nat \cup {Infinite} /\ r.delay \in Nat
         /\ r.kind = "magnitude" => r.magnitude \in {0, 1}
<1>1. CASE r \in [kind : {"effect"}, block : Blocks, duration : Durations, delay : Delays]
  BY <1>1, Spans
<1>2. CASE r \in [kind : {"magnitude"}, block : Blocks, magnitude : {0, 1}]
  BY <1>2
<1>3. CASE r \in [kind : {"start", "solo", "stop", "free"}, block : Blocks]
  BY <1>3
<1>4. CASE r \in [kind : {"enable", "disable", "stop_all", "reset", "pause", "continue"}]
  BY <1>4
<1> QED BY <1>1, <1>2, <1>3, <1>4 DEF Reports

(* What games set of an effect is typed, and what has started stays begun *)
LEMMA EffectsReported ==
  ASSUME NEW effects \in [Blocks -> Effects], NEW t \in Nat, NEW r \in Reports,
         \A b \in Blocks : Begun(effects[b], t),
         paused => pauseStarted \in Nat /\ pauseStarted <= t
  PROVE  /\ EffectsAfter(r, effects, t) \in [Blocks -> Effects]
         /\ \A b \in Blocks : Begun(EffectsAfter(r, effects, t)[b], t)
<1> DEFINE Good(e) == e \in Effects /\ Begun(e, t)
<1> SUFFICES /\ \A b \in Blocks : Good(EffectsAfter(r, effects, t)[b])
             /\ DOMAIN EffectsAfter(r, effects, t) = Blocks
             /\ EffectsAfter(r, effects, t) =
                  [b \in Blocks |-> EffectsAfter(r, effects, t)[b]]
  OBVIOUS
<1>1. \A b \in Blocks : Good(effects[b])
  OBVIOUS
<1>2. ASSUME NEW block \in Blocks, NEW e, Good(e),
             EffectsAfter(r, effects, t) = [effects EXCEPT ![block] = e]
      PROVE  /\ \A b \in Blocks : Good(EffectsAfter(r, effects, t)[b])
             /\ DOMAIN EffectsAfter(r, effects, t) = Blocks
             /\ EffectsAfter(r, effects, t) =
                  [b \in Blocks |-> EffectsAfter(r, effects, t)[b]]
  BY <1>1, <1>2 DEF Good
<1>3. CASE r.kind = "effect"
  <2> DEFINE d == [effects[r.block] EXCEPT !.duration = r.duration, !.delay = r.delay]
  <2>1. EffectsAfter(r, effects, t) = [effects EXCEPT ![r.block] = Rescheduled(d, t)]
    BY <1>3, ReportTyped DEF EffectsAfter
  <2>2. d \in Effects /\ Begun(d, t)
    <3>1. /\ effects[r.block] \in Effects /\ Begun(effects[r.block], t)
          /\ r.duration \in Nat \cup {Infinite} /\ r.delay \in Nat
      BY <1>3, ReportTyped
    <3> QED BY <3>1 DEF Effects, Begun
  <2>3. Good(Rescheduled(d, t))
    BY <2>2, RescheduledEffect
  <2> QED BY <1>2, <1>3, <2>1, <2>3, ReportTyped
<1>4. CASE r.kind = "magnitude"
  <2> DEFINE d == [effects[r.block] EXCEPT !.magnitude = r.magnitude]
  <2>1. EffectsAfter(r, effects, t) = [effects EXCEPT ![r.block] = d]
    BY <1>4, ReportTyped DEF EffectsAfter
  <2>2. d \in Effects /\ Begun(d, t)
    BY <1>4, ReportTyped DEF Effects, Begun
  <2> QED BY <1>2, <1>4, <2>1, <2>2, ReportTyped
<1>5. CASE r.kind = "start"
  <2>1. EffectsAfter(r, effects, t) =
          [effects EXCEPT ![r.block] = StartedEffect(effects[r.block], t)]
    BY <1>5, ReportTyped DEF EffectsAfter
  <2>2. Good(StartedEffect(effects[r.block], t))
    BY <1>5, ReportTyped, StartedAnew
  <2> QED BY <1>2, <1>5, <2>1, <2>2, ReportTyped
<1>6. CASE r.kind = "solo"
  <2> DEFINE halted == [b \in Blocks |-> Halted(effects[b])]
  <2>1. EffectsAfter(r, effects, t) =
          [halted EXCEPT ![r.block] = StartedEffect(halted[r.block], t)]
    BY <1>6 DEF EffectsAfter
  <2>2. \A b \in Blocks : Good(halted[b])
    BY HaltedEffect DEF Begun
  <2>3. r.block \in Blocks /\ Good(StartedEffect(halted[r.block], t))
    BY <1>6, <2>2, ReportTyped, StartedAnew
  <2> HIDE DEF Good
  <2> QED BY <2>1, <2>2, <2>3
<1>7. CASE r.kind = "stop"
  <2>1. EffectsAfter(r, effects, t) = [effects EXCEPT ![r.block] = Halted(effects[r.block])]
    BY <1>7, ReportTyped DEF EffectsAfter
  <2>2. Good(Halted(effects[r.block]))
    BY <1>7, ReportTyped, HaltedEffect DEF Begun
  <2> QED BY <1>2, <1>7, <2>1, <2>2, ReportTyped
<1>8. CASE r.kind = "free"
  <2>1. EffectsAfter(r, effects, t) = [effects EXCEPT ![r.block] = Unset]
    BY <1>8 DEF EffectsAfter
  <2>2. Good(Unset)
    BY UnsetEffect DEF Begun
  <2> QED BY <1>2, <1>8, <2>1, <2>2, ReportTyped
<1>9. CASE r.kind = "stop_all"
  <2>1. EffectsAfter(r, effects, t) = [b \in Blocks |-> Halted(effects[b])]
    BY <1>9 DEF EffectsAfter
  <2>2. \A b \in Blocks : Good(Halted(effects[b]))
    BY HaltedEffect DEF Begun
  <2> HIDE DEF Good
  <2> QED BY <2>1, <2>2
<1>10. CASE r.kind = "reset"
  <2>1. EffectsAfter(r, effects, t) = [b \in Blocks |-> Unset]
    BY <1>10 DEF EffectsAfter
  <2>2. Good(Unset)
    BY UnsetEffect DEF Begun
  <2> HIDE DEF Good
  <2> QED BY <2>1, <2>2
<1>11. CASE r.kind = "continue"
  <2>1. EffectsAfter(r, effects, t) = Continued(effects, t)
    BY <1>11 DEF EffectsAfter
  <2>2. CASE ~paused
    BY <2>1, <2>2, <1>1 DEF Continued
  <2>3. CASE paused
    <3>1. t - pauseStarted \in Nat
      BY <2>3
    <3>2. \A b \in Blocks : Good(Later(effects[b], t - pauseStarted, t))
      BY <3>1, LaterEffect
    <3>3. EffectsAfter(r, effects, t) =
            [b \in Blocks |-> Later(effects[b], t - pauseStarted, t)]
      BY <2>1, <2>3 DEF Continued
    <3> HIDE DEF Good
    <3> QED BY <3>2, <3>3
  <2> QED BY <2>2, <2>3
<1>12. CASE r.kind \in {"enable", "disable", "pause"}
  <2>1. EffectsAfter(r, effects, t) = effects
    BY <1>12 DEF EffectsAfter
  <2> QED BY <2>1, <1>1
<1> HIDE DEF Good
<1> QED BY <1>3, <1>4, <1>5, <1>6, <1>7, <1>8, <1>9, <1>10, <1>11, <1>12, ReportTyped

-----------------------------------------------------------------------------
(* The strength                                                              *)

LEMMA NoForce == ASSUME NEW f PROVE SumFunctionOnSet(f, {}) = 0
<1> DEFINE Sum(iter) ==
             iter = [s \in SUBSET {} |->
                       IF s = {} THEN 0
                       ELSE f[CHOOSE x \in s : TRUE] + iter[s \ {CHOOSE x \in s : TRUE}]]
<1>1. SumFunctionOnSet(f, {}) = (CHOOSE iter : Sum(iter))[{}]
  BY DEF SumFunctionOnSet, FoldFunctionOnSet, MapThenFoldSet
<1>2. Sum([s \in SUBSET {} |-> 0])
  <2>1. \A s \in SUBSET {} : s = {}
    OBVIOUS
  <2> QED BY <2>1
<1>3. Sum(CHOOSE iter : Sum(iter))
  <2> HIDE DEF Sum
  <2> QED BY <1>2
<1>4. ASSUME NEW iter, Sum(iter) PROVE iter[{}] = 0
  <2>1. {} \in SUBSET {}
    OBVIOUS
  <2> QED BY <1>4, <2>1
<1> HIDE DEF Sum
<1> QED BY <1>1, <1>3, <1>4

LEMMA IdleStrength ==
  ASSUME NEW effects, Idle(effects), NEW on, NEW halt, NEW t
  PROVE  Strength(effects, on, halt, t) = 0
<1>1. {b \in Blocks : Sounds(effects[b], t)} = {}
  BY DEF Idle, Sounds
<1> QED BY <1>1, NoForce DEF Strength

LEMMA SmallestTime ==
  ASSUME NEW times \in SUBSET Nat, times # {}
  PROVE  \E t \in times : \A u \in times : t <= u
<1>1. PICK t \in times : \A u \in times : ~ (<<u, t>> \in OpToRel(<, Nat))
  BY WFMin, NatLessThanWellFounded
<1>2. \A u \in times : ~ (u < t)
  BY <1>1 DEF OpToRel
<1> QED BY <1>2

LEMMA NextTime ==
  ASSUME NEW effects \in [Blocks -> Effects], NEW halt
  PROVE  /\ NextTransition(effects, halt) \in Nat \cup {NoTime}
         /\ \A b \in Blocks :
              LET e == effects[b]
                  t == IF e.started THEN e.end ELSE e.start
              IN ~halt /\ e.running /\ t # NoTime =>
                   NextTransition(effects, halt) \in Nat /\ NextTransition(effects, halt) <= t
<1> DEFINE Time(b) == IF effects[b].started THEN effects[b].end ELSE effects[b].start
           times == {Time(b) : b \in {c \in Blocks : effects[c].running}} \ {NoTime}
<1>1. NextTransition(effects, halt) =
        IF halt \/ times = {} THEN NoTime
        ELSE CHOOSE t \in times : \A u \in times : t <= u
  BY DEF NextTransition
<1>2. \A b \in Blocks : Time(b) \in Nat \cup {NoTime}
  BY EffectTyped
<1>3. times \in SUBSET Nat
  BY <1>2
<1>4. \A b \in Blocks : effects[b].running /\ Time(b) # NoTime => Time(b) \in times
  OBVIOUS
<1> HIDE DEF Time, times
<1>5. ASSUME ~halt, times # {}
      PROVE  /\ NextTransition(effects, halt) \in times
             /\ \A u \in times : NextTransition(effects, halt) <= u
  BY <1>1, <1>3, <1>5, SmallestTime
<1>6. \A b \in Blocks : ~halt /\ effects[b].running /\ Time(b) # NoTime =>
        NextTransition(effects, halt) \in Nat /\ NextTransition(effects, halt) <= Time(b)
  BY <1>3, <1>4, <1>5
<1>7. NextTransition(effects, halt) \in Nat \cup {NoTime}
  BY <1>1, <1>3, <1>5
<1> QED BY <1>6, <1>7 DEF Time

(* Until its next transition, the strength of effects that have begun stays *)
LEMMA SameStrength ==
  ASSUME NEW effects \in [Blocks -> Effects], NEW t \in Nat, NEW u \in Nat, t <= u,
         \A b \in Blocks : Begun(effects[b], t),
         \A b \in Blocks : ~(effects[b].running /\ effects[b].putOff),
         NextTransition(effects, paused) = NoTime \/ u < NextTransition(effects, paused)
  PROVE  Strength(ExpireEffects(effects, u), enabled, paused, u)
           = Strength(effects, enabled, paused, t)
<1>1. CASE paused
  BY <1>1 DEF Strength
<1>2. CASE ~paused
  <2> DEFINE after == ExpireEffects(effects, u)
  <2>1. after = [b \in Blocks |-> Expired(effects[b], u)]
    BY <1>2 DEF ExpireEffects
  <2>2. ASSUME NEW b \in Blocks
        PROVE  /\ Sounds(after[b], u) <=> Sounds(effects[b], t)
               /\ after[b].magnitude = effects[b].magnitude
    <3> DEFINE e == effects[b]
    <3>1. e \in Effects /\ after[b] = Expired(e, u)
      BY <2>1
    <3>2. CASE ~e.running
      BY <3>1, <3>2 DEF Expired, Sounds
    <3>3. CASE e.running /\ e.started
      <4>1. e.end = NoTime \/ u < e.end
        BY <1>2, <3>1, <3>3, NextTime, EffectTyped DEF NoTime
      <4>2. [e EXCEPT !.started = e.started \/ u >= e.start] = e
        BY <3>1, <3>3 DEF Effects
      <4>3. after[b] = e
        BY <3>1, <3>3, <4>1, <4>2, EffectTyped DEF Expired, NoTime
      <4>4. e.start <= t
        BY <3>3 DEF Begun
      <4> QED BY <3>1, <3>3, <4>3, <4>4, EffectTyped DEF Sounds
    <3>4. CASE e.running /\ ~e.started
      <4>1. u < e.start
        BY <1>2, <3>1, <3>4, NextTime, EffectTyped DEF NoTime
      <4>2. [e EXCEPT !.started = e.started \/ u >= e.start] = e
        BY <3>1, <3>4, <4>1 DEF Effects
      <4>3. after[b] \in {e, Halted(e)}
        BY <3>1, <3>4, <4>2 DEF Expired
      <4>4. ~Sounds(e, u) /\ ~Sounds(e, t) /\ ~Sounds(Halted(e), u)
        BY <3>1, <3>4, HaltedEffect DEF Sounds
      <4>5. Halted(e).magnitude = e.magnitude
        BY <3>1 DEF Halted, Effects
      <4> QED BY <4>3, <4>4, <4>5
    <3> QED BY <3>2, <3>3, <3>4, <3>1, EffectTyped
  <2> HIDE DEF after
  <2>3. {b \in Blocks : Sounds(after[b], u)} = {b \in Blocks : Sounds(effects[b], t)}
    BY <2>2
  <2>4. [b \in Blocks |-> after[b].magnitude] = [b \in Blocks |-> effects[b].magnitude]
    BY <2>2
  <2>5. Strength(after, enabled, paused, u) = Strength(effects, enabled, paused, t)
    BY <2>3, <2>4 DEF Strength
  <2> QED BY <2>5 DEF after
<1> QED BY <1>1, <1>2

-----------------------------------------------------------------------------
(* Its steps                                                                 *)

LEMMA BegunStays ==
  ASSUME RumbleTypes, AllBegun, pidEffects' = pidEffects, pidNow' \in Nat, pidNow <= pidNow',
         LastLook' = LastLook \/ LastLook' = pidNow'
  PROVE  AllBegun'
<1>1. LastLook \in Nat /\ LastLook' \in Nat /\ LastLook <= LastLook'
  BY DEF RumbleTypes, LastLook
<1> QED BY <1>1, EffectTyped DEF AllBegun, Begun, RumbleTypes

LEMMA TickInv == ASSUME RumbleInv, Tick PROVE RumbleInv'
<1> USE DEF Tick, padVars, pidState
<1>1. RumbleTypes'
  BY DEF RumbleInv, RumbleTypes
<1>2. Dispatching' /\ Told' /\ Undecoded'
  BY DEF RumbleInv, Dispatching, Told, Undecoded
<1>3. AllBegun'
  BY BegunStays DEF RumbleInv, RumbleTypes, LastLook, Undisturbed
<1>4. Armed'
  BY DEF RumbleInv, Armed, Undisturbed
<1> QED BY <1>1, <1>2, <1>3, <1>4 DEF RumbleInv

(* The gamepad is created, opened and closed *)
LEMMA GamepadInv ==
  ASSUME RumbleInv,
         CreateDriverGamepad \/ RegisterGamepad \/ SetPadCallback
           \/ MarkClosed \/ ForgetGamepad \/ DestroyDriverGamepad
  PROVE  RumbleInv'
<1> USE DEF CreateDriverGamepad, RegisterGamepad, SetPadCallback, MarkClosed, ForgetGamepad,
            DestroyDriverGamepad, pidState
<1>1. RumbleTypes'
  BY DEF RumbleInv, RumbleTypes
<1>2. Dispatching' /\ Told' /\ Undecoded'
  BY DEF RumbleInv, Dispatching, Told, Undecoded
<1>3. AllBegun'
  BY BegunStays DEF RumbleInv, RumbleTypes, LastLook, Undisturbed
<1>4. Armed'
  BY DEF RumbleInv, Armed, Undisturbed, Dispatching
<1> QED BY <1>1, <1>2, <1>3, <1>4 DEF RumbleInv

(* The context starts and stops *)
LEMMA ContextInv ==
  ASSUME RumbleInv, StartContext \/ StopContext \/ ContextStopped
  PROVE  RumbleInv'
<1> USE DEF StartContext, StopContext, ContextStopped, pidState, padVars
<1>1. RumbleTypes'
  BY DEF RumbleInv, RumbleTypes
<1>2. Dispatching' /\ Told' /\ Undecoded'
  BY DEF RumbleInv, Dispatching, Told, Undecoded
<1>3. AllBegun'
  BY BegunStays DEF RumbleInv, RumbleTypes, LastLook, Undisturbed
<1>4. Armed'
  BY DEF RumbleInv, Armed, Undisturbed
<1> QED BY <1>1, <1>2, <1>3, <1>4 DEF RumbleInv

(* The thread that reads the output, but for the report it applies *)
LEMMA OutputInv ==
  ASSUME RumbleInv, ReadOutput \/ TellOutput \/ OutputLoopEnds
  PROVE  RumbleInv'
<1> USE DEF ReadOutput, TellOutput, OutputLoopEnds, pidState, padVars
<1>1. RumbleTypes'
  <2>1. outputThread' \in [step : {"reading", "found", "applied", "ended"}, tells : BOOLEAN]
    <3>1. CASE ReadOutput
      BY <3>1 DEF RumbleInv, RumbleTypes
    <3>2. CASE TellOutput
      BY <3>2 DEF RumbleInv, RumbleTypes
    <3>3. CASE OutputLoopEnds
      BY <3>3 DEF RumbleInv, RumbleTypes
    <3> QED BY <3>1, <3>2, <3>3
  <2> QED BY <2>1 DEF RumbleInv, RumbleTypes
<1>2. Dispatching' /\ Told' /\ Undecoded'
  BY DEF RumbleInv, RumbleTypes, Dispatching, Told, Undecoded
<1>3. AllBegun'
  BY BegunStays DEF RumbleInv, RumbleTypes, LastLook, Undisturbed
<1>4. Armed'
  BY DEF RumbleInv, RumbleTypes, Armed, Undisturbed
<1> QED BY <1>1, <1>2, <1>3, <1>4 DEF RumbleInv

(* The thread of the timer, but for the effects it looks at *)
LEMMA TimerReadsInv == ASSUME RumbleInv, TimerReads PROVE RumbleInv'
<1> USE DEF TimerReads, pidState, padVars
<1>1. /\ timer' \in [step : {"loop", "collected", "advanced", "undisturbed", "ended"},
                     now : Nat, tells : BOOLEAN, until : Nat \cup {NoTime}]
      /\ timer'.now = pidNow /\ timer'.step \in {"collected", "undisturbed"}
      /\ timer'.step = "undisturbed" => ~padRegistered
  BY DEF RumbleInv, RumbleTypes, NoTime
<1>2. timer.step = "loop" /\ UNCHANGED <<pidNow, padVars, pidState, outputThread, dispatching, heard>>
  OBVIOUS
<1> USE <1>1, <1>2
<1>3. RumbleTypes'
  BY DEF RumbleInv, RumbleTypes
<1>4. Dispatching' /\ Told' /\ Undecoded'
  BY DEF RumbleInv, Dispatching, Told, Undecoded
<1>5. AllBegun'
  BY BegunStays DEF RumbleInv, RumbleTypes, LastLook
<1>6. Armed'
  BY DEF RumbleInv, Armed, Dispatching
<1> QED BY <1>3, <1>4, <1>5, <1>6 DEF RumbleInv

LEMMA TimerMovesInv ==
  ASSUME RumbleInv, TimerTells \/ TimerWakes \/ TimerLoopEnds
  PROVE  RumbleInv'
<1>1. /\ timer' \in [step : {"loop", "collected", "advanced", "undisturbed", "ended"},
                     now : Nat, tells : BOOLEAN, until : Nat \cup {NoTime}]
      /\ timer'.now <= pidNow
      /\ timer'.step \in {"loop", "undisturbed", "ended"}
  <2>1. CASE TimerTells
    BY <2>1 DEF RumbleInv, RumbleTypes, TimerTells
  <2>2. CASE TimerWakes
    <3>1. timer' = [timer EXCEPT !.step = "loop", !.until = NoTime, !.now = 0]
      BY <2>2 DEF TimerWakes
    <3>2. 0 <= pidNow
      BY DEF RumbleInv, RumbleTypes
    <3> QED BY <3>1, <3>2 DEF RumbleInv, RumbleTypes
  <2>3. CASE TimerLoopEnds
    BY <2>3 DEF RumbleInv, RumbleTypes, TimerLoopEnds
  <2> QED BY <2>1, <2>2, <2>3
<1>2. timer'.step = "undisturbed" =>
        /\ timer.step = "advanced" /\ timer'.now = timer.now /\ timer'.until = timer.until
        /\ dispatching' = "none"
  BY DEF RumbleInv, RumbleTypes, TimerTells, TimerWakes, TimerLoopEnds
<1>3. /\ heard' = IF timer.step = "advanced" /\ timer.tells THEN lastStrength ELSE heard
      /\ dispatching' = IF timer.step = "advanced" THEN "none" ELSE dispatching
      /\ UNCHANGED <<pidNow, padVars, pidState, outputThread, notified>>
  BY DEF TimerTells, TimerWakes, TimerLoopEnds
<1> USE <1>1, <1>3 DEF pidState, padVars
<1>4. RumbleTypes'
  BY DEF RumbleInv, RumbleTypes
<1>5. Dispatching' /\ Told' /\ Undecoded'
  BY DEF RumbleInv, Dispatching, Told, Undecoded
<1>6. AllBegun'
  BY <1>2, BegunStays DEF RumbleInv, RumbleTypes, LastLook, Undisturbed
<1>7. Armed'
  BY <1>2 DEF RumbleInv, Armed, Undisturbed
<1> QED BY <1>4, <1>5, <1>6, <1>7 DEF RumbleInv

LEMMA ApplyInv == ASSUME RumbleInv, ApplyOutput PROVE RumbleInv'
<1>1. CASE padState = "open" /\ padCallback
  <2>1. PICK r \in Reports :
          /\ HandleOutputReport(r, pidNow)
          /\ outputThread' = [step |-> "applied",
                              tells |-> TellsOf(r, ExpireEffects(pidEffects, pidNow))]
    BY <1>1 DEF ApplyOutput
  <2>2. /\ dispatching' = "output" /\ dispatching = "none"
        /\ UNCHANGED <<pidNow, padVars, timer, notified, heard>>
    BY <1>1 DEF ApplyOutput
  <2> DEFINE before == ExpireEffects(pidEffects, pidNow)
             tells == TellsOf(r, before)
  <2>3. /\ before \in [Blocks -> Effects]
        /\ \A b \in Blocks : Begun(before[b], pidNow)
    <3>1. \A b \in Blocks : Begun(pidEffects[b], pidNow)
      BY EffectTyped DEF RumbleInv, RumbleTypes, AllBegun, LastLook, Begun
    <3> QED BY <3>1, AllExpired DEF RumbleInv, RumbleTypes
  <2>4. tells \in BOOLEAN
    BY <2>3, EffectTyped, ReportTyped DEF TellsOf
  <2>5. /\ outputThread' = [step |-> "applied", tells |-> tells]
        /\ lastStrength' # lastStrength => tells
        /\ pidEffects' = EffectsAfter(r, before, pidNow)
    BY <2>1 DEF HandleOutputReport
  <2>6. /\ enabled' \in BOOLEAN /\ paused' \in BOOLEAN
        /\ paused' => pauseStarted' \in Nat /\ pauseStarted' <= pidNow
    <3> HIDE DEF before, tells
    <3>1. /\ enabled' = CASE r.kind \in {"enable", "reset"} -> TRUE
                          [] r.kind = "disable" -> FALSE
                          [] OTHER -> enabled
          /\ paused' = CASE r.kind = "pause" -> TRUE
                         [] r.kind \in {"continue", "reset"} -> FALSE
                         [] OTHER -> paused
          /\ pauseStarted' = CASE r.kind = "pause" /\ ~paused -> pidNow
                               [] r.kind \in {"continue", "reset"} -> NoTime
                               [] OTHER -> pauseStarted
      BY <2>1 DEF HandleOutputReport
    <3>2. /\ enabled \in BOOLEAN /\ paused \in BOOLEAN /\ pidNow \in Nat
          /\ paused => pauseStarted \in Nat /\ pauseStarted <= pidNow
      BY DEF RumbleInv, RumbleTypes
    <3>3. enabled' \in BOOLEAN /\ paused' \in BOOLEAN
      BY ONLY <3>1, <3>2
    <3>4. paused' => pauseStarted' \in Nat /\ pauseStarted' <= pidNow
      <4>1. CASE r.kind = "pause"
        <5>1. pauseStarted' = IF ~paused THEN pidNow ELSE pauseStarted
          BY ONLY <3>1, <4>1
        <5> QED BY ONLY <3>2, <5>1
      <4>2. CASE r.kind \in {"continue", "reset"}
        <5>1. paused' = FALSE
          BY ONLY <3>1, <4>2
        <5> QED BY ONLY <5>1
      <4>3. CASE r.kind \notin {"pause", "continue", "reset"}
        <5>1. paused' = paused /\ pauseStarted' = pauseStarted
          BY ONLY <3>1, <4>3
        <5> QED BY ONLY <3>2, <5>1
      <4> QED BY ONLY <4>1, <4>2, <4>3
    <3> QED BY <3>3, <3>4
  <2> HIDE DEF before, tells
  <2>7. /\ pidEffects' \in [Blocks -> Effects]
        /\ \A b \in Blocks : Begun(pidEffects'[b], pidNow)
    BY <2>3, <2>5, EffectsReported DEF RumbleInv, RumbleTypes
  <2> USE <2>2, <2>4, <2>5 DEF padVars
  <2>8. RumbleTypes'
    BY <2>6, <2>7 DEF RumbleInv, RumbleTypes
  <2>9. Dispatching' /\ Told' /\ Undecoded'
    BY <1>1 DEF RumbleInv, Dispatching, Told, Undecoded
  <2>10. AllBegun'
    BY <2>7 DEF AllBegun, LastLook, Undisturbed
  <2>11. Armed'
    BY DEF Armed, Undisturbed
  <2> QED BY <2>8, <2>9, <2>10, <2>11 DEF RumbleInv
<1>2. CASE ~(padState = "open" /\ padCallback)
  <2>1. /\ outputThread' = [outputThread EXCEPT !.step = "reading"]
        /\ outputThread.step = "found"
        /\ UNCHANGED <<pidState, dispatching, pidNow, padVars, timer, notified, heard>>
    BY <1>2 DEF ApplyOutput
  <2> USE <2>1 DEF pidState, padVars
  <2>2. RumbleTypes'
    BY DEF RumbleInv, RumbleTypes
  <2>3. Dispatching' /\ Told' /\ Undecoded'
    BY DEF RumbleInv, RumbleTypes, Dispatching, Told, Undecoded
  <2>4. AllBegun'
    BY BegunStays DEF RumbleInv, RumbleTypes, LastLook, Undisturbed
  <2>5. Armed'
    BY DEF RumbleInv, RumbleTypes, Armed, Undisturbed
  <2> QED BY <2>2, <2>3, <2>4, <2>5 DEF RumbleInv
<1> QED BY <1>1, <1>2

LEMMA AdvanceInv == ASSUME RumbleInv, TimerAdvances PROVE RumbleInv'
<1> DEFINE effects == ExpireEffects(pidEffects, timer.now)
           strength == Strength(effects, enabled, paused, timer.now)
           tells == strength # lastStrength /\ padCallback
           until == NextTransition(effects, paused)
<1>1. /\ timer.step = "collected" /\ dispatching = "none"
      /\ UNCHANGED <<pidNow, padVars, enabled, paused, pauseStarted, outputThread,
                     notified, heard>>
  BY DEF TimerAdvances
<1> USE <1>1 DEF padVars
<1>2. CASE padState = "open"
  <2>1. /\ pidEffects' = effects /\ lastStrength' = strength /\ dispatching' = "timer"
        /\ timer' = [timer EXCEPT !.step = "advanced", !.tells = tells, !.until = until]
    BY <1>2 DEF TimerAdvances
  <2>2. /\ effects \in [Blocks -> Effects]
        /\ \A b \in Blocks : Begun(effects[b], LastLook)
        /\ Idle(pidEffects) => effects = pidEffects
    BY AllExpired DEF RumbleInv, RumbleTypes, AllBegun, LastLook
  <2>3. until \in Nat \cup {NoTime} /\ tells \in BOOLEAN
    BY <2>2, NextTime DEF RumbleInv, RumbleTypes
  <2>4. ~padCallback => Idle(effects) /\ strength = 0
    BY <2>2, IdleStrength DEF RumbleInv, Undecoded
  <2>5. lastStrength # strength => tells \/ ~padCallback
    OBVIOUS
  <2> HIDE DEF tells, until
  <2>6. /\ timer' \in [step : {"loop", "collected", "advanced", "undisturbed", "ended"},
                       now : Nat, tells : BOOLEAN, until : Nat \cup {NoTime}]
        /\ timer'.now = timer.now /\ timer'.step = "advanced"
        /\ timer'.tells = tells /\ timer'.until = until
    BY <2>1, <2>3 DEF RumbleInv, RumbleTypes
  <2> HIDE DEF effects
  <2>7. RumbleTypes'
    BY <2>1, <2>2, <2>6 DEF RumbleInv, RumbleTypes
  <2>8. outputThread.step # "applied"
    BY DEF RumbleInv, Dispatching
  <2>9. Dispatching'
    BY <1>2, <2>1, <2>6, <2>8 DEF RumbleInv, Dispatching
  <2>10. Told' /\ Undecoded'
    BY <2>1, <2>4, <2>5, <2>6, <2>8 DEF RumbleInv, Told, Undecoded
  <2>11. AllBegun'
    BY <2>1, <2>2, <2>6, <2>8 DEF AllBegun, LastLook, Undisturbed
  <2>12. Armed'
    BY <2>1, <2>6 DEF Armed, until
  <2> QED BY <2>7, <2>9, <2>10, <2>11, <2>12 DEF RumbleInv
<1>3. CASE padState # "open"
  <2>1. /\ timer' = [timer EXCEPT !.step = "undisturbed"]
        /\ UNCHANGED <<pidEffects, lastStrength, dispatching>>
    BY <1>3 DEF TimerAdvances
  <2>2. /\ timer' \in [step : {"loop", "collected", "advanced", "undisturbed", "ended"},
                       now : Nat, tells : BOOLEAN, until : Nat \cup {NoTime}]
        /\ timer'.now = timer.now /\ timer'.step = "undisturbed"
    BY <2>1 DEF RumbleInv, RumbleTypes
  <2>3. RumbleTypes'
    BY <2>1, <2>2 DEF RumbleInv, RumbleTypes
  <2>4. Dispatching' /\ Told' /\ Undecoded'
    BY <2>1, <2>2 DEF RumbleInv, Dispatching, Told, Undecoded
  <2>5. AllBegun'
    BY <2>1, <2>2, BegunStays DEF RumbleInv, RumbleTypes, LastLook, Undisturbed
  <2>6. Armed'
    BY <1>3 DEF Armed
  <2> QED BY <2>3, <2>4, <2>5, <2>6 DEF RumbleInv
<1> QED BY <1>2, <1>3

LEMMA RumbleStarts == PidInit => RumbleInv
<1> SUFFICES ASSUME PidInit PROVE RumbleInv
  OBVIOUS
<1> USE DEF PidInit
<1>1. pidEffects \in [Blocks -> Effects] /\ Idle(pidEffects)
  BY UnsetEffect DEF Idle
<1>2. RumbleTypes
  <2>1. /\ outputThread \in [step : {"reading", "found", "applied", "ended"}, tells : BOOLEAN]
        /\ timer \in [step : {"loop", "collected", "advanced", "undisturbed", "ended"},
                      now : Nat, tells : BOOLEAN, until : Nat \cup {NoTime}]
    OBVIOUS
  <2>2. timer.now <= pidNow /\ pidNow \in Nat
    OBVIOUS
  <2> QED BY <1>1, <2>1, <2>2 DEF RumbleTypes
<1>3. AllBegun
  BY <1>1 DEF AllBegun, Begun, Idle
<1>4. Dispatching /\ Armed /\ Told /\ Undecoded
  BY <1>1 DEF Dispatching, Armed, Told, Undecoded
<1> QED BY <1>2, <1>3, <1>4 DEF RumbleInv

LEMMA RumbleKept == RumbleInv /\ [PidNext]_pidVars => RumbleInv'
<1> SUFFICES ASSUME RumbleInv, [PidNext]_pidVars PROVE RumbleInv'
  OBVIOUS
<1>1. CASE Tick
  BY <1>1, TickInv
<1>2. CASE CreateDriverGamepad \/ RegisterGamepad \/ SetPadCallback
             \/ MarkClosed \/ ForgetGamepad \/ DestroyDriverGamepad
  BY <1>2, GamepadInv
<1>3. CASE StartContext \/ StopContext \/ ContextStopped
  BY <1>3, ContextInv
<1>4. CASE ReadOutput \/ TellOutput \/ OutputLoopEnds
  BY <1>4, OutputInv
<1>5. CASE TimerReads
  BY <1>5, TimerReadsInv
<1>6. CASE TimerTells \/ TimerWakes \/ TimerLoopEnds
  BY <1>6, TimerMovesInv
<1>7. CASE ApplyOutput
  BY <1>7, ApplyInv
<1>8. CASE TimerAdvances
  BY <1>8, AdvanceInv
<1>9. CASE UNCHANGED pidVars
  BY <1>9 DEF pidVars, RumbleInv, RumbleTypes, Dispatching, AllBegun, LastLook, Armed,
              Undisturbed, Told, Undecoded
<1> QED BY <1>1, <1>2, <1>3, <1>4, <1>5, <1>6, <1>7, <1>8, <1>9 DEF PidNext, PidThreadStep

LEMMA RumbleSafe == PidSpec => []RumbleInv
BY RumbleStarts, RumbleKept, PTL DEF PidSpec

(* Whatever effects games set, start, put off and stop while the timer looks *)
(* at them: once it waits undisturbed for a moment still to come, the        *)
(* application knows the strength of the present one (windows_backend.cpp    *)
(* 1089-1207).                                                               *)
THEOREM RumbleKnown == PidSpec => []RumbleUpToDate
<1>1. RumbleInv => RumbleUpToDate
  <2> SUFFICES ASSUME RumbleInv,
                      timer.step = "undisturbed", ~notified,
                      timer.until = NoTime \/ pidNow < timer.until,
                      outputThread.step # "applied", padState = "open", ~PutOffTooFar
               PROVE  heard = Strength(ExpireEffects(pidEffects, pidNow),
                                       enabled, paused, pidNow)
    BY DEF RumbleUpToDate
  <2>1. /\ lastStrength = Strength(pidEffects, enabled, paused, timer.now)
        /\ timer.until = NextTransition(pidEffects, paused)
    BY DEF RumbleInv, Armed, Undisturbed
  <2>2. \A b \in Blocks : Begun(pidEffects[b], timer.now)
    BY DEF RumbleInv, AllBegun, LastLook, Undisturbed
  <2>3. \A b \in Blocks : ~(pidEffects[b].running /\ pidEffects[b].putOff)
    BY DEF PutOffTooFar
  <2>4. Strength(ExpireEffects(pidEffects, pidNow), enabled, paused, pidNow)
          = Strength(pidEffects, enabled, paused, timer.now)
    BY <2>1, <2>2, <2>3, SameStrength DEF RumbleInv, RumbleTypes
  <2>5. heard = lastStrength
    BY DEF RumbleInv, Told
  <2> QED BY <2>1, <2>4, <2>5
<1> QED BY <1>1, RumbleSafe, PTL

-----------------------------------------------------------------------------
(* The types of the rumble.  Magnitudes are 0 or 1, so that a sum of them    *)
(* counts effects, and the application hears no more than there are blocks.  *)

LEMMA ForcesCounted ==
  ASSUME NEW S, IsFiniteSet(S), NEW D, S \subseteq D, NEW f \in [D -> {0, 1}]
  PROVE  SumFunctionOnSet(f, S) = Cardinality({x \in S : f[x] = 1})
<1> DEFINE Some(s) == CHOOSE x \in s : TRUE
           Ones(s) == {x \in s : f[x] = 1}
           Value(iter, s) == IF s = {} THEN 0 ELSE f[Some(s)] + iter[s \ {Some(s)}]
           Sum(iter) == iter = [s \in SUBSET S |-> Value(iter, s)]
           count == [s \in SUBSET S |-> Cardinality(Ones(s))]
<1>1. SumFunctionOnSet(f, S) = (CHOOSE iter : Sum(iter))[S]
  BY DEF SumFunctionOnSet, FoldFunctionOnSet, MapThenFoldSet
<1>2. ASSUME NEW s \in SUBSET S, s # {}
      PROVE  /\ s \ {Some(s)} \in SUBSET S
             /\ Cardinality(s) \in Nat \ {0}
             /\ Cardinality(s \ {Some(s)}) = Cardinality(s) - 1
             /\ Cardinality(Ones(s)) = f[Some(s)] + Cardinality(Ones(s \ {Some(s)}))
  <2> DEFINE x == Some(s)
  <2>1. x \in s /\ f[x] \in {0, 1}
    BY <1>2
  <2> HIDE DEF x
  <2>2. IsFiniteSet(s) /\ IsFiniteSet(Ones(s)) /\ IsFiniteSet(Ones(s \ {x}))
    BY FS_Subset
  <2>3. Cardinality(s) \in Nat /\ Cardinality(s) # 0
    BY <1>2, <2>2, FS_CardinalityType, FS_EmptySet
  <2>4. Cardinality(s \ {x}) = Cardinality(s) - 1
    BY <2>1, <2>2, FS_RemoveElement
  <2>5. Cardinality(Ones(s)) = f[x] + Cardinality(Ones(s \ {x}))
    <3>1. Cardinality(Ones(s)) \in Nat
      BY <2>2, FS_CardinalityType
    <3>2. CASE f[x] = 1
      <4>1. Ones(s \ {x}) = Ones(s) \ {x} /\ x \in Ones(s)
        BY <2>1, <3>2
      <4>2. Cardinality(Ones(s) \ {x}) = Cardinality(Ones(s)) - 1
        BY <2>2, <4>1, FS_RemoveElement
      <4>3. Cardinality(Ones(s \ {x})) = Cardinality(Ones(s)) - 1
        BY <4>1, <4>2
      <4> HIDE DEF Ones
      <4> QED BY <3>1, <3>2, <4>3
    <3>3. CASE f[x] = 0
      <4>1. Ones(s \ {x}) = Ones(s)
        BY <3>3
      <4> HIDE DEF Ones
      <4> QED BY <3>1, <3>3, <4>1
    <3> QED BY <2>1, <3>2, <3>3
  <2> QED BY <2>3, <2>4, <2>5 DEF x
<1>3. Cardinality(Ones({})) = 0
  <2>1. Ones({}) = {}
    OBVIOUS
  <2> QED BY <2>1, FS_EmptySet
<1>4. \A s \in SUBSET S : Value(count, s) = Cardinality(Ones(s))
  <2> TAKE s \in SUBSET S
  <2>1. CASE s = {}
    BY <1>3, <2>1
  <2>2. CASE s # {}
    <3>1. s \ {Some(s)} \in SUBSET S
      BY <1>2, <2>2
    <3>2. count[s \ {Some(s)}] = Cardinality(Ones(s \ {Some(s)}))
      BY <3>1
    <3> HIDE DEF count, Ones, Some
    <3> QED BY <1>2, <2>2, <3>2
  <2> QED BY <2>1, <2>2
<1>5. Sum(count)
  <2> HIDE DEF Value
  <2> QED BY <1>4
<1>6. Sum(CHOOSE iter : Sum(iter))
  <2> HIDE DEF Sum
  <2> QED BY <1>5
<1>7. ASSUME NEW iter, Sum(iter) PROVE iter[S] = Cardinality(Ones(S))
  <2> DEFINE Wrong == {s \in SUBSET S : iter[s] # Cardinality(Ones(s))}
             sizes == {Cardinality(s) : s \in Wrong}
  <2>1. \A s \in SUBSET S : iter[s] = Value(iter, s)
    <3> HIDE DEF Value
    <3> QED BY <1>7
  <2>2. SUFFICES ASSUME Wrong # {} PROVE FALSE
    OBVIOUS
  <2>3. sizes \in SUBSET Nat /\ sizes # {}
    <3>1. \A s \in SUBSET S : Cardinality(s) \in Nat
      BY FS_Subset, FS_CardinalityType
    <3>2. Wrong \subseteq SUBSET S
      OBVIOUS
    <3> HIDE DEF Wrong
    <3> QED BY <2>2, <3>1, <3>2
  <2>4. PICK n \in sizes : \A m \in sizes : n <= m
    <3> HIDE DEF sizes
    <3> QED BY <2>3, SmallestTime
  <2>5. PICK s \in SUBSET S : iter[s] # Cardinality(Ones(s)) /\ Cardinality(s) = n
    OBVIOUS
  <2>6. s # {}
    BY <1>3, <2>1, <2>5
  <2>7. /\ s \ {Some(s)} \in SUBSET S /\ n \in Nat
        /\ Cardinality(s \ {Some(s)}) = n - 1
        /\ Cardinality(Ones(s)) = f[Some(s)] + Cardinality(Ones(s \ {Some(s)}))
    BY <1>2, <2>5, <2>6
  <2>8. ~ (n <= n - 1)
    BY <2>7
  <2>9. n - 1 \notin sizes
    BY <2>4, <2>8
  <2>10. s \ {Some(s)} \notin Wrong
    <3> HIDE DEF Wrong
    <3> QED BY <2>7, <2>9
  <2>11. iter[s \ {Some(s)}] = Cardinality(Ones(s \ {Some(s)}))
    <3> HIDE DEF Some, Ones
    <3> QED BY <2>7, <2>10
  <2> QED BY <2>1, <2>5, <2>6, <2>7, <2>11
<1> HIDE DEF Sum
<1> QED BY <1>1, <1>6, <1>7

LEMMA StrengthTyped ==
  ASSUME NEW effects \in [Blocks -> Effects], NEW on, NEW halt, NEW t
  PROVE  Strength(effects, on, halt, t) \in 0..Cardinality(Blocks)
<1> DEFINE f == [b \in Blocks |-> effects[b].magnitude]
           sounding == {b \in Blocks : Sounds(effects[b], t)}
           ones == {b \in sounding : f[b] = 1}
<1>1. f \in [Blocks -> {0, 1}]
  BY EffectTyped
<1>2. IsFiniteSet(Blocks) /\ sounding \subseteq Blocks /\ ones \subseteq Blocks
  BY PidBounds
<1> HIDE DEF f
<1>3. /\ IsFiniteSet(sounding) /\ Cardinality(Blocks) \in Nat
      /\ Cardinality(ones) \in Nat /\ Cardinality(ones) <= Cardinality(Blocks)
  BY <1>2, FS_Subset, FS_CardinalityType
<1>4. SumFunctionOnSet(f, sounding) = Cardinality(ones)
  BY <1>1, <1>2, <1>3, ForcesCounted
<1>5. Strength(effects, on, halt, t) \in {0, Cardinality(ones)}
  BY <1>4 DEF Strength, f
<1> QED BY <1>3, <1>5

ContextTypes ==
  /\ pidNow <= MaxPidTime
  /\ padState \in {"none", "created", "open", "closed", "destroyed"}
  /\ padRegistered \in BOOLEAN /\ padCallback \in BOOLEAN
  /\ heard \in 0..Cardinality(Blocks) /\ lastStrength \in 0..Cardinality(Blocks)
  /\ dispatching \in {"none", "output", "timer"}
  /\ stopping \in {"not_started", "no", "asked", "done"}

LEMMA ContextStarts == PidInit => ContextTypes
<1>1. 0 \in 0..Cardinality(Blocks)
  BY PidBounds, FS_CardinalityType
<1>2. 0 <= MaxPidTime
  BY PidBounds
<1> QED BY <1>1, <1>2 DEF PidInit, ContextTypes

LEMMA ContextStep == RumbleInv /\ ContextTypes /\ [PidNext]_pidVars => ContextTypes'
<1> SUFFICES ASSUME RumbleInv, ContextTypes, [PidNext]_pidVars PROVE ContextTypes'
  OBVIOUS
<1> USE DEF ContextTypes, padVars, pidState
<1>1. CASE StartContext \/ StopContext \/ ContextStopped
  BY <1>1 DEF StartContext, StopContext, ContextStopped
<1>2. CASE Tick
  BY <1>2, PidBounds DEF Tick, RumbleInv, RumbleTypes
<1>3. CASE CreateDriverGamepad \/ RegisterGamepad \/ SetPadCallback
             \/ MarkClosed \/ ForgetGamepad \/ DestroyDriverGamepad
  BY <1>3 DEF CreateDriverGamepad, RegisterGamepad, SetPadCallback, MarkClosed,
              ForgetGamepad, DestroyDriverGamepad
<1>4. CASE ReadOutput \/ TellOutput \/ OutputLoopEnds
  BY <1>4 DEF ReadOutput, TellOutput, OutputLoopEnds
<1>5. CASE ApplyOutput
  <2>1. CASE padState = "open" /\ padCallback
    <3>1. PICK r \in Reports : HandleOutputReport(r, pidNow)
      BY <1>5, <2>1 DEF ApplyOutput
    <3>2. pidEffects' \in [Blocks -> Effects]
      BY ApplyInv, <1>5 DEF RumbleInv, RumbleTypes
    <3>3. Strength(pidEffects', enabled', paused', pidNow) \in 0..Cardinality(Blocks)
      BY <3>2, StrengthTyped
    <3>4. lastStrength' \in {lastStrength, Strength(pidEffects', enabled', paused', pidNow)}
      BY <3>1 DEF HandleOutputReport
    <3>5. lastStrength' \in 0..Cardinality(Blocks)
      BY <3>3, <3>4
    <3> QED BY <1>5, <2>1, <3>5 DEF ApplyOutput
  <2>2. CASE ~(padState = "open" /\ padCallback)
    BY <1>5, <2>2 DEF ApplyOutput
  <2> QED BY <2>1, <2>2
<1>6. CASE TimerAdvances
  <2>1. CASE padState = "open"
    <3>1. pidEffects' \in [Blocks -> Effects]
      BY AdvanceInv, <1>6 DEF RumbleInv, RumbleTypes
    <3>2. lastStrength' = Strength(pidEffects', enabled, paused, timer.now)
      BY <1>6, <2>1 DEF TimerAdvances
    <3>3. lastStrength' \in 0..Cardinality(Blocks)
      BY <3>1, <3>2, StrengthTyped
    <3> QED BY <1>6, <2>1, <3>3 DEF TimerAdvances
  <2>2. CASE padState # "open"
    BY <1>6, <2>2 DEF TimerAdvances
  <2> QED BY <2>1, <2>2
<1>7. CASE TimerReads \/ TimerTells \/ TimerWakes \/ TimerLoopEnds
  BY <1>7 DEF TimerReads, TimerTells, TimerWakes, TimerLoopEnds
<1>8. CASE UNCHANGED pidVars
  BY <1>8 DEF pidVars
<1> QED BY <1>1, <1>2, <1>3, <1>4, <1>5, <1>6, <1>7, <1>8 DEF PidNext, PidThreadStep

LEMMA RumbleTyped == RumbleInv /\ ContextTypes => PidTypeOK
<1> SUFFICES ASSUME RumbleInv, ContextTypes PROVE PidTypeOK
  OBVIOUS
<1>1. pidNow \in 0..MaxPidTime
  BY PidBounds DEF RumbleInv, RumbleTypes, ContextTypes
<1>2. \A b \in Blocks : pidEffects[b].running \in BOOLEAN /\ pidEffects[b].started \in BOOLEAN
  BY EffectTyped DEF RumbleInv, RumbleTypes
<1> QED BY <1>1, <1>2 DEF ContextTypes, PidTypeOK

-----------------------------------------------------------------------------
(* All parts in one specification: the part in use takes the steps that its  *)
(* own specification allows, the others stay.  The proofs about the driver   *)
(* name its definitions through instances of their own, of which the two     *)
(* lemmas that follow say that they are the instances of WindowsDevices.     *)

IP == INSTANCE VhfInputProofs
OP == INSTANCE OutputReadsProofs

LEMMA InputSame ==
  /\ I!Init => IP!Init
  /\ I!Next => IP!Next
  /\ IP!TypeOK => I!TypeOK
<1>1. I!Init => IP!Init
  BY DEF I!Init, I!Threads, I!IdleThread, I!Kinds, IP!Init, IP!Threads,
         IP!IdleThread, IP!Kinds
<1>2. I!Next => IP!Next
  BY DEF I!Next, I!Threads, I!FindDevice, I!At, I!recordVars, I!queueVars,
         I!WriteReport, I!VhfCallsReady, I!Submission, I!QueueReport,
         I!PushProtocol, I!ProtocolWithRoom, I!Full, I!Pending,
         I!StatesWithRoom, I!PushState, I!QueueNothing, I!Leave, I!IdleThread,
         I!Prepare, I!CanSubmit, I!NothingToSubmit, I!VhfAccepts, I!VhfRefuses,
         I!Finish, I!ReadyForNextReadReport, I!ReadyTooLate, I!VhfConsumes,
         I!StartSucceeds, I!Remove, I!Removal, I!ShutDown, I!Drained,
         I!VhfDeleted, I!ReleaseBuffer, IP!Next, IP!Threads, IP!FindDevice,
         IP!At, IP!recordVars, IP!queueVars, IP!WriteReport, IP!VhfCallsReady,
         IP!Submission, IP!QueueReport, IP!PushProtocol, IP!ProtocolWithRoom,
         IP!Full, IP!Pending, IP!StatesWithRoom, IP!PushState, IP!QueueNothing,
         IP!Leave, IP!IdleThread, IP!Prepare, IP!CanSubmit, IP!NothingToSubmit,
         IP!VhfAccepts, IP!VhfRefuses, IP!Finish, IP!ReadyForNextReadReport,
         IP!ReadyTooLate, IP!VhfConsumes, IP!StartSucceeds, IP!Remove,
         IP!Removal, IP!ShutDown, IP!Drained, IP!VhfDeleted, IP!ReleaseBuffer
<1>3. IP!TypeOK => I!TypeOK
  BY DEF I!TypeOK, I!Reports, I!Kinds, I!Pending, I!Threads, IP!TypeOK,
         IP!Reports, IP!Kinds, IP!Pending, IP!Threads
<1> QED BY <1>1, <1>2, <1>3

LEMMA ReadsSame ==
  /\ O!Init => OP!Init
  /\ O!Next => OP!Next
  /\ OP!TypeOK => O!TypeOK
<1>1. O!Init => OP!Init
  BY DEF O!Init, OP!Init
<1>2. O!Next => OP!Next
  BY DEF O!Next, O!FileStep, O!StartRead, O!listVars, O!deviceVars,
         O!eventVars, O!endVars, O!ReadReturns, O!requestVars, O!CancelRead,
         O!AskToCancel, O!LoopEnds, O!ReadStep, O!CancelInQueue, O!Completed,
         O!runtimeVars, O!HandleRead, O!AnswerRead, O!CompletedWith,
         O!ReadCanceled, O!CleanupStep, O!CleanupDevices, O!Owner,
         O!CleanupReads, O!CleanupCompletes, O!CompleteUnlessCanceled,
         O!StillCancelable, O!SetStopEvent, O!RequestStop, O!CloseFile,
         O!ProcessEnds, O!OpenAgain, O!EventStep, O!QueueEvent, O!Event,
         O!CompleteEvent, O!BufferAgain, O!MakeEvent, O!Exists,
         O!CreateGamepad, O!DestroyGamepad, O!GamepadDeleted, O!ReleaseReads,
         O!ReleaseStep, O!ReleaseCompletes, O!ReleaseDevices, O!ReleaseEnds,
         OP!Next, OP!FileStep, OP!StartRead, OP!listVars, OP!deviceVars,
         OP!eventVars, OP!endVars, OP!ReadReturns, OP!requestVars,
         OP!CancelRead, OP!AskToCancel, OP!LoopEnds, OP!ReadStep,
         OP!CancelInQueue, OP!Completed, OP!runtimeVars, OP!HandleRead,
         OP!AnswerRead, OP!CompletedWith, OP!ReadCanceled, OP!CleanupStep,
         OP!CleanupDevices, OP!Owner, OP!CleanupReads, OP!CleanupCompletes,
         OP!CompleteUnlessCanceled, OP!StillCancelable, OP!SetStopEvent,
         OP!RequestStop, OP!CloseFile, OP!ProcessEnds, OP!OpenAgain,
         OP!EventStep, OP!QueueEvent, OP!Event, OP!CompleteEvent,
         OP!BufferAgain, OP!MakeEvent, OP!Exists, OP!CreateGamepad,
         OP!DestroyGamepad, OP!GamepadDeleted, OP!ReleaseReads, OP!ReleaseStep,
         OP!ReleaseCompletes, OP!ReleaseDevices, OP!ReleaseEnds
<1>3. OP!TypeOK => O!TypeOK
  BY DEF O!TypeOK, O!RuntimeTypes, O!RequestTypes, O!Events, O!ListTypes,
         O!DeviceTypes, O!EventTypes, O!EndTypes, OP!TypeOK, OP!RuntimeTypes,
         OP!RequestTypes, OP!Events, OP!ListTypes, OP!DeviceTypes,
         OP!EventTypes, OP!EndTypes
<1> QED BY <1>1, <1>2, <1>3

(* The theorems of VhfInputProofs and OutputReadsProofs hold under what      *)
(* those modules assume, here of the constants of WindowsDevices.            *)
LEMMA InputTyped ==
  /\ IP!Init => IP!TypeInv
  /\ IP!TypeInv /\ [IP!Next]_IP!vars => IP!TypeInv'
<1> USE PartsAssumption DEF IP!IsFiniteSet, IsFiniteSet, IP!Reports, IP!Kinds,
                            I!Reports, I!Kinds
<1>1. IP!Init => IP!TypeInv
  BY IP!TypeInit DEF IP!TypeInit
<1>2. IP!TypeInv /\ [IP!Next]_IP!vars => IP!TypeInv'
  BY IP!TypeStep DEF IP!TypeStep
<1> QED BY <1>1, <1>2

LEMMA ReadsTyped ==
  /\ OP!Init => OP!TypeInv
  /\ OP!TypeInv /\ [OP!Next]_OP!vars => OP!TypeInv'
<1> USE PartsAssumption DEF OP!Events, O!Events
<1>1. OP!Init => OP!TypeInv
  BY OP!TypeInit DEF OP!TypeInit
<1>2. OP!TypeInv /\ [OP!Next]_OP!vars => OP!TypeInv'
  BY OP!TypeStep DEF OP!TypeStep
<1> QED BY <1>1, <1>2

WindowsInv ==
  /\ IP!TypeInv /\ OP!TypeInv
  /\ PointerInv /\ RestTypes
  /\ RumbleInv /\ ContextTypes

LEMMA WindowsStarts == Init => WindowsInv
BY InputSame, InputTyped, ReadsSame, ReadsTyped, PointersStart, RestStarts,
   RumbleStarts, ContextStarts
   DEF Init, WindowsInv

LEMMA WindowsStep == WindowsInv /\ [Next]_vars => WindowsInv'
<1> SUFFICES ASSUME WindowsInv, [Next]_vars PROVE WindowsInv'
  OBVIOUS
<1>1. /\ \/ I!Next /\ UNCHANGED <<readVars, winVars, pidVars>>
         \/ O!Next /\ UNCHANGED <<inputVars, winVars, pidVars>>
         \/ WinNext /\ UNCHANGED <<inputVars, readVars, pidVars>>
         \/ PidNext /\ UNCHANGED <<inputVars, readVars, winVars>>
         \/ UNCHANGED <<inputVars, readVars, winVars, pidVars>>
  BY DEF Next, InputStep, ReadStep, PointerStep, RumbleStep, vars
<1>2. UNCHANGED inputVars => UNCHANGED IP!vars
  BY DEF inputVars, IP!vars, IP!recordVars, IP!queueVars
<1>3. UNCHANGED readVars => UNCHANGED OP!vars
  BY DEF readVars, OP!vars, OP!runtimeVars, OP!requestVars, OP!listVars, OP!deviceVars, OP!eventVars, OP!endVars
<1>4. [IP!Next]_IP!vars
  BY <1>1, <1>2, InputSame
<1>5. [OP!Next]_OP!vars
  BY <1>1, <1>3, ReadsSame
<1>6. IP!TypeInv' /\ OP!TypeInv'
  BY <1>4, <1>5, InputTyped, ReadsTyped DEF WindowsInv
<1>7. [WinNext]_winVars /\ [PidNext]_pidVars
  BY <1>1
<1>8. PointerInv' /\ RestTypes'
  BY <1>7, PointersKept, RestStep DEF WindowsInv
<1>9. RumbleInv' /\ ContextTypes'
  BY <1>7, RumbleKept, ContextStep DEF WindowsInv
<1> QED BY <1>6, <1>8, <1>9 DEF WindowsInv

(* In every part of the Windows side every variable keeps its type: the      *)
(* queue of input reports its limit, a device its room for contacts, a       *)
(* thread a desktop that exists, and no more is heard of rumble than the     *)
(* effect blocks of the device make.                                         *)
THEOREM WindowsTypeCorrect == WindowsSpec => []WindowsTypeOK
<1>1. WindowsInv => WindowsTypeOK
  <2>1. WindowsInv => I!TypeOK
    BY InputSame DEF WindowsInv, IP!TypeInv
  <2>2. WindowsInv => O!TypeOK
    BY ReadsSame DEF WindowsInv, OP!TypeInv
  <2>3. WindowsInv => WinTypeOK /\ PidTypeOK
    BY PointersTyped, RumbleTyped DEF WindowsInv
  <2> QED BY <2>1, <2>2, <2>3 DEF WindowsTypeOK
<1>2. WindowsSpec => Init /\ [][Next]_vars
  BY DEF WindowsSpec
<1> QED BY <1>1, <1>2, WindowsStarts, WindowsStep, PTL
=============================================================================
