------------------------------ MODULE PadProofs ------------------------------
(* The state of a gamepad: theorems for every profile and path to the host,  *)
(* any number of inputs held at once and any number of failed submissions.   *)
EXTENDS PadState, FiniteSetTheorems, TLAPS

-----------------------------------------------------------------------------
(* What a report tells of an input                                           *)

(* Places as numbers: one with a bit is never one without *)
Num(place) == IF Len(place) = 1 THEN place[1] ELSE 100 + 10 * place[1] + place[2]
Distinct(table) ==
  \A c, d \in DOMAIN table : Num(table[c]) = Num(table[d]) => c = d
TablesApart(table, other) ==
  \A c \in DOMAIN table, d \in DOMAIN other : Num(table[c]) # Num(other[d])
Beside(place, table) == \A c \in DOMAIN table : Num(table[c]) # Num(place)

LEMMA LitPlaces ==
  ASSUME NEW table, NEW S
  PROVE  \A field \in Lit(table, S) : \E c \in DOMAIN table : field[1] = table[c]
BY DEF Lit

LEMMA TableTells ==
  ASSUME NEW table, Distinct(table), NEW S, NEW i
  PROVE  Lit(table, S) = Lit(table, Toggled(S, i)) <=> i \notin DOMAIN table
<1>1. ASSUME i \in DOMAIN table PROVE Lit(table, S) # Lit(table, Toggled(S, i))
  <2>1. \A R : <<table[i], "set">> \in Lit(table, R) <=> i \in R
    BY <1>1 DEF Lit, Distinct
  <2> QED BY <2>1 DEF Toggled
<1>2. ASSUME i \notin DOMAIN table PROVE Lit(table, S) = Lit(table, Toggled(S, i))
  BY <1>2 DEF Lit, Toggled
<1> QED BY <1>1, <1>2

LEMMA TablesTell ==
  ASSUME NEW A, NEW B, Distinct(A), Distinct(B), TablesApart(A, B), NEW S, NEW i
  PROVE  Lit(A, S) \cup Lit(B, S) = Lit(A, Toggled(S, i)) \cup Lit(B, Toggled(S, i))
           <=> i \notin DOMAIN A \cup DOMAIN B
<1> DEFINE R == Toggled(S, i)
<1>1. \A Q, P : Lit(A, Q) \cap Lit(B, P) = {}
  BY LitPlaces DEF TablesApart
<1> HIDE DEF R
<1>2. Lit(A, S) \cup Lit(B, S) = Lit(A, R) \cup Lit(B, R)
        <=> Lit(A, S) = Lit(A, R) /\ Lit(B, S) = Lit(B, R)
  BY <1>1
<1>3. Lit(A, S) = Lit(A, R) <=> i \notin DOMAIN A
  BY TableTells DEF R
<1>4. Lit(B, S) = Lit(B, R) <=> i \notin DOMAIN B
  BY TableTells DEF R
<1> QED BY <1>2, <1>3, <1>4 DEF R

(* Opposite directions cancel, so that each one changes the hat              *)
LEMMA HatTells ==
  ASSUME NEW S, NEW d \in Directions
  PROVE  Hat(S) # Hat(Toggled(S, d))
<1>1. Opposite[d] \in Directions /\ Opposite[d] # d /\ Opposite[Opposite[d]] = d
  BY DEF Opposite, Directions
<1>2. CASE Opposite[d] \in S
  <2>1. Opposite[d] \in Hat(S) <=> d \notin S
    BY <1>1, <1>2 DEF Hat
  <2>2. Opposite[d] \in Hat(Toggled(S, d)) <=> d \in S
    BY <1>1, <1>2 DEF Hat, Toggled
  <2> QED BY <2>1, <2>2
<1>3. CASE Opposite[d] \notin S
  <2>1. d \in Hat(S) <=> d \in S
    BY <1>1, <1>3 DEF Hat
  <2>2. d \in Hat(Toggled(S, d)) <=> d \notin S
    BY <1>1, <1>3 DEF Hat, Toggled
  <2> QED BY <2>1, <2>2
<1> QED BY <1>2, <1>3

LEMMA HatKept ==
  ASSUME NEW S, NEW i, i \notin Directions
  PROVE  Hat(S) = Hat(Toggled(S, i))
<1>1. \A d \in Directions : Opposite[d] \in Directions
  BY DEF Opposite, Directions
<1> QED BY <1>1 DEF Hat, Toggled

LEMMA HatFieldTells ==
  ASSUME NEW place, NEW S, NEW i
  PROVE  HatField(place, S) = HatField(place, Toggled(S, i)) <=> i \notin Directions
<1> DEFINE R == Toggled(S, i)
<1>1. ASSUME i \in Directions PROVE HatField(place, S) # HatField(place, R)
  <2>1. Hat(S) # Hat(R)
    BY <1>1, HatTells
  <2>2. \A X, Y : {<<place, X>>} = {<<place, Y>>} => X = Y
    <3>1. \A X, Y : <<place, X>> = <<place, Y>> => X = Y
      OBVIOUS
    <3> QED BY <3>1
  <2> HIDE DEF R
  <2> QED BY <2>1, <2>2 DEF HatField
<1>2. ASSUME i \notin Directions PROVE HatField(place, S) = HatField(place, R)
  BY <1>2, HatKept DEF HatField
<1> QED BY <1>1, <1>2

LEMMA ReportTells ==
  ASSUME NEW A, NEW B, Distinct(A), Distinct(B), TablesApart(A, B),
         NEW place, Beside(place, A), Beside(place, B), NEW S, NEW i
  PROVE  Lit(A, S) \cup Lit(B, S) \cup HatField(place, S)
             = Lit(A, Toggled(S, i)) \cup Lit(B, Toggled(S, i)) \cup HatField(place, Toggled(S, i))
           <=> i \notin DOMAIN A \cup DOMAIN B \cup Directions
<1> DEFINE R == Toggled(S, i)
           X == Lit(A, S) \cup Lit(B, S)
           Y == Lit(A, R) \cup Lit(B, R)
<1>1. \A Q : \A field \in Lit(A, Q) \cup Lit(B, Q) : field[1] # place
  BY LitPlaces DEF Beside
<1>2. \A Q : \A field \in HatField(place, Q) : field[1] = place
  BY DEF HatField
<1>3. X = Y <=> i \notin DOMAIN A \cup DOMAIN B
  BY TablesTell
<1>4. HatField(place, S) = HatField(place, R) <=> i \notin Directions
  BY HatFieldTells
<1>5. /\ X \cap HatField(place, R) = {} /\ Y \cap HatField(place, S) = {}
      /\ X \cap HatField(place, S) = {} /\ Y \cap HatField(place, R) = {}
  BY <1>1, <1>2
<1>6. X \cup HatField(place, S) = Y \cup HatField(place, R)
        <=> X = Y /\ HatField(place, S) = HatField(place, R)
  <2> HIDE DEF X, Y, R
  <2> QED BY <1>5
<1> QED BY <1>3, <1>4, <1>6

(* What the host is told of an accepted input, by every report               *)
ToldBy(kind, S) ==
  \A i \in Accepted("hid", kind) :
    Report(kind, S) = Report(kind, Toggled(S, i))
      <=> kind = "switch_pro" /\ i \in Motion

LEMMA GenericTold == ASSUME NEW S PROVE ToldBy("generic", S)
<1>1. /\ Distinct(CommonPlaces(1)) /\ Distinct(GenericPlaces)
      /\ TablesApart(CommonPlaces(1), GenericPlaces)
  BY DEF Distinct, TablesApart, Num, CommonPlaces, GenericPlaces
<1>2. Accepted("hid", "generic") \subseteq DOMAIN CommonPlaces(1) \cup DOMAIN GenericPlaces
  BY DEF Accepted, EffectiveCapabilities, Capabilities, PlayStation, CommonButtons, Faces,
         Directions, Axes, Triggers, CommonPlaces, GenericPlaces
<1>3. \A Q : Report("generic", Q) = Lit(CommonPlaces(1), Q) \cup Lit(GenericPlaces, Q)
  BY DEF Report, GenericReport
<1> QED BY <1>1, <1>2, <1>3, TablesTell DEF ToldBy

LEMMA Xbox360Told == ASSUME NEW S PROVE ToldBy("xbox_360", S)
<1>1. /\ Distinct(CommonPlaces(1)) /\ Distinct(Xbox360Places)
      /\ TablesApart(CommonPlaces(1), Xbox360Places)
      /\ Beside(<<1, 12>>, CommonPlaces(1)) /\ Beside(<<1, 12>>, Xbox360Places)
  BY DEF Distinct, TablesApart, Beside, Num, CommonPlaces, Xbox360Places
<1>2. Accepted("hid", "xbox_360")
        \subseteq DOMAIN CommonPlaces(1) \cup DOMAIN Xbox360Places \cup Directions
  BY DEF Accepted, EffectiveCapabilities, Capabilities, PlayStation, CommonButtons, Faces,
         Directions, Axes, Triggers, CommonPlaces, Xbox360Places
<1>3. \A Q : Report("xbox_360", Q)
               = Lit(CommonPlaces(1), Q) \cup Lit(Xbox360Places, Q) \cup HatField(<<1, 12>>, Q)
  BY DEF Report, Xbox360Report
<1> QED BY <1>1, <1>2, <1>3, ReportTells DEF ToldBy

LEMMA XboxGipTold ==
  ASSUME NEW S, NEW kind \in {"xbox_one", "xbox_series"}
  PROVE  ToldBy(kind, S)
<1>1. /\ Distinct(CommonPlaces(12)) /\ Distinct(XboxGipPlaces)
      /\ TablesApart(CommonPlaces(12), XboxGipPlaces)
      /\ Beside(<<14>>, CommonPlaces(12)) /\ Beside(<<14>>, XboxGipPlaces)
  BY DEF Distinct, TablesApart, Beside, Num, CommonPlaces, XboxGipPlaces
<1>2. Accepted("hid", kind)
        \subseteq DOMAIN CommonPlaces(12) \cup DOMAIN XboxGipPlaces \cup Directions
  BY DEF Accepted, EffectiveCapabilities, Capabilities, PlayStation, CommonButtons, Faces,
         Directions, Axes, Triggers, CommonPlaces, XboxGipPlaces
<1>3. \A Q : Report(kind, Q)
               = Lit(CommonPlaces(12), Q) \cup Lit(XboxGipPlaces, Q) \cup HatField(<<14>>, Q)
  BY DEF Report, XboxGipReport
<1> QED BY <1>1, <1>2, <1>3, ReportTells DEF ToldBy

LEMMA Dualshock4Told == ASSUME NEW S PROVE ToldBy("dualshock4", S)
<1>1. /\ Distinct(PlayStationPlaces(4)) /\ Distinct(Dualshock4Places)
      /\ TablesApart(PlayStationPlaces(4), Dualshock4Places)
      /\ Beside(<<4, 0>>, PlayStationPlaces(4)) /\ Beside(<<4, 0>>, Dualshock4Places)
  BY DEF Distinct, TablesApart, Beside, Num, PlayStationPlaces, Dualshock4Places
<1>2. Accepted("hid", "dualshock4")
        \subseteq DOMAIN PlayStationPlaces(4) \cup DOMAIN Dualshock4Places \cup Directions
  BY DEF Accepted, EffectiveCapabilities, Capabilities, PlayStation, CommonButtons, Faces,
         Directions, Axes, Triggers, Motion, Touches, PlayStationPlaces, Dualshock4Places
<1>3. \A Q : Report("dualshock4", Q)
               = Lit(PlayStationPlaces(4), Q) \cup Lit(Dualshock4Places, Q)
                   \cup HatField(<<4, 0>>, Q)
  BY DEF Report, Dualshock4Report
<1> QED BY <1>1, <1>2, <1>3, ReportTells DEF ToldBy

LEMMA DualsenseTold == ASSUME NEW S PROVE ToldBy("dualsense", S)
<1>1. /\ Distinct(PlayStationPlaces(7)) /\ Distinct(DualsensePlaces)
      /\ TablesApart(PlayStationPlaces(7), DualsensePlaces)
      /\ Beside(<<7, 0>>, PlayStationPlaces(7)) /\ Beside(<<7, 0>>, DualsensePlaces)
  BY DEF Distinct, TablesApart, Beside, Num, PlayStationPlaces, DualsensePlaces
<1>2. Accepted("hid", "dualsense")
        \subseteq DOMAIN PlayStationPlaces(7) \cup DOMAIN DualsensePlaces \cup Directions
  BY DEF Accepted, EffectiveCapabilities, Capabilities, PlayStation, CommonButtons, Faces,
         Directions, Axes, Triggers, Motion, Touches, PlayStationPlaces, DualsensePlaces
<1>3. \A Q : Report("dualsense", Q)
               = Lit(PlayStationPlaces(7), Q) \cup Lit(DualsensePlaces, Q)
                   \cup HatField(<<7, 0>>, Q)
  BY DEF Report, DualsenseReport
<1> QED BY <1>1, <1>2, <1>3, ReportTells DEF ToldBy

LEMMA SwitchProTold == ASSUME NEW S PROVE ToldBy("switch_pro", S)
<1>1. Distinct(SwitchProPlaces)
  BY DEF Distinct, Num, SwitchProPlaces
<1>2. \A i \in Accepted("hid", "switch_pro") : i \in DOMAIN SwitchProPlaces <=> i \notin Motion
  BY DEF Accepted, EffectiveCapabilities, Capabilities, PlayStation, CommonButtons, Faces,
         Directions, Axes, Triggers, Motion, Touches, SwitchProPlaces
<1>3. \A Q : Report("switch_pro", Q) = Lit(SwitchProPlaces, Q)
  BY DEF Report, SwitchProReport
<1> QED BY <1>1, <1>2, <1>3, TableTells DEF ToldBy

-----------------------------------------------------------------------------
(* What the kernel has of an input                                           *)

Buttons(path, kind) == FaceCodes(kind) \o CommonCodes \o Misc1Codes(path, kind)
Scales(kind) == StickCodes \o TriggerCodes(kind)
Pairs(path, kind) == Range(Buttons(path, kind)) \cup Range(Scales(kind))
DpadEvents(S) ==
  {<<"HAT0X", DpadAxis(S, "dpad_left", "dpad_right")>>,
   <<"HAT0Y", DpadAxis(S, "dpad_up", "dpad_down")>>}
Codes ==
  ButtonCodes \cup {"ABS_X", "ABS_Y", "ABS_RX", "ABS_RY", "ABS_Z", "ABS_RZ", "TL2", "TR2",
                    "Z", "RECORD"}
CodePairs == Inputs \X Codes
Events == (Codes \cup {"HAT0X", "HAT0Y", "SYN"}) \X {-1, 0, 1}

LEMMA RangeJoined ==
  ASSUME NEW T, NEW s \in Seq(T), NEW t \in Seq(T)
  PROVE  /\ s \o t \in Seq(T)
         /\ Range(s \o t) = Range(s) \cup Range(t)
<1>1. s \o t \in Seq(T) /\ Len(s \o t) = Len(s) + Len(t)
  OBVIOUS
<1>2. \A n \in DOMAIN (s \o t) : (s \o t)[n] \in Range(s) \cup Range(t)
  <2>1. TAKE n \in DOMAIN (s \o t)
  <2>2. CASE n <= Len(s)
    BY <2>2, <2>1, <1>1 DEF Range
  <2>3. CASE n > Len(s)
    <3>1. n - Len(s) \in DOMAIN t /\ (s \o t)[n] = t[n - Len(s)]
      BY <2>3, <2>1, <1>1
    <3> QED BY <3>1 DEF Range
  <2> QED BY <2>2, <2>3, <2>1, <1>1
<1>3. \A n \in DOMAIN s : n \in DOMAIN (s \o t) /\ (s \o t)[n] = s[n]
  BY <1>1
<1>4. \A n \in DOMAIN t :
        Len(s) + n \in DOMAIN (s \o t) /\ (s \o t)[Len(s) + n] = t[n]
  BY <1>1
<1>5. Range(s \o t) \subseteq Range(s) \cup Range(t)
  BY <1>2 DEF Range
<1>6. Range(s) \subseteq Range(s \o t)
  BY <1>3 DEF Range
<1>7. Range(t) \subseteq Range(s \o t)
  BY <1>4 DEF Range
<1> QED BY <1>1, <1>5, <1>6, <1>7

LEMMA EmittedEvents ==
  ASSUME NEW map \in Seq(CodePairs), NEW S
  PROVE  /\ Emitted(map, S) \in Seq(Events)
         /\ Range(Emitted(map, S)) = {Key(m[2], m[1] \in S) : m \in Range(map)}
<1>1. \A n \in 1 .. Len(map) : map[n] \in CodePairs
  OBVIOUS
<1>2. \A n \in 1 .. Len(map) : Key(map[n][2], map[n][1] \in S) \in Events
  BY <1>1 DEF CodePairs, Key, Events
<1>3. Emitted(map, S) \in Seq(Events)
  BY <1>2 DEF Emitted
<1> QED BY <1>3 DEF Emitted, Range

LEMMA CodesTyped ==
  ASSUME NEW path \in Paths, NEW kind \in Kinds
  PROVE  /\ FaceCodes(kind) \in Seq(CodePairs) /\ CommonCodes \in Seq(CodePairs)
         /\ Misc1Codes(path, kind) \in Seq(CodePairs) /\ StickCodes \in Seq(CodePairs)
         /\ TriggerCodes(kind) \in Seq(CodePairs)
<1>1. CommonButtons \cup Axes \cup Triggers \cup {"misc1"} \subseteq Inputs
  BY DEF Inputs
<1>2. FaceCodes(kind) \in Seq(CodePairs)
  <2>1. CASE kind = "switch_pro"
    BY <2>1 DEF FaceCodes, CodePairs, Codes, ButtonCodes, Inputs, CommonButtons, Faces
  <2>2. CASE kind # "switch_pro"
    BY <2>2 DEF FaceCodes, CodePairs, Codes, ButtonCodes, Inputs, CommonButtons, Faces
  <2> QED BY <2>1, <2>2
<1>3. CommonCodes \in Seq(CodePairs)
  BY DEF CommonCodes, CodePairs, Codes, ButtonCodes, Inputs, CommonButtons
<1>4. Misc1Codes(path, kind) \in Seq(CodePairs)
  BY DEF Misc1Codes, Misc1Code, CodePairs, Codes, ButtonCodes, Inputs
<1>5. StickCodes \in Seq(CodePairs)
  BY DEF StickCodes, CodePairs, Codes, ButtonCodes, Inputs, Axes
<1>6. TriggerCodes(kind) \in Seq(CodePairs)
  <2>1. CASE kind = "switch_pro"
    BY <2>1 DEF TriggerCodes, CodePairs, Codes, Inputs, Triggers
  <2>2. CASE kind # "switch_pro"
    BY <2>2 DEF TriggerCodes, CodePairs, Codes, Inputs, Triggers
  <2> QED BY <2>1, <2>2
<1> QED BY <1>2, <1>3, <1>4, <1>5, <1>6

(* The events of a script: one of each code, whatever is held                *)
LEMMA ScriptEvents ==
  ASSUME NEW path \in Paths, NEW kind \in Kinds, NEW S
  PROVE  /\ StateScript(path, kind, S) \in Seq(Events)
         /\ Range(StateScript(path, kind, S))
              = {Key(m[2], m[1] \in S) : m \in Pairs(path, kind)} \cup DpadEvents(S) \cup {Syn}
<1> DEFINE first == Emitted(Buttons(path, kind), S)
           hat == << <<"HAT0X", DpadAxis(S, "dpad_left", "dpad_right")>>,
                     <<"HAT0Y", DpadAxis(S, "dpad_up", "dpad_down")>> >>
           second == Emitted(Scales(kind), S)
           last == << Syn >>
<1>1. Buttons(path, kind) \in Seq(CodePairs) /\ Scales(kind) \in Seq(CodePairs)
  BY CodesTyped DEF Buttons, Scales
<1>2. /\ first \in Seq(Events)
      /\ Range(first) = {Key(m[2], m[1] \in S) : m \in Range(Buttons(path, kind))}
  BY <1>1, EmittedEvents
<1>3. /\ second \in Seq(Events)
      /\ Range(second) = {Key(m[2], m[1] \in S) : m \in Range(Scales(kind))}
  BY <1>1, EmittedEvents
<1>4. \A n, p \in Directions : DpadAxis(S, n, p) \in {-1, 0, 1}
  BY DEF DpadAxis
<1>5. hat \in Seq(Events) /\ Range(hat) = DpadEvents(S)
  BY <1>4 DEF Range, DpadEvents, Events, Directions
<1>6. last \in Seq(Events) /\ Range(last) = {Syn}
  BY DEF Range, Syn, Events
<1>7. StateScript(path, kind, S) = ((first \o hat) \o second) \o last
  BY DEF StateScript, Buttons, Scales
<1> HIDE DEF first, hat, second, last
<1> DEFINE two == first \o hat
           three == two \o second
<1>8. two \in Seq(Events) /\ Range(two) = Range(first) \cup Range(hat)
  BY <1>2, <1>5, RangeJoined
<1> HIDE DEF two
<1>9. three \in Seq(Events) /\ Range(three) = Range(two) \cup Range(second)
  BY <1>3, <1>8, RangeJoined
<1>10. StateScript(path, kind, S) = three \o last
  BY <1>7 DEF two
<1> HIDE DEF three
<1>11. /\ StateScript(path, kind, S) \in Seq(Events)
       /\ Range(StateScript(path, kind, S)) = Range(three) \cup Range(last)
  BY <1>6, <1>9, <1>10, RangeJoined
<1>12. Range(StateScript(path, kind, S))
         = Range(first) \cup Range(second) \cup DpadEvents(S) \cup {Syn}
  BY <1>5, <1>6, <1>8, <1>9, <1>11
<1> QED BY <1>2, <1>3, <1>11, <1>12 DEF Pairs

HatCodes == {"HAT0X", "HAT0Y", "SYN"}
CommonPairs ==
  {<<"left_shoulder", "TL">>, <<"right_shoulder", "TR">>, <<"back", "SELECT">>,
   <<"start", "START">>, <<"guide", "MODE">>, <<"left_stick", "THUMBL">>,
   <<"right_stick", "THUMBR">>, <<"left_x", "ABS_X">>, <<"left_y", "ABS_Y">>,
   <<"right_x", "ABS_RX">>, <<"right_y", "ABS_RY">>, <<"x", "NORTH">>, <<"y", "WEST">>}
SwitchPairs ==
  {<<"a", "EAST">>, <<"b", "SOUTH">>, <<"left_trigger", "TL2">>, <<"right_trigger", "TR2">>}
OtherPairs ==
  {<<"a", "SOUTH">>, <<"b", "EAST">>, <<"left_trigger", "ABS_Z">>, <<"right_trigger", "ABS_RZ">>}

LEMMA PairsAre ==
  ASSUME NEW path \in Paths, NEW kind \in Kinds
  PROVE  Pairs(path, kind)
           = CommonPairs \cup (IF kind = "switch_pro" THEN SwitchPairs ELSE OtherPairs)
               \cup (IF Misc1Code(path, kind) = "none" THEN {}
                     ELSE {<<"misc1", Misc1Code(path, kind)>>})
<1> DEFINE face == FaceCodes(kind)
           misc1 == Misc1Codes(path, kind)
           trigger == TriggerCodes(kind)
           two == face \o CommonCodes
<1>1. Range(misc1) = (IF Misc1Code(path, kind) = "none" THEN {}
                      ELSE {<<"misc1", Misc1Code(path, kind)>>})
  BY DEF Misc1Codes, Range
<1>2. Range(face) \cup Range(trigger) \cup {<<"x", "NORTH">>, <<"y", "WEST">>}
        = {<<"x", "NORTH">>, <<"y", "WEST">>}
            \cup (IF kind = "switch_pro" THEN SwitchPairs ELSE OtherPairs)
  <2>1. CASE kind = "switch_pro"
    BY <2>1 DEF FaceCodes, TriggerCodes, SwitchPairs, Range
  <2>2. CASE kind # "switch_pro"
    BY <2>2 DEF FaceCodes, TriggerCodes, OtherPairs, Range
  <2> QED BY <2>1, <2>2
<1>3. CommonPairs = Range(CommonCodes) \cup Range(StickCodes)
                      \cup {<<"x", "NORTH">>, <<"y", "WEST">>}
  BY DEF CommonPairs, CommonCodes, StickCodes, Range
<1>4. {<<"x", "NORTH">>, <<"y", "WEST">>} \subseteq Range(face)
  <2>1. CASE kind = "switch_pro"
    BY <2>1 DEF FaceCodes, Range
  <2>2. CASE kind # "switch_pro"
    BY <2>2 DEF FaceCodes, Range
  <2> QED BY <2>1, <2>2
<1>5. /\ face \in Seq(CodePairs) /\ CommonCodes \in Seq(CodePairs)
      /\ misc1 \in Seq(CodePairs) /\ StickCodes \in Seq(CodePairs)
      /\ trigger \in Seq(CodePairs)
  BY CodesTyped
<1>6. Buttons(path, kind) = two \o misc1 /\ Scales(kind) = StickCodes \o trigger
  BY DEF Buttons, Scales
<1> HIDE DEF face, misc1, trigger
<1>7. two \in Seq(CodePairs) /\ Range(two) = Range(face) \cup Range(CommonCodes)
  BY <1>5, RangeJoined
<1> HIDE DEF two
<1>8. Range(Buttons(path, kind)) = Range(two) \cup Range(misc1)
  BY <1>5, <1>6, <1>7, RangeJoined
<1>9. Range(Scales(kind)) = Range(StickCodes) \cup Range(trigger)
  BY <1>5, <1>6, RangeJoined
<1>10. Pairs(path, kind) = Range(face) \cup Range(CommonCodes) \cup Range(misc1)
                             \cup Range(StickCodes) \cup Range(trigger)
  BY <1>7, <1>8, <1>9 DEF Pairs
<1> QED BY <1>1, <1>2, <1>3, <1>4, <1>10

(* Every accepted input but the directions has a code of its own, which the  *)
(* device was created with, or none.                                         *)
LEMMA Coded ==
  ASSUME NEW path \in {"linux", "freebsd"}, NEW kind \in Kinds, UsesUinput(path, kind),
         NEW i \in Accepted(path, kind) \ Directions,
         ~(kind = "switch_pro" /\ i \in Motion), ~(path = "linux" /\ i = "battery")
  PROVE  \E m \in Pairs(path, kind) :
           /\ m[1] = i /\ m[2] \in ConfiguredCodes(path, kind) \ HatCodes
           /\ \A n \in Pairs(path, kind) : n[2] = m[2] => n[1] = i
<1>1. Pairs(path, kind)
        = CommonPairs \cup (IF kind = "switch_pro" THEN SwitchPairs ELSE OtherPairs)
            \cup (IF Misc1Code(path, kind) = "none" THEN {}
                  ELSE {<<"misc1", Misc1Code(path, kind)>>})
  BY PairsAre DEF Paths
<1>2. \/ i \in (CommonButtons \ Directions) \cup Axes \cup Triggers
      \/ i = "misc1" /\ Misc1Code(path, kind) # "none"
  BY DEF Accepted, EffectiveCapabilities, Capabilities, PlayStation, UsesUinput, Misc1Code,
         Motion, Touches, Kinds
<1>3. /\ Misc1Code(path, kind) \in {"none", "RECORD", "Z"}
      /\ kind = "switch_pro" <=> Misc1Code(path, kind) = "Z"
  BY DEF Misc1Code, Kinds
<1>4. \A m, n \in Pairs(path, kind) : n[2] = m[2] => n[1] = m[1]
  BY <1>1, <1>3 DEF CommonPairs, SwitchPairs, OtherPairs
<1>5. \A m \in Pairs(path, kind) : m[2] \in ConfiguredCodes(path, kind) \ HatCodes
  BY <1>1, <1>3 DEF CommonPairs, SwitchPairs, OtherPairs, ConfiguredCodes, ButtonCodes, HatCodes
<1>6. \E m \in Pairs(path, kind) : m[1] = i
  <2>1. CASE i = "misc1" /\ Misc1Code(path, kind) # "none"
    <3>1. <<"misc1", Misc1Code(path, kind)>> \in Pairs(path, kind)
      BY <1>1, <2>1
    <3> QED BY <2>1, <3>1
  <2>2. CASE i \in {"a", "b", "left_trigger", "right_trigger"}
    <3>1. (\E m \in SwitchPairs : m[1] = i) /\ (\E m \in OtherPairs : m[1] = i)
      BY <2>2 DEF SwitchPairs, OtherPairs
    <3> QED BY <1>1, <3>1
  <2>3. CASE i \in ((CommonButtons \ Directions) \cup Axes) \ {"a", "b"}
    <3>1. \E m \in CommonPairs : m[1] = i
      BY <2>3 DEF CommonPairs, CommonButtons, Faces, Axes
    <3> QED BY <1>1, <3>1
  <2> QED BY <1>2, <2>1, <2>2, <2>3 DEF Triggers
<1> QED BY <1>4, <1>5, <1>6

LEMMA Uncoded ==
  ASSUME NEW path \in {"linux", "freebsd"}, NEW kind \in Kinds,
         NEW i \in Motion \cup {"battery"}
  PROVE  i \notin Directions /\ \A m \in Pairs(path, kind) : m[1] # i
<1>1. Pairs(path, kind)
        = CommonPairs \cup (IF kind = "switch_pro" THEN SwitchPairs ELSE OtherPairs)
            \cup (IF Misc1Code(path, kind) = "none" THEN {}
                  ELSE {<<"misc1", Misc1Code(path, kind)>>})
  BY PairsAre DEF Paths
<1> QED BY <1>1 DEF CommonPairs, SwitchPairs, OtherPairs, Motion, Directions

LEMMA PairCodes ==
  ASSUME NEW path \in Paths, NEW kind \in Kinds
  PROVE  \A m \in Pairs(path, kind) : m[2] \notin HatCodes
<1>1. Misc1Code(path, kind) \in {"none", "RECORD", "Z"}
  BY DEF Misc1Code, Kinds
<1> QED BY <1>1, PairsAre DEF CommonPairs, SwitchPairs, OtherPairs, HatCodes

(* A direction changes the axis it is on.                                    *)
LEMMA AxisTells ==
  ASSUME NEW S, NEW negative \in Directions, NEW positive \in Directions,
         Opposite[negative] = positive, Opposite[positive] = negative, negative # positive,
         NEW d \in {negative, positive}
  PROVE  DpadAxis(S, negative, positive) # DpadAxis(Toggled(S, d), negative, positive)
<1>1. \A R : /\ negative \in Hat(R) <=> negative \in R /\ positive \notin R
             /\ positive \in Hat(R) <=> positive \in R /\ negative \notin R
  BY DEF Hat
<1> DEFINE R == Toggled(S, d)
<1>2. \A e \in {negative, positive} : e \in R <=> (e \in S <=> e # d)
  BY DEF Toggled
<1> HIDE DEF R
<1>3. DpadAxis(S, negative, positive) # DpadAxis(R, negative, positive)
  BY <1>1, <1>2 DEF DpadAxis
<1> QED BY <1>3 DEF R

LEMMA DpadKept ==
  ASSUME NEW S, NEW i, i \notin Directions
  PROVE  DpadEvents(S) = DpadEvents(Toggled(S, i))
BY HatKept DEF DpadEvents, DpadAxis

(* What Fed makes of a whole script does not depend on what the kernel had,  *)
(* as long as that was written by scripts.                                   *)
ScriptCodes == {m[2] : m \in Pairs(padPath, padKind)} \cup HatCodes

LEMMA Written ==
  ASSUME padPath \in Paths, padKind \in Kinds, NEW S
  PROVE  {e[1] : e \in Range(StateScript(padPath, padKind, S))} = ScriptCodes
<1>1. Range(StateScript(padPath, padKind, S))
        = {Key(m[2], m[1] \in S) : m \in Pairs(padPath, padKind)} \cup DpadEvents(S) \cup {Syn}
  BY ScriptEvents
<1>2. {e[1] : e \in DpadEvents(S) \cup {Syn}} = HatCodes
  BY DEF DpadEvents, Syn, HatCodes
<1>3. {e[1] : e \in {Key(m[2], m[1] \in S) : m \in Pairs(padPath, padKind)}}
        = {m[2] : m \in Pairs(padPath, padKind)}
  <2> DEFINE K == {Key(m[2], m[1] \in S) : m \in Pairs(padPath, padKind)}
  <2>1. \A m \in Pairs(padPath, padKind) :
          Key(m[2], m[1] \in S) \in K /\ Key(m[2], m[1] \in S)[1] = m[2]
    BY DEF Key
  <2>2. \A e \in K : \E m \in Pairs(padPath, padKind) : e[1] = m[2]
    BY DEF Key
  <2> HIDE DEF K
  <2>3. {e[1] : e \in K} = {m[2] : m \in Pairs(padPath, padKind)}
    BY <2>1, <2>2
  <2> QED BY <2>3 DEF K
<1> QED BY <1>1, <1>2, <1>3 DEF ScriptCodes

LEMMA FedAnew ==
  ASSUME padPath \in Paths, padKind \in Kinds, NEW S, NEW values,
         \A v \in values : v[1] \in ScriptCodes
  PROVE  Fed(values, StateScript(padPath, padKind, S)) = Fed({}, StateScript(padPath, padKind, S))
BY Written DEF Fed

(* A code of a key, or of an axis of the hat, in what the kernel has         *)
LEMMA FedKey ==
  ASSUME padPath \in Paths, padKind \in Kinds, NEW S, NEW m \in Pairs(padPath, padKind),
         m[2] \in ConfiguredCodes(padPath, padKind) \ HatCodes,
         \A n \in Pairs(padPath, padKind) : n[2] = m[2] => n[1] = m[1]
  PROVE  <<m[2], 1>> \in Fed({}, StateScript(padPath, padKind, S)) <=> m[1] \in S
<1>1. Range(StateScript(padPath, padKind, S))
        = {Key(n[2], n[1] \in S) : n \in Pairs(padPath, padKind)} \cup DpadEvents(S) \cup {Syn}
  BY ScriptEvents
<1>2. <<m[2], 1>> \notin DpadEvents(S) \cup {Syn}
  BY DEF DpadEvents, Syn, HatCodes
<1>3. <<m[2], 1>> \in {Key(n[2], n[1] \in S) : n \in Pairs(padPath, padKind)} <=> m[1] \in S
  BY DEF Key
<1> QED BY <1>1, <1>2, <1>3 DEF Fed

LEMMA FedAxis ==
  ASSUME padPath \in Paths, padKind \in Kinds, NEW S, NEW value \in Int, value # 0
  PROVE  /\ <<"HAT0X", value>> \in Fed({}, StateScript(padPath, padKind, S))
              <=> value = DpadAxis(S, "dpad_left", "dpad_right")
         /\ <<"HAT0Y", value>> \in Fed({}, StateScript(padPath, padKind, S))
              <=> value = DpadAxis(S, "dpad_up", "dpad_down")
<1>1. Range(StateScript(padPath, padKind, S))
        = {Key(n[2], n[1] \in S) : n \in Pairs(padPath, padKind)} \cup DpadEvents(S) \cup {Syn}
  BY ScriptEvents
<1>2. {"HAT0X", "HAT0Y"} \subseteq ConfiguredCodes(padPath, padKind)
  BY DEF ConfiguredCodes
<1>3. \A e \in {Key(n[2], n[1] \in S) : n \in Pairs(padPath, padKind)} \cup {Syn} :
        e[1] \notin {"HAT0X", "HAT0Y"}
  BY PairCodes DEF Key, Syn, HatCodes
<1> QED BY <1>1, <1>2, <1>3 DEF Fed, DpadEvents

LEMMA UinputTold ==
  ASSUME padPath \in Paths, padKind \in Kinds, UsesUinput(padPath, padKind),
         NEW S, NEW i \in Accepted(padPath, padKind)
  PROVE  Fed({}, StateScript(padPath, padKind, S))
             = Fed({}, StateScript(padPath, padKind, Toggled(S, i)))
           <=> i \in NeverShown
<1> DEFINE R == Toggled(S, i)
           FS == Fed({}, StateScript(padPath, padKind, S))
           FR == Fed({}, StateScript(padPath, padKind, R))
<1>1. padPath \in {"linux", "freebsd"}
  BY DEF UsesUinput
<1>2. CASE i \in Directions
  <2>1. i \notin NeverShown
    BY <1>2 DEF Directions, NeverShown, Motion
  <2>2. ASSUME i \in {"dpad_left", "dpad_right"} PROVE FS # FR
    <3> DEFINE v == DpadAxis(S, "dpad_left", "dpad_right")
               w == DpadAxis(R, "dpad_left", "dpad_right")
    <3>1. v # w
      BY <2>2, AxisTells DEF Opposite, Directions
    <3>2. v \in Int /\ w \in Int
      BY DEF DpadAxis
    <3>3. \A value \in Int : value # 0 => (<<"HAT0X", value>> \in FS <=> value = v)
      BY FedAxis
    <3>4. \A value \in Int : value # 0 => (<<"HAT0X", value>> \in FR <=> value = w)
      BY FedAxis
    <3> HIDE DEF v, w, FS, FR
    <3> QED BY <3>1, <3>2, <3>3, <3>4
  <2>3. ASSUME i \in {"dpad_up", "dpad_down"} PROVE FS # FR
    <3> DEFINE v == DpadAxis(S, "dpad_up", "dpad_down")
               w == DpadAxis(R, "dpad_up", "dpad_down")
    <3>1. v # w
      BY <2>3, AxisTells DEF Opposite, Directions
    <3>2. v \in Int /\ w \in Int
      BY DEF DpadAxis
    <3>3. \A value \in Int : value # 0 => (<<"HAT0Y", value>> \in FS <=> value = v)
      BY FedAxis
    <3>4. \A value \in Int : value # 0 => (<<"HAT0Y", value>> \in FR <=> value = w)
      BY FedAxis
    <3> HIDE DEF v, w, FS, FR
    <3> QED BY <3>1, <3>2, <3>3, <3>4
  <2> QED BY <1>2, <2>1, <2>2, <2>3 DEF Directions
<1>3. CASE i \in NeverShown
  <2>1. i \notin Directions /\ \A m \in Pairs(padPath, padKind) : m[1] # i
    BY <1>1, <1>3, Uncoded DEF NeverShown
  <2>2. /\ Range(StateScript(padPath, padKind, S))
             = {Key(m[2], m[1] \in S) : m \in Pairs(padPath, padKind)}
                 \cup DpadEvents(S) \cup {Syn}
        /\ Range(StateScript(padPath, padKind, R))
             = {Key(m[2], m[1] \in R) : m \in Pairs(padPath, padKind)}
                 \cup DpadEvents(R) \cup {Syn}
    BY ScriptEvents
  <2>3. \A m \in Pairs(padPath, padKind) : m[1] \in S <=> m[1] \in R
    BY <2>1 DEF Toggled
  <2>4. {Key(m[2], m[1] \in S) : m \in Pairs(padPath, padKind)}
          = {Key(m[2], m[1] \in R) : m \in Pairs(padPath, padKind)}
    BY <2>3 DEF Key
  <2>5. DpadEvents(S) = DpadEvents(R)
    BY <2>1, DpadKept
  <2>6. FS = FR
    <3> HIDE DEF R
    <3> QED BY <2>2, <2>4, <2>5 DEF Fed
  <2> QED BY <1>3, <2>6
<1>4. CASE i \notin Directions /\ i \notin NeverShown
  <2>1. ~(padKind = "switch_pro" /\ i \in Motion) /\ ~(padPath = "linux" /\ i = "battery")
    BY <1>4 DEF NeverShown
  <2>2. PICK m \in Pairs(padPath, padKind) :
          /\ m[1] = i /\ m[2] \in ConfiguredCodes(padPath, padKind) \ HatCodes
          /\ \A n \in Pairs(padPath, padKind) : n[2] = m[2] => n[1] = i
    BY <1>1, <1>4, <2>1, Coded
  <2>3. <<m[2], 1>> \in FS <=> i \in S
    BY <2>2, FedKey
  <2>4. <<m[2], 1>> \in FR <=> i \in R
    BY <2>2, FedKey
  <2>5. i \in S <=> i \notin R
    BY DEF Toggled
  <2> HIDE DEF FS, FR, R
  <2>6. FS # FR
    BY <2>3, <2>4, <2>5
  <2> QED BY <1>4, <2>6 DEF FS, FR, R
<1> QED BY <1>2, <1>3, <1>4

-----------------------------------------------------------------------------
(* The adapter                                                               *)

(* What a submission leaves in the kernel, whole or not, was written by      *)
(* scripts, and one that succeeds leaves all of the state it submitted.      *)
PadInv ==
  /\ padPath \in Paths /\ padKind \in Kinds
  /\ UsesUinput(padPath, padKind) => \A v \in shown : v[1] \in ScriptCodes
  /\ padOpen = "no" => held = {}
  /\ padOpen = "open" /\ inStep => shown = ShownOf({}, held)

LEMMA Prefix ==
  ASSUME NEW T, NEW script \in Seq(T), NEW n \in 0 .. Len(script) - 1
  PROVE  Range(Sent(script, n)) \subseteq Range(script)
<1>1. Len(script) \in Nat /\ n \in Nat /\ n <= Len(script)
  OBVIOUS
<1>2. Sent(script, n) = [j \in 1 .. n |-> script[j]]
  BY <1>1 DEF Sent
<1> QED BY <1>1, <1>2 DEF Range

LEMMA SubmitInv ==
  ASSUME padPath \in Paths, padKind \in Kinds,
         UsesUinput(padPath, padKind) => \A v \in shown : v[1] \in ScriptCodes,
         NEW S, SubmitPad(S)
  PROVE  /\ UsesUinput(padPath, padKind) => \A v \in shown' : v[1] \in ScriptCodes
         /\ inStep' \in BOOLEAN /\ inStep' => shown' = ShownOf({}, S)
<1> DEFINE script == StateScript(padPath, padKind, S)
<1>1. {e[1] : e \in Range(script)} = ScriptCodes
  BY Written
<1>2. script \in Seq(Events)
  BY ScriptEvents
<1>3. ASSUME NEW s, Range(s) \subseteq Range(script), UsesUinput(padPath, padKind)
      PROVE  \A v \in Fed(shown, s) : v[1] \in ScriptCodes
  <2> HIDE DEF script
  <2> QED BY <1>1, <1>3 DEF Fed
<1>4. CASE inStep' = TRUE /\ shown' = ShownOf(shown, S)
  <2>1. CASE UsesUinput(padPath, padKind)
    <3>1. shown' = Fed(shown, script)
      BY <1>4, <2>1 DEF ShownOf
    <3>2. Fed(shown, script) = Fed({}, script)
      BY <2>1, FedAnew
    <3> QED BY <1>3, <1>4, <2>1, <3>1, <3>2 DEF ShownOf
  <2>2. CASE ~UsesUinput(padPath, padKind)
    BY <1>4, <2>2 DEF ShownOf
  <2> QED BY <2>1, <2>2
<1>5. CASE inStep' = FALSE
  <2>1. CASE UsesUinput(padPath, padKind)
    <3>1. PICK n \in 0 .. Len(script) - 1 : shown' = Fed(shown, Sent(script, n))
      BY <1>5, <2>1 DEF SubmitPad
    <3>2. Range(Sent(script, n)) \subseteq Range(script)
      BY <1>2, Prefix
    <3> QED BY <1>3, <1>5, <2>1, <3>1, <3>2
  <2>2. CASE ~UsesUinput(padPath, padKind)
    BY <1>5, <2>2
  <2> QED BY <2>1, <2>2
<1> QED BY <1>4, <1>5 DEF SubmitPad

LEMMA PadStarts == PadInit => PadInv
BY DEF PadInit, PadInv

LEMMA ChangedInv ==
  ASSUME PadInv, NEW S, Changed(S)
  PROVE  PadInv'
<1>1. /\ UsesUinput(padPath, padKind) => \A v \in shown' : v[1] \in ScriptCodes
      /\ inStep' => shown' = ShownOf({}, S)
  BY SubmitInv DEF PadInv, Changed
<1>2. held' = S /\ padOpen' = "open" /\ UNCHANGED <<padPath, padKind>>
  BY DEF Changed
<1> QED BY <1>1, <1>2 DEF PadInv, ScriptCodes, ShownOf, Fed

LEMMA PadStep == PadInv /\ [PadNext]_padVars => PadInv'
<1> SUFFICES ASSUME PadInv, [PadNext]_padVars PROVE PadInv'
  OBVIOUS
<1>1. CASE CreateAdapter
  <2>1. /\ UsesUinput(padPath, padKind) => \A v \in shown' : v[1] \in ScriptCodes
        /\ inStep' => shown' = ShownOf({}, {})
    BY <1>1, SubmitInv DEF PadInv, CreateAdapter
  <2>2. held' = {} /\ padOpen' # "no" /\ UNCHANGED <<padPath, padKind>>
    BY <1>1 DEF CreateAdapter, PadInv
  <2> QED BY <2>1, <2>2 DEF PadInv, ScriptCodes, ShownOf, Fed
<1>2. ASSUME NEW input \in Inputs, NEW active \in BOOLEAN, SetInput(input, active) PROVE PadInv'
  BY <1>2, ChangedInv DEF SetInput
<1>3. ASSUME NEW active \in BOOLEAN, SetMotion(active) PROVE PadInv'
  BY <1>3, ChangedInv DEF SetMotion
<1>4. ASSUME NEW S, SetState(S) PROVE PadInv'
  BY <1>4, ChangedInv DEF SetState
<1>5. CASE Resubmit
  <2>1. /\ UsesUinput(padPath, padKind) => \A v \in shown' : v[1] \in ScriptCodes
        /\ inStep' => shown' = ShownOf({}, held)
    BY <1>5, SubmitInv DEF PadInv, Resubmit
  <2>2. UNCHANGED <<padPath, padKind, padOpen, held>>
    BY <1>5 DEF Resubmit
  <2> QED BY <2>1, <2>2 DEF PadInv, ScriptCodes, ShownOf, Fed
<1>6. CASE ClosePad
  BY <1>6 DEF ClosePad, PadInv, ScriptCodes
<1>7. CASE UNCHANGED padVars
  BY <1>7 DEF padVars, PadInv, ScriptCodes, ShownOf, Fed
<1> QED BY <1>1, <1>2, <1>3, <1>4, <1>5, <1>6, <1>7 DEF PadNext

LEMMA HidTold ==
  ASSUME padPath \in Paths, padKind \in Kinds, ~UsesUinput(padPath, padKind),
         NEW S, NEW i \in Accepted(padPath, padKind)
  PROVE  Report(padKind, S) = Report(padKind, Toggled(S, i)) <=> i \in NeverShown
<1>1. ToldBy(padKind, S)
  BY GenericTold, Xbox360Told, XboxGipTold, Dualshock4Told, DualsenseTold, SwitchProTold DEF Kinds
<1>2. padPath # "freebsd"
  BY DEF UsesUinput
<1>3. i \in Accepted("hid", padKind)
  BY <1>2 DEF Accepted, EffectiveCapabilities
<1>4. i \in NeverShown <=> padKind = "switch_pro" /\ i \in Motion
  BY DEF NeverShown
<1> QED BY <1>1, <1>3, <1>4 DEF ToldBy

\* Whatever earlier submissions left half written, however many inputs are held
\* and however often submissions fail: after one that succeeds the host has all
\* of the adapter's state, and every accepted input makes a difference to it
\* but the few that no report or code carries.
THEOREM WholeStateShown == PadSpec => []PadShown
<1>1. PadInv => PadShown
  <2> SUFFICES ASSUME PadInv, padOpen = "open", inStep,
                      NEW i \in Accepted(padPath, padKind)
               PROVE  ShownOf({}, held) = ShownOf({}, Toggled(held, i)) <=> i \in NeverShown
    BY DEF PadInv, PadShown
  <2> QED BY UinputTold, HidTold DEF PadInv, ShownOf
<1> QED BY <1>1, PadStarts, PadStep, PTL DEF PadSpec

-----------------------------------------------------------------------------
(* The types.  Turning one motion sensor off leaves one input, which is why  *)
(* at least one may be held.                                                 *)
PadTyped == PadTypeOK /\ IsFiniteSet(held)

LEMMA SubmitTyped ==
  ASSUME PadTyped, NEW S, SubmitPad(S)
  PROVE  inStep' \in BOOLEAN /\ padFailures' \in 0 .. MaxPadFailures
<1>1. padFailures \in 0 .. MaxPadFailures /\ MaxPadFailures \in Nat
  BY PadBounds DEF PadTyped, PadTypeOK
<1>2. inStep' \in BOOLEAN
  BY DEF SubmitPad
<1>3. padFailures' = padFailures \/ (padFailures < MaxPadFailures /\ padFailures' = padFailures + 1)
  BY DEF SubmitPad
<1>4. padFailures' \in 0 .. MaxPadFailures
  BY <1>1, <1>3
<1> QED BY <1>2, <1>4

LEMMA TypedChange ==
  ASSUME PadTyped, NEW S \in SUBSET Inputs, Changed(S), IsFiniteSet(S),
         Cardinality(S) <= MaxHeld \/ S = Motion
  PROVE  PadTyped'
<1>1. held' = S /\ padOpen' = "open" /\ UNCHANGED <<padPath, padKind>>
  BY DEF Changed
<1>2. inStep' \in BOOLEAN /\ padFailures' \in 0 .. MaxPadFailures
  BY SubmitTyped DEF Changed
<1> QED BY <1>1, <1>2 DEF PadTyped, PadTypeOK

LEMMA MotionFinite == IsFiniteSet(Motion) /\ Motion \subseteq Inputs
<1>1. /\ IsFiniteSet({"acceleration"}) /\ IsFiniteSet({"gyroscope"})
      /\ Motion = {"acceleration"} \cup {"gyroscope"}
  BY FS_Singleton DEF Motion
<1> QED BY <1>1, FS_Union DEF Inputs

LEMMA PadTypedInit == PadInit => PadTyped
<1> SUFFICES ASSUME PadInit PROVE PadTyped
  OBVIOUS
<1>1. IsFiniteSet(held) /\ Cardinality(held) = 0 /\ held = {}
  BY FS_EmptySet DEF PadInit
<1>2. held \subseteq Inputs /\ Cardinality(held) <= MaxHeld
  BY <1>1, PadBounds
<1>3. inStep \in BOOLEAN
  BY DEF PadInit
<1>4. padOpen \in {"no", "open", "closed"} /\ padPath \in Paths /\ padKind \in Kinds
  BY DEF PadInit
<1>5. padFailures \in 0 .. MaxPadFailures
  BY PadBounds DEF PadInit
<1> QED BY <1>1, <1>2, <1>3, <1>4, <1>5 DEF PadTyped, PadTypeOK

LEMMA PadTypedStep == PadTyped /\ [PadNext]_padVars => PadTyped'
<1> SUFFICES ASSUME PadTyped, [PadNext]_padVars PROVE PadTyped'
  OBVIOUS
<1>0. /\ held \in SUBSET Inputs /\ IsFiniteSet(held) /\ MaxHeld \in Nat \ {0}
      /\ Cardinality(held) \in Nat /\ (Cardinality(held) <= MaxHeld \/ held = Motion)
  BY PadBounds, FS_CardinalityType DEF PadTyped, PadTypeOK
<1>1. CASE CreateAdapter
  <2>1. inStep' \in BOOLEAN /\ padFailures' \in 0 .. MaxPadFailures
    BY <1>1, SubmitTyped DEF CreateAdapter
  <2> QED BY <1>1, <2>1 DEF PadTyped, PadTypeOK, CreateAdapter
<1>2. ASSUME NEW input \in Inputs, NEW active \in BOOLEAN, SetInput(input, active)
      PROVE  PadTyped'
  <2>1. CASE active
    <3>1. Changed(held \cup {input}) /\ Cardinality(held) < MaxHeld
      BY <1>2, <2>1 DEF SetInput
    <3>2. /\ IsFiniteSet(held \cup {input})
          /\ Cardinality(held \cup {input}) <= Cardinality(held) + 1
      <4>1. /\ IsFiniteSet(held \cup {input})
            /\ \/ Cardinality(held \cup {input}) = Cardinality(held)
               \/ Cardinality(held \cup {input}) = Cardinality(held) + 1
        BY <1>0, FS_AddElement
      <4> QED BY <1>0, <4>1
    <3>3. Cardinality(held \cup {input}) \in Nat
      BY <3>2, FS_CardinalityType
    <3>4. Cardinality(held \cup {input}) <= MaxHeld
      BY <1>0, <3>1, <3>2, <3>3
    <3>5. held \cup {input} \in SUBSET Inputs
      BY <1>0
    <3> QED BY <3>1, <3>2, <3>4, <3>5, TypedChange
  <2>2. CASE ~active
    <3>1. Changed(held \ {input}) /\ held \ {input} # held
      BY <1>2, <2>2 DEF SetInput, Changed
    <3>2. input \in held
      BY <3>1
    <3>3. /\ IsFiniteSet(held \ {input})
          /\ Cardinality(held \ {input}) = Cardinality(held) - 1
      BY <1>0, <3>2, FS_RemoveElement
    <3>4. Cardinality(held \ {input}) <= MaxHeld
      <4>1. CASE held = Motion
        <5>1. PICK other : held \ {input} = {other}
          BY <3>2, <4>1 DEF Motion
        <5>2. Cardinality({other}) = 1
          BY FS_Singleton
        <5> QED BY <1>0, <5>1, <5>2
      <4>2. CASE Cardinality(held) <= MaxHeld
        BY <1>0, <3>3, <4>2
      <4> QED BY <1>0, <4>1, <4>2
    <3>5. held \ {input} \in SUBSET Inputs
      BY <1>0
    <3> QED BY <3>1, <3>3, <3>4, <3>5, TypedChange
  <2> QED BY <2>1, <2>2
<1>3. ASSUME NEW active \in BOOLEAN, SetMotion(active) PROVE PadTyped'
  <2>1. CASE active
    <3>1. Changed(Motion)
      <4>1. held \cup Motion = Motion
        BY <1>3, <2>1 DEF SetMotion
      <4> QED BY <1>3, <2>1, <4>1 DEF SetMotion
    <3> QED BY <3>1, MotionFinite, TypedChange
  <2>2. CASE ~active
    <3>1. Changed(held \ Motion)
      BY <1>3, <2>2 DEF SetMotion
    <3>2. /\ IsFiniteSet(held \ Motion)
          /\ Cardinality(held \ Motion) <= Cardinality(held)
      BY <1>0, FS_Subset
    <3>3. Cardinality(held \ Motion) \in Nat
      BY <3>2, FS_CardinalityType
    <3>4. Cardinality(held \ Motion) <= MaxHeld
      <4>1. CASE held = Motion
        <5>1. held \ Motion = {}
          BY <4>1
        <5> QED BY <1>0, <5>1, FS_EmptySet
      <4>2. CASE Cardinality(held) <= MaxHeld
        BY <1>0, <3>2, <3>3, <4>2
      <4> QED BY <1>0, <4>1, <4>2
    <3>5. held \ Motion \in SUBSET Inputs
      BY <1>0
    <3> QED BY <3>1, <3>2, <3>4, <3>5, TypedChange
  <2> QED BY <2>1, <2>2
<1>4. ASSUME NEW input \in Inputs, SetState({input}) PROVE PadTyped'
  <2>1. IsFiniteSet({input}) /\ Cardinality({input}) = 1
    BY FS_Singleton
  <2>2. Cardinality({input}) <= MaxHeld
    BY <1>0, <2>1
  <2> QED BY <1>4, <2>1, <2>2, TypedChange DEF SetState
<1>5. CASE SetState({})
  <2>1. IsFiniteSet({}) /\ Cardinality({}) <= MaxHeld
    BY <1>0, FS_EmptySet
  <2> QED BY <1>5, <2>1, TypedChange DEF SetState
<1>6. CASE Resubmit
  <2>1. inStep' \in BOOLEAN /\ padFailures' \in 0 .. MaxPadFailures
    BY <1>6, SubmitTyped DEF Resubmit
  <2> QED BY <1>6, <2>1 DEF PadTyped, PadTypeOK, Resubmit
<1>7. CASE ClosePad
  BY <1>7 DEF ClosePad, PadTyped, PadTypeOK
<1>8. CASE UNCHANGED padVars
  BY <1>8 DEF padVars, PadTyped, PadTypeOK
<1> QED BY <1>1, <1>2, <1>3, <1>4, <1>5, <1>6, <1>7, <1>8 DEF PadNext

(* The types of the adapter, for every number of held inputs and failures.   *)
THEOREM PadTypeCorrect == PadSpec => []PadTypeOK
<1>1. PadTyped => PadTypeOK
  BY DEF PadTyped
<1> QED BY <1>1, PadTypedInit, PadTypedStep, PTL DEF PadSpec
=============================================================================
