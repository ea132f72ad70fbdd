----------------------------- MODULE LinuxProofs -----------------------------
(* Theorems about the Linux keyboard, the force feedback of the uinput       *)
(* gamepads and the UHID gamepad, for any keys, effects and bounds.          *)
EXTENDS LinuxDevices, LinuxPointerProofs, RuntimeProofs, PadProofs, SequenceTheorems, TLAPS

-----------------------------------------------------------------------------
(* The keyboard                                                              *)

KeyEvents == [key : AllKeys, pressed : BOOLEAN]

KeyboardTypes ==
  /\ KeyboardTypeOK
  /\ keyQueue \in Seq(KeyEvents)
  /\ keyFailures \in Nat

(* Nothing has happened before the keyboard is created. *)
Fresh ==
  keyboard = "none" =>
    /\ keysDown = {} /\ pressed_keys = {} /\ ghosts = {}
    /\ keyCall = "idle" /\ repeatStep = "none"

(* EV_KEY is written and pressed_keys_ not yet updated *)
Between == keyCall \in {"sync", "update"}

(* A key that was pressed again late is in no snapshot, and pressed_keys_    *)
(* will not show it before the application has written a press of it.        *)
LateOnce ==
  \A k \in AllKeys :
    /\ late[k] <= 1
    /\ late[k] = 1 => /\ k \notin snapshot /\ k \notin pressed_keys
                      /\ ~(Between /\ Current = Event(k, TRUE))

(* What pressed_keys_ says of a key, once the event being submitted counts *)
KeyWritten(k) ==
  IF Between /\ Current.key = k THEN Current.pressed ELSE k \in pressed_keys

(* The kernel holds what was written and what the repeat thread pressed; of  *)
(* a key about to be pressed nothing is said, because the repeat thread may  *)
(* press it first.                                                           *)
HeldDown ==
  keyboard = "uinput" /\ keyFailures = 0 =>
    \A k \in AllKeys :
      ~(keyCall = "key" /\ Current = Event(k, TRUE)) =>
        (k \in keysDown <=> KeyWritten(k) \/ k \in ghosts)

KeyboardInv == KeyboardTypes /\ Fresh /\ LateOnce /\ HeldDown

LEMMA EventsEqual ==
  ASSUME NEW e \in KeyEvents, NEW k \in AllKeys, NEW down \in BOOLEAN
  PROVE  /\ e = Event(k, down) <=> e.key = k /\ e.pressed = down
         /\ e.key \in AllKeys /\ e.pressed \in BOOLEAN
BY DEF KeyEvents, Event

LEMMA EventTyped ==
  ASSUME NEW k \in AllKeys, NEW down \in BOOLEAN
  PROVE  Event(k, down) \in KeyEvents
BY DEF KeyEvents, Event

LEMMA AfterKey ==
  ASSUME NEW set, NEW k, NEW down \in BOOLEAN
  PROVE  KeysAfter(set, Key(k, down)) = IF down THEN set \cup {k} ELSE set \ {k}
BY DEF KeysAfter, Key

LEMMA PairTyped ==
  ASSUME NEW S, NEW e \in S, NEW f \in S
  PROVE  <<e, f>> \in Seq(S) /\ Len(<<e, f>>) = 2
OBVIOUS

LEMMA JoinTyped ==
  ASSUME NEW S, NEW s \in Seq(S), NEW t \in Seq(S)
  PROVE  s \o t \in Seq(S) /\ Len(s \o t) >= Len(s) /\ Len(s) \in Nat
OBVIOUS

LEMMA TextTyped ==
  UnicodeHex(<<"1">>) \in Seq(KeyEvents) /\ UnicodeHex(<<"1">>) # <<>>
<1> DEFINE first == <<Event("ctrl", TRUE), Event("shift", TRUE)>>
           after == <<Event("shift", FALSE), Event("ctrl", FALSE)>>
           digits == [i \in 1 .. 2 * Len(<<"1">>) |->
                        Event((<<"1">>)[(i + 1) \div 2], i % 2 = 1)]
<1>1. TextKeys \subseteq AllKeys
  BY DEF AllKeys
<1>2. \A k \in TextKeys : \A down \in BOOLEAN : Event(k, down) \in KeyEvents
  BY <1>1, EventTyped
<1>3. first \in Seq(KeyEvents) /\ after \in Seq(KeyEvents)
  <2>1. /\ Event("ctrl", TRUE) \in KeyEvents /\ Event("shift", TRUE) \in KeyEvents
        /\ Event("shift", FALSE) \in KeyEvents /\ Event("ctrl", FALSE) \in KeyEvents
    BY <1>2 DEF TextKeys
  <2> QED BY <2>1, PairTyped
<1>4. Tap("u") \in Seq(KeyEvents) /\ Tap("return") \in Seq(KeyEvents)
  <2>1. ASSUME NEW k \in {"u", "return"} PROVE Tap(k) \in Seq(KeyEvents)
    <3>1. Event(k, TRUE) \in KeyEvents /\ Event(k, FALSE) \in KeyEvents
      BY <1>2 DEF TextKeys
    <3> QED BY <3>1, PairTyped DEF Tap
  <2> QED BY <2>1
<1>5. digits \in Seq(KeyEvents)
  <2>1. 2 * Len(<<"1">>) = 2
    OBVIOUS
  <2>2. \A i \in 1 .. 2 : (<<"1">>)[(i + 1) \div 2] = "1"
    <3> TAKE i \in 1 .. 2
    <3>1. (i + 1) \div 2 = 1
      OBVIOUS
    <3> QED BY <3>1
  <2>3. \A i \in 1 .. 2 : digits[i] \in KeyEvents
    BY <1>2, <2>1, <2>2 DEF TextKeys
  <2> QED BY <2>1, <2>3
<1>6. UnicodeHex(<<"1">>) = first \o Tap("u") \o after \o digits \o Tap("return")
  BY DEF UnicodeHex
<1>7. Len(first) = 2
  BY PairTyped
<1> HIDE DEF first, after, digits
<1>8. first \o Tap("u") \in Seq(KeyEvents) /\ Len(first \o Tap("u")) >= 2
  BY <1>3, <1>4, <1>7, JoinTyped
<1>9. /\ first \o Tap("u") \o after \in Seq(KeyEvents)
      /\ Len(first \o Tap("u") \o after) >= 2
  BY <1>3, <1>8, JoinTyped
<1>10. /\ first \o Tap("u") \o after \o digits \in Seq(KeyEvents)
       /\ Len(first \o Tap("u") \o after \o digits) >= 2
  BY <1>5, <1>9, JoinTyped
<1>11. /\ UnicodeHex(<<"1">>) \in Seq(KeyEvents)
       /\ Len(UnicodeHex(<<"1">>)) >= 2
  <2> DEFINE most == first \o Tap("u") \o after \o digits
  <2>1. UnicodeHex(<<"1">>) = most \o Tap("return")
    BY <1>6
  <2>2. most \in Seq(KeyEvents) /\ Len(most) >= 2
    BY <1>10
  <2> HIDE DEF most
  <2>3. Len(most) \in Nat /\ most \o Tap("return") \in Seq(KeyEvents)
        /\ Len(most \o Tap("return")) >= Len(most)
    BY <1>4, <2>2, JoinTyped
  <2>4. Len(most \o Tap("return")) \in Nat
    BY <2>3
  <2>5. Len(most \o Tap("return")) >= 2
    BY <2>2, <2>3, <2>4
  <2> QED BY ONLY <2>1, <2>3, <2>5
<1> QED BY <1>11

-----------------------------------------------------------------------------
(* The steps of the application's thread *)

LEMMA CurrentTyped ==
  ASSUME KeyboardTypes, keyCall \in Submitting
  PROVE  /\ Current \in KeyEvents /\ Current.key \in AllKeys
         /\ Current.pressed \in BOOLEAN
         /\ Tail(keyQueue) \in Seq(KeyEvents)
         /\ Len(keyQueue) # 1 => Tail(keyQueue) # <<>>
<1>1. keyQueue \in Seq(KeyEvents) /\ keyQueue # <<>>
  BY DEF KeyboardTypes, KeyboardTypeOK
<1>2. Len(keyQueue) \in Nat /\ Len(keyQueue) >= 1
  BY <1>1
<1>3. Current \in KeyEvents
  BY <1>1, <1>2 DEF Current
<1>4. Tail(keyQueue) \in Seq(KeyEvents) /\ Len(Tail(keyQueue)) = Len(keyQueue) - 1
  BY <1>1
<1>5. Len(keyQueue) # 1 => Tail(keyQueue) # <<>>
  BY <1>2, <1>4
<1> QED BY <1>3, <1>4, <1>5 DEF KeyEvents

LEMMA KeyboardStarts == KeyboardInit => KeyboardInv
<1> SUFFICES ASSUME KeyboardInit PROVE KeyboardInv
  OBVIOUS
<1>1. KeyboardTypes
  <2>1. keyQueue \in Seq(KeyEvents) /\ keyFailures \in Nat
    BY DEF KeyboardInit
  <2>2. late \in [AllKeys -> 0 .. 2]
    BY DEF KeyboardInit
  <2>3. KeyboardTypeOK
    BY <2>2 DEF KeyboardInit, KeyboardTypeOK, Submitting
  <2> QED BY <2>1, <2>3 DEF KeyboardTypes
<1>2. Fresh
  BY DEF KeyboardInit, Fresh
<1>3. LateOnce
  BY DEF KeyboardInit, LateOnce
<1>4. HeldDown
  BY DEF KeyboardInit, HeldDown
<1> QED BY <1>1, <1>2, <1>3, <1>4 DEF KeyboardInv

LEMMA SentKey ==
  ASSUME KeyboardInv, keyCall = "key", Sends
  PROVE  /\ keysDown' \subseteq AllKeys /\ ghosts' \subseteq AllKeys
         /\ late' \in [AllKeys -> 0 .. 2]
         /\ keysDown' = IF Current.pressed THEN keysDown \cup {Current.key}
                        ELSE keysDown \ {Current.key}
         /\ \A k \in AllKeys : late'[k] = IF k = Current.key THEN 0 ELSE late[k]
<1>1. Current.key \in AllKeys /\ Current.pressed \in BOOLEAN
  BY CurrentTyped DEF KeyboardInv, Submitting
<1>2. /\ keysDown \subseteq AllKeys /\ ghosts \subseteq AllKeys
      /\ late \in [AllKeys -> 0 .. 2]
  BY DEF KeyboardInv, KeyboardTypes, KeyboardTypeOK
<1>3. keysDown' = IF Current.pressed THEN keysDown \cup {Current.key}
                  ELSE keysDown \ {Current.key}
  BY <1>1, AfterKey DEF Sends
<1> QED BY <1>1, <1>2, <1>3 DEF Sends

LEMMA WriteKeyInv == KeyboardInv /\ WriteKey => KeyboardInv'
<1> SUFFICES ASSUME KeyboardInv, WriteKey PROVE KeyboardInv'
  OBVIOUS
<1>1. keyboard = "uinput" /\ keyCall = "key"
  BY DEF WriteKey
<1>2. CASE Sends /\ keyCall' = "sync" /\ UNCHANGED <<keyQueue, keyFailures>>
  <2>1. Current' = Current
    BY <1>2 DEF Current
  <2>2. Current.key \in AllKeys /\ Current.pressed \in BOOLEAN /\ Current \in KeyEvents
    BY <1>1, CurrentTyped DEF KeyboardInv, Submitting
  <2>3. KeyboardTypes'
    BY <1>1, <1>2, SentKey
       DEF WriteKey, KeyboardInv, KeyboardTypes, KeyboardTypeOK, Submitting
  <2>4. Fresh'
    BY <1>1 DEF WriteKey, Fresh
  <2>5. LateOnce'
    <3> SUFFICES ASSUME NEW k \in AllKeys
                 PROVE  /\ late'[k] <= 1
                        /\ late'[k] = 1 =>
                             /\ k \notin snapshot /\ k \notin pressed_keys
                             /\ ~(Between' /\ Current = Event(k, TRUE))
      BY <2>1 DEF LateOnce, WriteKey
    <3>0. late'[k] = IF k = Current.key THEN 0 ELSE late[k]
      BY <1>1, <1>2, SentKey
    <3>1. CASE k = Current.key
      BY <3>0, <3>1
    <3>2. CASE k # Current.key
      <4>1. late'[k] = late[k]
        BY <3>0, <3>2
      <4>2. Current # Event(k, TRUE)
        BY <2>2, <3>2, EventsEqual
      <4> QED BY <4>1, <4>2 DEF KeyboardInv, LateOnce
    <3> QED BY <3>1, <3>2
  <2>6. HeldDown'
    <3> SUFFICES ASSUME keyFailures = 0, NEW k \in AllKeys
                 PROVE  k \in keysDown' <=> KeyWritten(k)' \/ k \in ghosts'
      BY <1>2 DEF HeldDown, WriteKey
    <3>1. keysDown' = IF Current.pressed THEN keysDown \cup {Current.key}
                      ELSE keysDown \ {Current.key}
      BY <1>1, <1>2, SentKey
    <3>2. ghosts' = ghosts \ {Current.key}
      BY <1>2 DEF Sends
    <3>3. Between' /\ ~Between
      BY <1>1, <1>2 DEF Between
    <3>4. KeyWritten(k)' = IF Current.key = k THEN Current.pressed ELSE k \in pressed_keys
      BY <2>1, <3>3 DEF KeyWritten, WriteKey
    <3>5. CASE k = Current.key
      BY <2>2, <3>1, <3>2, <3>4, <3>5
    <3>6. CASE k # Current.key
      <4>1. Current # Event(k, TRUE)
        BY <2>2, <3>6, EventsEqual
      <4>2. KeyWritten(k) = (k \in pressed_keys)
        BY <3>3 DEF KeyWritten
      <4>3. k \in keysDown <=> KeyWritten(k) \/ k \in ghosts
        BY <1>1, <4>1 DEF KeyboardInv, HeldDown
      <4> QED BY <3>1, <3>2, <3>4, <3>6, <4>2, <4>3
    <3> QED BY <3>5, <3>6
  <2> QED BY <2>3, <2>4, <2>5, <2>6 DEF KeyboardInv
<1>3. CASE WriteFails /\ ReturnFailure /\ UNCHANGED <<keysDown, ghosts, late>>
  <2>1. KeyboardTypes'
    BY <1>1, <1>3 DEF WriteKey, WriteFails, ReturnFailure, KeyboardInv, KeyboardTypes,
                      KeyboardTypeOK, Submitting
  <2>2. Fresh'
    BY <1>1 DEF WriteKey, Fresh
  <2>3. ~Between'
    BY <1>3 DEF ReturnFailure, Between
  <2>4. LateOnce'
    BY <1>3, <2>3 DEF KeyboardInv, LateOnce, WriteKey
  <2>5. HeldDown'
    BY <1>3 DEF KeyboardInv, KeyboardTypes, HeldDown, WriteFails
  <2> QED BY <2>1, <2>2, <2>4, <2>5 DEF KeyboardInv
<1> QED BY <1>2, <1>3 DEF WriteKey

LEMMA NextKeyTyped ==
  ASSUME KeyboardInv, keyCall \in Submitting, NextKey
  PROVE  /\ keyQueue' \in Seq(KeyEvents) /\ keyCall' \in {"idle", "key"}
         /\ keyCall' \in Submitting => keyQueue' # <<>>
         /\ ~Between'
<1>1. /\ Tail(keyQueue) \in Seq(KeyEvents)
      /\ Len(keyQueue) # 1 => Tail(keyQueue) # <<>>
  BY CurrentTyped DEF KeyboardInv
<1> QED BY <1>1 DEF NextKey, Between, Submitting

LEMMA SubmitXTestKeyInv == KeyboardInv /\ SubmitXTestKey => KeyboardInv'
<1> SUFFICES ASSUME KeyboardInv, SubmitXTestKey PROVE KeyboardInv'
  OBVIOUS
<1>1. /\ keyboard = "xtest" /\ keyboard' = keyboard /\ keyCall = "key"
      /\ keyCall \in Submitting
  BY DEF SubmitXTestKey, Submitting
<1>2. Fresh' /\ HeldDown'
  BY <1>1 DEF Fresh, HeldDown
<1>3. CASE Sends /\ NextKey /\ UNCHANGED keyFailures
  <2>1. /\ keyQueue' \in Seq(KeyEvents) /\ keyCall' \in {"idle", "key"}
        /\ keyCall' \in Submitting => keyQueue' # <<>>
        /\ ~Between'
    BY <1>1, <1>3, NextKeyTyped
  <2>2. /\ keysDown' \subseteq AllKeys /\ ghosts' \subseteq AllKeys
        /\ late' \in [AllKeys -> 0 .. 2]
        /\ \A k \in AllKeys : late'[k] = IF k = Current.key THEN 0 ELSE late[k]
    BY <1>1, <1>3, SentKey
  <2>3. KeyboardTypes'
    BY <1>1, <1>3, <2>1, <2>2
       DEF SubmitXTestKey, KeyboardInv, KeyboardTypes, KeyboardTypeOK, Submitting
  <2>4. LateOnce'
    <3> SUFFICES ASSUME NEW k \in AllKeys
                 PROVE  /\ late'[k] <= 1
                        /\ late'[k] = 1 => k \notin snapshot /\ k \notin pressed_keys
      BY <2>1 DEF SubmitXTestKey, LateOnce
    <3>1. late'[k] = IF k = Current.key THEN 0 ELSE late[k]
      BY <2>2
    <3>2. late[k] <= 1 /\ (late[k] = 1 => k \notin snapshot /\ k \notin pressed_keys)
      BY DEF KeyboardInv, LateOnce
    <3> QED BY <3>1, <3>2
  <2> QED BY <1>2, <2>3, <2>4 DEF KeyboardInv
<1>4. CASE WriteFails /\ ReturnFailure /\ UNCHANGED <<keysDown, ghosts, late>>
  <2>1. KeyboardTypes'
    BY <1>1, <1>4 DEF SubmitXTestKey, WriteFails, ReturnFailure, KeyboardInv,
                      KeyboardTypes, KeyboardTypeOK, Submitting
  <2>2. LateOnce'
    BY <1>4 DEF SubmitXTestKey, ReturnFailure, KeyboardInv, LateOnce, Between
  <2> QED BY <1>2, <2>1, <2>2 DEF KeyboardInv
<1> QED BY <1>3, <1>4 DEF SubmitXTestKey

LEMMA WriteSynInv == KeyboardInv /\ WriteSyn => KeyboardInv'
<1> SUFFICES ASSUME KeyboardInv, WriteSyn PROVE KeyboardInv'
  OBVIOUS
<1>1. keyCall = "sync" /\ keyboard # "none" /\ Between
  BY DEF WriteSyn, KeyboardInv, Fresh, Between
<1>2. Fresh'
  BY <1>1 DEF WriteSyn, Fresh
<1>3. CASE keyCall' = "update" /\ UNCHANGED <<keyQueue, keyFailures>>
  <2>1. Current' = Current /\ Between'
    BY <1>3 DEF Current, Between
  <2>2. KeyboardTypes'
    BY <1>1, <1>3 DEF WriteSyn, KeyboardInv, KeyboardTypes, KeyboardTypeOK, Submitting
  <2>3. LateOnce'
    BY <1>1, <2>1 DEF WriteSyn, KeyboardInv, LateOnce
  <2>4. HeldDown'
    <3> SUFFICES ASSUME keyboard = "uinput", keyFailures = 0, NEW k \in AllKeys
                 PROVE  k \in keysDown' <=> KeyWritten(k)' \/ k \in ghosts'
      BY <1>3 DEF HeldDown, WriteSyn
    <3>1. k \in keysDown <=> KeyWritten(k) \/ k \in ghosts
      BY <1>1 DEF KeyboardInv, HeldDown
    <3>2. KeyWritten(k)' = KeyWritten(k)
      BY <1>1, <2>1 DEF KeyWritten, WriteSyn
    <3> QED BY <3>1, <3>2 DEF WriteSyn
  <2> QED BY <1>2, <2>2, <2>3, <2>4 DEF KeyboardInv
<1>4. CASE WriteFails /\ ReturnFailure
  <2>1. KeyboardTypes'
    BY <1>1, <1>4 DEF WriteSyn, WriteFails, ReturnFailure, KeyboardInv, KeyboardTypes,
                      KeyboardTypeOK, Submitting
  <2>2. LateOnce'
    BY <1>4 DEF WriteSyn, ReturnFailure, KeyboardInv, LateOnce, Between
  <2>3. HeldDown'
    BY <1>4 DEF KeyboardInv, KeyboardTypes, HeldDown, WriteFails
  <2> QED BY <1>2, <2>1, <2>2, <2>3 DEF KeyboardInv
<1> QED BY <1>3, <1>4 DEF WriteSyn

LEMMA UpdatePressedKeysInv == KeyboardInv /\ UpdatePressedKeys => KeyboardInv'
<1> SUFFICES ASSUME KeyboardInv, UpdatePressedKeys PROVE KeyboardInv'
  OBVIOUS
<1>1. /\ keyCall = "update" /\ keyboard # "none" /\ Between /\ keyCall \in Submitting
      /\ NextKey
  BY DEF UpdatePressedKeys, KeyboardInv, Fresh, Between, Submitting
<1>2. /\ keyQueue' \in Seq(KeyEvents) /\ keyCall' \in {"idle", "key"}
      /\ keyCall' \in Submitting => keyQueue' # <<>>
      /\ ~Between'
  BY <1>1, NextKeyTyped
<1>3. Current.key \in AllKeys /\ Current.pressed \in BOOLEAN /\ Current \in KeyEvents
  BY <1>1, CurrentTyped DEF KeyboardInv
<1>4. pressed_keys' = IF Current.pressed THEN pressed_keys \cup {Current.key}
                      ELSE pressed_keys \ {Current.key}
  BY <1>3, AfterKey DEF UpdatePressedKeys
<1>5. KeyboardTypes'
  <2>1. pressed_keys' \subseteq AllKeys
    BY <1>3, <1>4 DEF KeyboardInv, KeyboardTypes, KeyboardTypeOK
  <2> QED BY <1>2, <2>1
          DEF UpdatePressedKeys, KeyboardInv, KeyboardTypes, KeyboardTypeOK, Submitting
<1>6. Fresh'
  BY <1>1 DEF UpdatePressedKeys, Fresh
<1>7. LateOnce'
  <2> SUFFICES ASSUME NEW k \in AllKeys
               PROVE  /\ late[k] <= 1
                      /\ late[k] = 1 => k \notin snapshot /\ k \notin pressed_keys'
    BY <1>2 DEF UpdatePressedKeys, LateOnce
  <2>1. Current = Event(k, TRUE) <=> Current.key = k /\ Current.pressed = TRUE
    BY <1>3, EventsEqual
  <2> QED BY <1>1, <1>3, <1>4, <2>1 DEF KeyboardInv, LateOnce
<1>8. HeldDown'
  <2> SUFFICES ASSUME keyboard = "uinput", keyFailures = 0, NEW k \in AllKeys
               PROVE  k \in keysDown <=> KeyWritten(k)' \/ k \in ghosts
    BY DEF HeldDown, UpdatePressedKeys
  <2>1. KeyWritten(k)' = (k \in pressed_keys')
    BY <1>2 DEF KeyWritten
  <2>2. KeyWritten(k) = IF Current.key = k THEN Current.pressed ELSE k \in pressed_keys
    BY <1>1 DEF KeyWritten
  <2>3. k \in keysDown <=> KeyWritten(k) \/ k \in ghosts
    BY <1>1 DEF KeyboardInv, HeldDown
  <2>4. KeyWritten(k)' <=> KeyWritten(k)
    BY <1>3, <1>4, <2>1, <2>2
  <2> QED BY <2>3, <2>4
<1> QED BY <1>5, <1>6, <1>7, <1>8 DEF KeyboardInv

LEMMA OtherCallsInv ==
  ASSUME KeyboardInv,
         \/ \E kind \in {"uinput", "xtest"}, r \in BOOLEAN : CreateKeyboard(kind, r)
         \/ \E k \in Keys, down \in BOOLEAN : SubmitKeys(<<Event(k, down)>>)
         \/ SubmitKeys(UnicodeHex(<<"1">>))
         \/ StopRepeatThread
         \/ CloseKeyboard
  PROVE  KeyboardInv'
<1>1. ASSUME NEW kind \in {"uinput", "xtest"}, NEW r \in BOOLEAN, CreateKeyboard(kind, r)
      PROVE  KeyboardInv'
  <2>1. Fresh /\ keyboard = "none" /\ keyboard' = kind
    BY <1>1 DEF CreateKeyboard, KeyboardInv
  <2>2. KeyboardTypes'
    <3>1. repeat_running' \in BOOLEAN /\ repeatStep' \in {"asleep", "none"}
      BY <1>1 DEF CreateKeyboard
    <3> QED BY <1>1, <3>1 DEF CreateKeyboard, KeyboardInv, KeyboardTypes, KeyboardTypeOK
  <2>3. ~Between' /\ keyCall' = "idle"
    BY <1>1, <2>1 DEF CreateKeyboard, Fresh, Between
  <2>4. Fresh'
    BY <2>1 DEF Fresh
  <2>5. LateOnce'
    BY <1>1, <2>3 DEF CreateKeyboard, KeyboardInv, LateOnce
  <2>6. HeldDown'
    BY <1>1, <2>1, <2>3 DEF CreateKeyboard, HeldDown, Fresh, KeyWritten
  <2> QED BY <2>2, <2>4, <2>5, <2>6 DEF KeyboardInv
<1>2. ASSUME NEW events \in Seq(KeyEvents), events # <<>>, SubmitKeys(events)
      PROVE  KeyboardInv'
  <2>1. ~Between' /\ ~Between /\ keyboard # "none" /\ keyCall = "idle"
    BY <1>2 DEF SubmitKeys, Between
  <2>2. KeyboardTypes'
    BY <1>2 DEF SubmitKeys, KeyboardInv, KeyboardTypes, KeyboardTypeOK, Submitting
  <2>3. Fresh'
    BY <1>2, <2>1 DEF SubmitKeys, Fresh
  <2>4. LateOnce'
    BY <1>2, <2>1 DEF SubmitKeys, KeyboardInv, LateOnce
  <2>5. HeldDown'
    BY <1>2, <2>1 DEF SubmitKeys, KeyboardInv, HeldDown, KeyWritten
  <2> QED BY <2>2, <2>3, <2>4, <2>5 DEF KeyboardInv
<1>3. ASSUME NEW k \in Keys, NEW down \in BOOLEAN
      PROVE  <<Event(k, down)>> \in Seq(KeyEvents) /\ <<Event(k, down)>> # <<>>
  <2>1. Event(k, down) \in KeyEvents
    BY EventTyped DEF AllKeys
  <2> QED BY <2>1
<1>4. CASE StopRepeatThread
  <2>1. ~Between' /\ ~Between /\ keyboard # "none" /\ keyCall = "idle"
    BY <1>4 DEF StopRepeatThread, Between
  <2>2. KeyboardTypes'
    BY <1>4 DEF StopRepeatThread, KeyboardInv, KeyboardTypes, KeyboardTypeOK, Submitting
  <2>3. Fresh'
    BY <1>4, <2>1 DEF StopRepeatThread, Fresh
  <2>4. LateOnce'
    BY <1>4, <2>1 DEF StopRepeatThread, KeyboardInv, LateOnce
  <2>5. HeldDown'
    BY <1>4, <2>1 DEF StopRepeatThread, KeyboardInv, HeldDown, KeyWritten
  <2> QED BY <2>2, <2>3, <2>4, <2>5 DEF KeyboardInv
<1>5. CASE CloseKeyboard
  <2>1. keyboard' = "closed" /\ keyCall' = "idle" /\ ~Between'
    BY <1>5 DEF CloseKeyboard, Between
  <2>2. KeyboardTypes'
    BY <1>5 DEF CloseKeyboard, KeyboardInv, KeyboardTypes, KeyboardTypeOK, Submitting
  <2>3. Fresh' /\ HeldDown'
    BY <2>1 DEF Fresh, HeldDown
  <2>4. LateOnce'
    BY <1>5, <2>1 DEF CloseKeyboard, KeyboardInv, LateOnce
  <2> QED BY <2>2, <2>3, <2>4 DEF KeyboardInv
<1> QED BY <1>1, <1>2, <1>3, <1>4, <1>5, TextTyped

-----------------------------------------------------------------------------
(* The steps of the repeat thread *)

LEMMA WakesInv ==
  ASSUME KeyboardInv, WakeUp \/ StopRepeating
  PROVE  KeyboardInv'
<1>1. /\ UNCHANGED <<keyboard, pressed_keys, keyCall, keyCalls, keyQueue,
                     repeat_running, keysDown, keyFailures, ghosts, late>>
      /\ repeatStep \in {"asleep", "next"}
      /\ repeatStep' \in {"asleep", "next", "ended"}
      /\ snapshot' \in {snapshot, pressed_keys, {}}
  BY DEF WakeUp, StopRepeating, Repeater
<1>2. keyboard # "none"
  BY <1>1 DEF KeyboardInv, Fresh
<1>3. Current' = Current /\ Between' = Between
  BY <1>1 DEF Current, Between
<1>4. KeyboardTypes'
  BY <1>1 DEF KeyboardInv, KeyboardTypes, KeyboardTypeOK
<1>5. Fresh'
  BY <1>1, <1>2 DEF Fresh
<1>6. LateOnce'
  BY <1>1, <1>3 DEF KeyboardInv, LateOnce
<1>7. HeldDown'
  BY <1>1, <1>3 DEF KeyboardInv, HeldDown, KeyWritten
<1> QED BY <1>4, <1>5, <1>6, <1>7 DEF KeyboardInv

(* The heart of the argument: the key was in the snapshot, so it is its      *)
(* first late press; and the press shows in pressed_keys_ or among ghosts.   *)
LEMMA RepeatKeyInv ==
  ASSUME KeyboardInv, NEW k \in AllKeys, RepeatKey(k)
  PROVE  KeyboardInv'
<1>1. /\ UNCHANGED <<keyboard, pressed_keys, keyCall, keyCalls, keyQueue, repeat_running>>
      /\ repeatStep = "next" /\ repeatStep' \in {"asleep", "next"}
      /\ k \in snapshot /\ snapshot' = snapshot \ {k}
  BY DEF RepeatKey, Repeater
<1>2. keyboard # "none"
  BY <1>1 DEF KeyboardInv, Fresh
<1>3. Current' = Current /\ Between' = Between
  BY <1>1 DEF Current, Between
<1>4. Fresh'
  BY <1>1, <1>2 DEF Fresh
<1>5. late \in [AllKeys -> 0 .. 2] /\ late[k] = 0
  <2>1. late \in [AllKeys -> 0 .. 2]
    BY DEF KeyboardInv, KeyboardTypes, KeyboardTypeOK
  <2>2. late[k] <= 1 /\ (late[k] = 1 => k \notin snapshot)
    BY DEF KeyboardInv, LateOnce
  <2> QED BY <1>1, <2>1, <2>2
<1>6. CASE /\ keysDown' = keysDown \cup {k}
           /\ ghosts' = IF Released(k) THEN ghosts \cup {k} ELSE ghosts
           /\ late' = IF Released(k) /\ k \notin pressed_keys
                      THEN [late EXCEPT ![k] = IF @ = 0 THEN 1 ELSE 2] ELSE late
           /\ UNCHANGED keyFailures
  <2>1. late' = IF Released(k) /\ k \notin pressed_keys
                THEN [late EXCEPT ![k] = 1] ELSE late
    BY <1>5, <1>6
  <2>2. KeyboardTypes'
    <3>1. late' \in [AllKeys -> 0 .. 2]
      BY <1>5, <2>1
    <3> QED BY <1>1, <1>6, <3>1 DEF KeyboardInv, KeyboardTypes, KeyboardTypeOK
  <2>3. LateOnce'
    <3> SUFFICES ASSUME NEW j \in AllKeys
                 PROVE  /\ late'[j] <= 1
                        /\ late'[j] = 1 =>
                             /\ j \notin snapshot' /\ j \notin pressed_keys
                             /\ ~(Between /\ Current = Event(j, TRUE))
      BY <1>1, <1>3 DEF LateOnce
    <3>1. CASE j # k \/ ~(Released(k) /\ k \notin pressed_keys)
      <4>1. late'[j] = late[j]
        BY <1>5, <2>1, <3>1
      <4> QED BY <1>1, <4>1 DEF KeyboardInv, LateOnce
    <3>2. CASE j = k /\ Released(k) /\ k \notin pressed_keys
      <4>1. late'[j] = 1
        BY <1>5, <2>1, <3>2
      <4>2. ~(Between /\ Current = Event(k, TRUE))
        <5> SUFFICES ASSUME Between, Current = Event(k, TRUE) PROVE FALSE
          OBVIOUS
        <5>1. keyCall \in Submitting
          BY DEF Between, Submitting
        <5>2. Event(k, TRUE) # Event(k, FALSE)
          BY DEF Event
        <5> QED BY <3>2, <5>1, <5>2 DEF Released
      <4>3. j \notin snapshot' /\ j \notin pressed_keys
        BY <1>1, <3>2
      <4>4. ~(Between /\ Current = Event(j, TRUE))
        BY <3>2, <4>2
      <4>5. late'[j] <= 1
        BY <4>1
      <4> QED BY <4>3, <4>4, <4>5
    <3> QED BY <3>1, <3>2
  <2>4. HeldDown'
    <3> SUFFICES ASSUME keyboard = "uinput", keyFailures = 0, NEW j \in AllKeys,
                        ~(keyCall = "key" /\ Current = Event(j, TRUE))
                 PROVE  j \in keysDown' <=> KeyWritten(j) \/ j \in ghosts'
      BY <1>1, <1>3, <1>6 DEF HeldDown, KeyWritten
    <3>1. j \in keysDown <=> KeyWritten(j) \/ j \in ghosts
      BY DEF KeyboardInv, HeldDown
    <3>2. CASE j # k
      BY <1>6, <3>1, <3>2
    <3>3. CASE j = k /\ Released(k)
      BY <1>6, <3>3
    <3>4. CASE j = k /\ ~Released(k)
      <4>1. CASE Between /\ Current.key = k
        <5>1. keyCall \in Submitting
          BY <4>1 DEF Between, Submitting
        <5>2. Current \in KeyEvents /\ Current.pressed \in BOOLEAN
          BY <5>1, CurrentTyped DEF KeyboardInv
        <5>3. Current # Event(k, FALSE)
          BY <3>4, <4>1 DEF Released, Between
        <5>4. Current.pressed = TRUE
          BY <4>1, <5>2, <5>3, EventsEqual
        <5>5. KeyWritten(j)
          BY <3>4, <4>1, <5>4 DEF KeyWritten
        <5> QED BY <1>6, <3>4, <5>5
      <4>2. CASE ~(Between /\ Current.key = k)
        <5>1. k \in pressed_keys
          <6>1. SUFFICES ASSUME k \notin pressed_keys PROVE FALSE
            OBVIOUS
          <6>2. keyCall \in Submitting /\ Current = Event(k, TRUE)
            BY <3>4, <6>1 DEF Released
          <6>3. Current.key = k
            BY <6>2 DEF Event
          <6> QED BY <3>4, <4>2, <6>2, <6>3 DEF Submitting, Between
        <5>2. KeyWritten(j)
          BY <3>4, <4>2, <5>1 DEF KeyWritten
        <5> QED BY <1>6, <3>4, <5>2
      <4> QED BY <4>1, <4>2
    <3> QED BY <3>2, <3>3, <3>4
  <2> QED BY <1>4, <2>2, <2>3, <2>4 DEF KeyboardInv
<1>7. CASE WriteFails /\ UNCHANGED <<keysDown, ghosts, late>>
  <2>1. KeyboardTypes'
    BY <1>1, <1>7 DEF WriteFails, KeyboardInv, KeyboardTypes, KeyboardTypeOK
  <2>2. LateOnce'
    BY <1>1, <1>3, <1>7 DEF KeyboardInv, LateOnce
  <2>3. HeldDown'
    BY <1>7 DEF KeyboardInv, KeyboardTypes, HeldDown, WriteFails
  <2> QED BY <1>4, <2>1, <2>2, <2>3 DEF KeyboardInv
<1> QED BY <1>6, <1>7 DEF RepeatKey

LEMMA KeyboardStep == KeyboardInv /\ [KeyboardNext]_kbVars => KeyboardInv'
<1> SUFFICES ASSUME KeyboardInv, [KeyboardNext]_kbVars PROVE KeyboardInv'
  OBVIOUS
<1>1. CASE KeyCallStep
  BY <1>1, WriteKeyInv, SubmitXTestKeyInv, WriteSynInv, UpdatePressedKeysInv, OtherCallsInv
     DEF KeyCallStep
<1>2. CASE RepeatStep
  BY <1>2, WakesInv, RepeatKeyInv DEF RepeatStep
<1>3. CASE KeyboardNext /\ ~KeyCallStep /\ ~RepeatStep
  BY <1>3, OtherCallsInv DEF KeyboardNext
<1>4. CASE UNCHANGED kbVars
  <2>1. Current' = Current /\ Between' = Between
    BY <1>4 DEF kbVars, Current, Between
  <2>2. KeyboardTypes'
    BY <1>4 DEF kbVars, KeyboardInv, KeyboardTypes, KeyboardTypeOK
  <2>3. Fresh' /\ LateOnce'
    BY <1>4, <2>1 DEF kbVars, KeyboardInv, Fresh, LateOnce
  <2>4. HeldDown'
    BY <1>4, <2>1 DEF kbVars, KeyboardInv, HeldDown, KeyWritten
  <2> QED BY <2>2, <2>3, <2>4 DEF KeyboardInv
<1> QED BY <1>1, <1>2, <1>3, <1>4 DEF KeyboardNext

(* The repeat thread presses a key at most once after its release has        *)
(* returned, and as long as no write has failed the kernel holds, between    *)
(* calls, the keys of pressed_keys_ and those pressed again late.            *)
THEOREM LatePresses == KeyboardSpec => []LatePressAtMostOnce
<1>1. KeyboardInv => LatePressAtMostOnce
  <2> SUFFICES ASSUME KeyboardInv, keyboard = "uinput", keyCall = "idle", keyFailures = 0
               PROVE  /\ keysDown = pressed_keys \cup ghosts
                      /\ \A k \in AllKeys : late[k] <= 1
    BY DEF LatePressAtMostOnce
  <2>1. \A k \in AllKeys : k \in keysDown <=> k \in pressed_keys \/ k \in ghosts
    BY DEF KeyboardInv, HeldDown, KeyWritten, Between
  <2>2. keysDown \subseteq AllKeys /\ pressed_keys \subseteq AllKeys /\ ghosts \subseteq AllKeys
    BY DEF KeyboardInv, KeyboardTypes, KeyboardTypeOK
  <2> QED BY <2>1, <2>2 DEF KeyboardInv, LateOnce
<1> QED BY <1>1, KeyboardStarts, KeyboardStep, PTL DEF KeyboardSpec

(* The types of the keyboard, for any keys and bounds, whatever is pressed,  *)
(* typed or repeated meanwhile.                                              *)
THEOREM KeyboardTypeCorrect == KeyboardSpec => []KeyboardTypeOK
<1>1. KeyboardInv => KeyboardTypeOK
  BY DEF KeyboardInv, KeyboardTypes
<1> QED BY <1>1, KeyboardStarts, KeyboardStep, PTL DEF KeyboardSpec

-----------------------------------------------------------------------------
(* Force feedback                                                            *)

(* A pad that is not created or closed has no reader that could dispatch *)
ReaderInv ==
  /\ reader \in {"none", "top", "poll", "dispatch", "ended"}
  /\ padClose \in {"not_created", "open", "join", "done"}
  /\ padClose = "not_created" => reader = "none"
  /\ padClose = "done" => reader \in {"none", "ended"}
  /\ padClose \in {"join", "done"} => ~running

(* What a callback heard last is what update_rumble found last, except       *)
(* between the two steps of dispatch_rumble; a callback that was set after   *)
(* the last change has heard nothing yet.                                    *)
HeardInv ==
  /\ heard # 0 => hasCallback
  /\ heard # 0 /\ reader # "dispatch" => lastRumble = heard
  /\ padClose = "done" => heard = 0

RumbleInv == ReaderInv /\ HeardInv

LEMMA RumbleStarts == RumbleInit => RumbleInv
BY DEF RumbleInit, RumbleInv, ReaderInv, HeardInv

LEMMA RumbleStep == RumbleInv /\ [RumbleNext]_rumbleVars => RumbleInv'
<1> SUFFICES ASSUME RumbleInv, [RumbleNext]_rumbleVars PROVE RumbleInv'
  OBVIOUS
<1> USE DEF RumbleInv, ReaderInv, HeardInv
<1>1. ASSUME NEW rumble \in BOOLEAN, CreatePad(rumble) PROVE RumbleInv'
  BY <1>1 DEF CreatePad
<1>2. ASSUME NEW event, KernelSends(event) PROVE RumbleInv'
  BY <1>2 DEF KernelSends
<1>3. CASE Tick
  BY <1>3 DEF Tick
<1>4. CASE SetCallback
  BY <1>4 DEF SetCallback
<1>5. CASE ReaderChecks
  BY <1>5 DEF ReaderChecks
<1>6. CASE ReaderHandles
  BY <1>6 DEF ReaderHandles
<1>7. CASE ReaderUpdates
  <2>1. CASE lastRumble' = lastRumble
    BY <1>7, <2>1 DEF ReaderUpdates
  <2>2. CASE lastRumble' # lastRumble
    BY <1>7, <2>2 DEF ReaderUpdates
  <2> QED BY <2>1, <2>2
<1>8. CASE ReaderDispatch
  BY <1>8 DEF ReaderDispatch
<1>9. CASE ReaderFailsToPoll
  BY <1>9 DEF ReaderFailsToPoll
<1>10. CASE BeginPadClose
  BY <1>10 DEF BeginPadClose
<1>11. CASE FinishPadClose
  BY <1>11 DEF FinishPadClose
<1>12. CASE UNCHANGED rumbleVars
  BY <1>12 DEF rumbleVars
<1> QED
  BY <1>1, <1>2, <1>3, <1>4, <1>5, <1>6, <1>7, <1>8, <1>9, <1>10, <1>11, <1>12
     DEF RumbleNext, RumbleReaderStep

(* Once close has returned the last thing a callback heard is silence and    *)
(* the reader has ended, whatever effects were playing.                      *)
THEOREM RumbleSilenced == RumbleSpec => []SilentAfterClose
<1>1. RumbleInv => SilentAfterClose
  BY DEF RumbleInv, ReaderInv, HeardInv, SilentAfterClose
<1> QED BY <1>1, RumbleStarts, RumbleStep, PTL DEF RumbleSpec

-----------------------------------------------------------------------------
(* The UHID gamepad: a repeated report never takes the kernel back to an     *)
(* older state.  The periodic thread packs last_state_, which is behind what *)
(* the kernel has only between a submission's write and its end; both        *)
(* threads hold state_mutex_ for all of that.                                *)

(* Who holds state_mutex_ *)
LockHeld ==
  /\ stateLock = "app" <=> app \in {"submit", "record"}
  /\ stateLock = "reporter" <=> reporter = "write"

(* The periodic thread starts when create is over *)
NotYetPeriodic ==
  app \in {"new", "register", "wait", "stop_reader"} => reporter = "none"

(* What the kernel has, against last_state_ and the last submission *)
StatesInOrder ==
  /\ uhidInput \in Nat /\ newest \in Nat
  /\ uhidInput <= newest
  /\ app # "record" => last_state = uhidInput
  /\ app = "record" => uhidInput = newest
  /\ reporter = "write" => packed = last_state

StateInv == LockHeld /\ NotYetPeriodic /\ StatesInOrder

-----------------------------------------------------------------------------
LEMMA StateInvInit == UhidInit => StateInv
BY DEF UhidInit, StateInv, LockHeld, NotYetPeriodic, StatesInOrder

(* Steps of the application's thread *)
LEMMA StateInvApp ==
  ASSUME StateInv,
         (\E p \in BOOLEAN : StartReader(p)) \/ LockForSubmit \/ BeginUhidClose \/ AppStep
  PROVE  StateInv' /\ uhidInput' >= uhidInput
<1> USE DEF StateInv, LockHeld, NotYetPeriodic, StatesInOrder, appVars, lifeVars, readerVars,
            reportVars, kernelVars
<1>1. ASSUME NEW p \in BOOLEAN, StartReader(p)
      PROVE  StateInv' /\ uhidInput' >= uhidInput
  BY <1>1 DEF StartReader
<1>2. CASE LockForSubmit
  BY <1>2 DEF LockForSubmit
<1>3. CASE BeginUhidClose
  BY <1>3 DEF BeginUhidClose
<1>4. CASE RegisterDevice
  BY <1>4 DEF RegisterDevice
<1>5. CASE WaitForStart
  BY <1>5 DEF WaitForStart
<1>6. CASE ReaderStopped
  BY <1>6 DEF ReaderStopped
<1>7. CASE WriteSubmission
  BY <1>7 DEF WriteSubmission
<1>8. CASE RecordState
  BY <1>8 DEF RecordState
<1>9. CASE Destroy
  BY <1>9 DEF Destroy
<1>10. CASE FinishClose
  BY <1>10 DEF FinishClose
<1> QED
  BY <1>1, <1>2, <1>3, <1>4, <1>5, <1>6, <1>7, <1>8, <1>9, <1>10 DEF AppStep

(* The reader and the kernel have nothing to do with the states *)
LEMMA StateInvReader ==
  ASSUME StateInv,
         \/ ReaderStep \/ ReaderFails \/ KernelStarts \/ KernelGivesUp
         \/ \E kind \in {"get", "set", "output"} : KernelAsks(kind)
  PROVE  StateInv' /\ uhidInput' >= uhidInput
<1>1. UNCHANGED <<app, stateLock, reporter, packed, last_state, newest, uhidInput>>
  BY DEF ReaderStep, ReaderStops, ReaderFails, ReadEvent, OutputReturns, Reply,
         ExitReader, ReaderUnchanged, KernelUnchanged, KernelStarts, KernelAsks,
         KernelGivesUp, appVars, lifeVars, readerVars, reportVars, kernelVars
<1> QED
  BY <1>1 DEF StateInv, LockHeld, NotYetPeriodic, StatesInOrder

(* Steps of the periodic thread *)
LEMMA StateInvReporter ==
  ASSUME StateInv, ReporterStep
  PROVE  StateInv' /\ uhidInput' >= uhidInput
<1> USE DEF StateInv, LockHeld, NotYetPeriodic, StatesInOrder, ReporterUnchanged, appVars, lifeVars,
            readerVars
<1>1. CASE ReporterEnds
  BY <1>1 DEF ReporterEnds
<1>2. CASE ReporterWakes
  BY <1>2 DEF ReporterWakes
<1>3. CASE PackLastState
  BY <1>3 DEF PackLastState
<1>4. CASE WritePeriodicReport
  BY <1>4 DEF WritePeriodicReport
<1> QED
  BY <1>1, <1>2, <1>3, <1>4 DEF ReporterStep

LEMMA StateInvStep ==
  StateInv /\ [UhidNext]_uhidVars => StateInv' /\ [uhidInput' >= uhidInput]_uhidVars
<1> SUFFICES ASSUME StateInv, [UhidNext]_uhidVars
             PROVE  StateInv' /\ [uhidInput' >= uhidInput]_uhidVars
  OBVIOUS
<1>1. CASE UNCHANGED uhidVars
  BY <1>1 DEF uhidVars, StateInv, LockHeld, NotYetPeriodic, StatesInOrder
<1>2. CASE UhidNext
  BY <1>2, StateInvApp, StateInvReader, StateInvReporter DEF UhidNext
<1> QED
  BY <1>1, <1>2

(* The states the kernel is given only get newer, for every number of        *)
(* states, requests and failures: write_input_report and the assignment of   *)
(* last_state_ are one critical section, and so are packing and writing in   *)
(* periodic_report_loop.                                                     *)
THEOREM KernelNeverGoesBack == UhidSpec => NeverStale
<1>1. StateInv /\ [UhidNext]_uhidVars => [uhidInput' >= uhidInput]_uhidVars
  BY StateInvStep
<1>2. StateInv /\ [UhidNext]_uhidVars => StateInv'
  BY StateInvStep
<1> QED
  BY <1>1, <1>2, StateInvInit, PTL DEF UhidSpec, NeverStale

-----------------------------------------------------------------------------
(* The types of the UHID gamepad.  The reader's steps depend on the kinds of *)
(* the events it reads, the pending request on the number of requests.       *)
UhidEvents == [kind : {"start", "get", "set", "output"}, id : 0 .. MaxKernelEvents]

UhidTyped ==
  /\ StateInv /\ UhidTypeOK
  /\ asked \in 0 .. MaxKernelEvents
  /\ uhidQueue \in Seq(UhidEvents)

LEMMA UhidTypedInit == UhidInit => UhidTyped
<1> SUFFICES ASSUME UhidInit PROVE UhidTyped
  OBVIOUS
<1>1. StateInv
  BY StateInvInit
<1>2. UhidTypeOK
  <2>1. {isOpen, uhidRunning, started, readerExited} \subseteq BOOLEAN /\ periodic \in BOOLEAN
    BY DEF UhidInit
  <2>2. {packed, last_state, newest, uhidInput} \subseteq 0 .. MaxStates
    BY UhidBounds DEF UhidInit
  <2> QED BY <2>1, <2>2, UhidBounds DEF UhidInit, UhidTypeOK
<1>3. asked \in 0 .. MaxKernelEvents /\ uhidQueue \in Seq(UhidEvents)
  BY UhidBounds DEF UhidInit
<1> QED BY <1>1, <1>2, <1>3 DEF UhidTyped

LEMMA UhidTypedApp ==
  ASSUME UhidTyped, StateInv',
         (\E p \in BOOLEAN : StartReader(p)) \/ LockForSubmit \/ BeginUhidClose \/ AppStep
  PROVE  UhidTyped'
<1> USE UhidBounds
    DEF UhidTyped, UhidTypeOK, appVars, lifeVars, readerVars, reportVars, kernelVars,
        WriteCreate, WriteDestroy
<1>1. ASSUME NEW p \in BOOLEAN, StartReader(p) PROVE UhidTyped'
  BY <1>1 DEF StartReader
<1>2. CASE LockForSubmit
  BY <1>2 DEF LockForSubmit
<1>3. CASE BeginUhidClose
  BY <1>3 DEF BeginUhidClose
<1>4. CASE RegisterDevice
  BY <1>4 DEF RegisterDevice
<1>5. CASE WaitForStart
  BY <1>5 DEF WaitForStart
<1>6. CASE ReaderStopped
  BY <1>6 DEF ReaderStopped
<1>7. CASE WriteSubmission
  BY <1>7 DEF WriteSubmission
<1>8. CASE RecordState
  BY <1>8 DEF RecordState
<1>9. CASE Destroy
  BY <1>9 DEF Destroy
<1>10. CASE FinishClose
  BY <1>10 DEF FinishClose
<1> QED
  BY <1>1, <1>2, <1>3, <1>4, <1>5, <1>6, <1>7, <1>8, <1>9, <1>10 DEF AppStep

LEMMA UhidTypedReader ==
  ASSUME UhidTyped, StateInv', ReaderStep \/ ReaderFails
  PROVE  UhidTyped'
<1> USE DEF UhidTyped, UhidTypeOK, ReaderUnchanged, appVars, lifeVars, readerVars, reportVars,
            kernelVars
<1>1. CASE ReaderStops \/ ReaderFails
  BY <1>1 DEF ReaderStops, ReaderFails, ExitReader
<1>2. CASE ReadEvent
  <2>1. Head(uhidQueue) \in UhidEvents /\ Tail(uhidQueue) \in Seq(UhidEvents)
    BY <1>2 DEF ReadEvent
  <2>2. Head(uhidQueue).kind \in {"start", "get", "set", "output"}
    BY <2>1 DEF UhidEvents
  <2>3. uhidReader' \in {"none", "poll", "callback", "reply", "ended"}
    BY <1>2, <2>2 DEF ReadEvent
  <2>4. {isOpen', uhidRunning', started', readerExited'} \subseteq BOOLEAN
    <3>1. started' \in BOOLEAN
      BY <1>2 DEF ReadEvent
    <3>2. UNCHANGED <<isOpen, uhidRunning, readerExited>>
      BY <1>2 DEF ReadEvent
    <3> QED BY <3>1, <3>2
  <2>5. uhidQueue' \in Seq(UhidEvents)
    BY <1>2, <2>1 DEF ReadEvent
  <2>6. UNCHANGED <<periodic, app, created, reporter, stateLock, packed, last_state, newest,
                    uhidInput, hid, pending, asked>>
    BY <1>2 DEF ReadEvent
  <2> QED BY <2>3, <2>4, <2>5, <2>6
<1>3. CASE OutputReturns
  BY <1>3 DEF OutputReturns
<1>4. CASE Reply
  BY <1>4, UhidBounds DEF Reply
<1> QED BY <1>1, <1>2, <1>3, <1>4 DEF ReaderStep

LEMMA UhidTypedReporter ==
  ASSUME UhidTyped, StateInv', ReporterStep
  PROVE  UhidTyped'
<1> USE DEF UhidTyped, UhidTypeOK, ReporterUnchanged, appVars, lifeVars, readerVars
<1>1. CASE ReporterEnds
  BY <1>1 DEF ReporterEnds
<1>2. CASE ReporterWakes
  BY <1>2 DEF ReporterWakes
<1>3. CASE PackLastState
  BY <1>3 DEF PackLastState
<1>4. CASE WritePeriodicReport
  BY <1>4 DEF WritePeriodicReport
<1> QED BY <1>1, <1>2, <1>3, <1>4 DEF ReporterStep

LEMMA UhidTypedKernel ==
  ASSUME UhidTyped, StateInv',
         KernelStarts \/ KernelGivesUp \/ \E kind \in {"get", "set", "output"} : KernelAsks(kind)
  PROVE  UhidTyped'
<1> USE UhidBounds
    DEF UhidTyped, UhidTypeOK, KernelUnchanged, appVars, lifeVars, readerVars, reportVars
<1>1. CASE KernelStarts
  <2>1. [NoEvent EXCEPT !.kind = "start"] \in UhidEvents
    BY DEF NoEvent, UhidEvents
  <2>2. uhidQueue' \in Seq(UhidEvents)
    BY <1>1, <2>1 DEF KernelStarts
  <2> QED BY <1>1, <2>2 DEF KernelStarts
<1>2. CASE KernelGivesUp
  BY <1>2 DEF KernelGivesUp
<1>3. ASSUME NEW kind \in {"get", "set", "output"}, KernelAsks(kind) PROVE UhidTyped'
  <2>1. asked' \in 0 .. MaxKernelEvents
    BY <1>3 DEF KernelAsks
  <2>2. [kind |-> kind, id |-> asked'] \in UhidEvents
    BY <2>1 DEF UhidEvents
  <2>3. uhidQueue' \in Seq(UhidEvents)
    BY <1>3, <2>2 DEF KernelAsks
  <2> QED BY <1>3, <2>1, <2>3 DEF KernelAsks
<1> QED BY <1>1, <1>2, <1>3

LEMMA UhidTypedStep == UhidTyped /\ [UhidNext]_uhidVars => UhidTyped'
<1> SUFFICES ASSUME UhidTyped, [UhidNext]_uhidVars PROVE UhidTyped'
  OBVIOUS
<1>1. StateInv'
  BY StateInvStep DEF UhidTyped
<1>2. CASE UNCHANGED uhidVars
  BY <1>1, <1>2 DEF uhidVars, UhidTyped, UhidTypeOK
<1>3. CASE UhidNext
  BY <1>1, <1>3, UhidTypedApp, UhidTypedReader, UhidTypedReporter, UhidTypedKernel DEF UhidNext
<1> QED BY <1>2, <1>3

(* The types of the UHID gamepad, for every number of states, requests and   *)
(* failures: no request is pending that was not asked, and no state is shown *)
(* or repeated that was not submitted.                                       *)
THEOREM UhidTypeCorrect == UhidSpec => []UhidTypeOK
<1>1. UhidTyped => UhidTypeOK
  BY DEF UhidTyped
<1> QED BY <1>1, UhidTypedInit, UhidTypedStep, PTL DEF UhidSpec

-----------------------------------------------------------------------------
(* The types of the force feedback.  The strength is a sum over the effects  *)
(* that play, which is a number because they are finitely many.              *)

LEMMA LeastNumber ==
  ASSUME NEW W \in SUBSET Nat, W # {}
  PROVE  \E m \in W : m = 0 \/ (m - 1 \in Nat /\ m - 1 \notin W)
<1>1. PICK m \in W : \A l \in W : ~ (<<l, m>> \in OpToRel(<, Nat))
  BY WFMin, NatLessThanWellFounded
<1>2. m \in Nat /\ \A l \in W : ~ (l < m)
  BY <1>1 DEF OpToRel
<1>3. m # 0 => m - 1 \in Nat /\ m - 1 \notin W
  BY <1>2
<1> QED BY <1>1, <1>3

Summand(s) == CHOOSE x \in s : TRUE
Sums(g, D, w) ==
  g = [s \in D |-> IF s = {} THEN 0 ELSE w[Summand(s)] + g[s \ {Summand(s)}]]

LEMMA WithoutSummand ==
  ASSUME NEW S, IsFiniteSet(S), NEW s \in SUBSET S, s # {}
  PROVE  /\ Summand(s) \in s
         /\ Cardinality(s) \in Nat \ {0}
         /\ Cardinality(s \ {Summand(s)}) = Cardinality(s) - 1
         /\ s \ {Summand(s)} \in SUBSET S
<1>1. Summand(s) \in s
  BY DEF Summand
<1>2. IsFiniteSet(s)
  BY FS_Subset
<1>3. Cardinality(s \ {Summand(s)}) = Cardinality(s) - 1
  BY <1>1, <1>2, FS_RemoveElement
<1>4. Cardinality(s) \in Nat /\ Cardinality(s) # 0
  BY <1>2, FS_CardinalityType, FS_EmptySet
<1> QED BY <1>1, <1>3, <1>4

LEMMA SumsExist ==
  ASSUME NEW S, IsFiniteSet(S), NEW w
  PROVE  \E g : Sums(g, SUBSET S, w)
<1> DEFINE Of(n) == {s \in SUBSET S : Cardinality(s) <= n}
           Without == {n \in Nat : ~ \E g : Sums(g, Of(n), w)}
<1>1. \A s \in SUBSET S : IsFiniteSet(s) /\ Cardinality(s) \in Nat
                            /\ Cardinality(s) <= Cardinality(S)
  BY FS_Subset, FS_CardinalityType
<1>2. 0 \notin Without
  <2>1. \A s \in Of(0) : s = {}
    <3> TAKE s \in Of(0)
    <3>1. Cardinality(s) = 0 /\ IsFiniteSet(s)
      BY <1>1
    <3> QED BY <3>1, FS_EmptySet
  <2> HIDE DEF Of
  <2>2. Sums([s \in Of(0) |-> 0], Of(0), w)
    BY <2>1 DEF Sums
  <2> QED BY <2>2
<1>3. ASSUME NEW n \in Nat, n \notin Without PROVE n + 1 \notin Without
  <2>1. PICK f : Sums(f, Of(n), w)
    BY <1>3
  <2> DEFINE Value(h, s) == IF s = {} THEN 0 ELSE w[Summand(s)] + h[s \ {Summand(s)}]
             g == [s \in Of(n + 1) |-> Value(f, s)]
  <2>2. ASSUME NEW s \in Of(n + 1), s # {} PROVE s \ {Summand(s)} \in Of(n)
    <3>1. s \in SUBSET S /\ Cardinality(s) <= n + 1
      OBVIOUS
    <3>2. /\ Cardinality(s) \in Nat
          /\ Cardinality(s \ {Summand(s)}) = Cardinality(s) - 1
          /\ s \ {Summand(s)} \in SUBSET S
      BY <2>2, <3>1, WithoutSummand
    <3> QED BY <3>1, <3>2
  <2>3. Of(n) \subseteq Of(n + 1)
    BY <1>1
  <2>4. f = [s \in Of(n) |-> Value(f, s)]
    BY <2>1 DEF Sums
  <2>5. \A s \in Of(n) : f[s] = Value(f, s) /\ g[s] = Value(f, s)
    <3> HIDE DEF Value, Of
    <3> QED BY <2>3, <2>4
  <2>6. \A s \in Of(n + 1) : Value(f, s) = Value(g, s)
    <3> HIDE DEF g, Of
    <3> QED BY <2>2, <2>5
  <2>7. g = [s \in Of(n + 1) |-> Value(g, s)]
    <3>1. g = [s \in Of(n + 1) |-> Value(f, s)]
      OBVIOUS
    <3> HIDE DEF g, Value, Of
    <3> QED BY <2>6, <3>1
  <2>8. Sums(g, Of(n + 1), w)
    <3> HIDE DEF g, Of
    <3> QED BY <2>7 DEF Sums
  <2> QED BY <2>8
<1>4. Without = {}
  <2>1. Without \in SUBSET Nat
    OBVIOUS
  <2> HIDE DEF Without
  <2>2. SUFFICES ASSUME Without # {} PROVE FALSE
    OBVIOUS
  <2>3. PICK m \in Without : m = 0 \/ (m - 1 \in Nat /\ m - 1 \notin Without)
    BY <2>1, <2>2, LeastNumber
  <2>4. m - 1 \in Nat /\ m - 1 \notin Without /\ (m - 1) + 1 = m
    BY <1>2, <2>1, <2>3
  <2> QED BY <1>3, <2>4
<1>5. Cardinality(S) \in Nat /\ Of(Cardinality(S)) = SUBSET S
  BY <1>1
<1>6. PICK g : Sums(g, Of(Cardinality(S)), w)
  BY <1>4, <1>5
<1> QED BY <1>5, <1>6

LEMMA SumsTyped ==
  ASSUME NEW S, IsFiniteSet(S), NEW w \in [S -> Nat], NEW g, Sums(g, SUBSET S, w)
  PROVE  g[S] \in Nat
<1> DEFINE Untyped == {s \in SUBSET S : g[s] \notin Nat}
           W == {Cardinality(s) : s \in Untyped}
<1>1. SUFFICES ASSUME Untyped # {} PROVE FALSE
  OBVIOUS
<1>2. W \in SUBSET Nat /\ W # {}
  BY <1>1, FS_Subset, FS_CardinalityType
<1>3. PICK m \in W : m = 0 \/ (m - 1 \in Nat /\ m - 1 \notin W)
  <2> HIDE DEF W
  <2> QED BY <1>2, LeastNumber
<1>4. PICK s \in SUBSET S : g[s] \notin Nat /\ Cardinality(s) = m
  OBVIOUS
<1>5. s # {} /\ g[s] = w[Summand(s)] + g[s \ {Summand(s)}]
  <2>1. g[s] = IF s = {} THEN 0 ELSE w[Summand(s)] + g[s \ {Summand(s)}]
    BY DEF Sums
  <2> QED BY <1>4, <2>1
<1>6. /\ Summand(s) \in s /\ m # 0
      /\ Cardinality(s \ {Summand(s)}) = m - 1
      /\ s \ {Summand(s)} \in SUBSET S
  BY <1>4, <1>5, WithoutSummand
<1>7. g[s \ {Summand(s)}] \in Nat
  BY <1>3, <1>6
<1>8. w[Summand(s)] \in Nat
  BY <1>6
<1> QED BY <1>4, <1>5, <1>7, <1>8

Strengths == [shape : Shapes, active : BOOLEAN, start : Nat, count : Nat, end : Nat]

RumbleTyped ==
  /\ RumbleTypeOK
  /\ ffQueue \in Seq(FeedbackEvents)
  /\ effects \in [DOMAIN effects -> Strengths]

LEMMA NatOperations ==
  ASSUME NEW a \in Nat, NEW b \in Nat
  PROVE  /\ a * b \in Nat /\ a + b \in Nat
         /\ b # 0 => a \div b \in Nat /\ a % b \in 0 .. b - 1
OBVIOUS

LEMMA InterpolateTyped ==
  ASSUME NEW from \in Nat, NEW to \in Nat, NEW elapsed \in Nat, NEW length \in Nat
  PROVE  Interpolate(from, to, elapsed, length) \in Nat
<1>1. CASE length = 0 \/ elapsed >= length
  BY <1>1 DEF Interpolate
<1>2. CASE ~(length = 0 \/ elapsed >= length)
  <2>1. length - elapsed \in Nat
    BY <1>2
  <2>2. from * (length - elapsed) \in Nat /\ to * elapsed \in Nat
    BY <2>1, NatOperations
  <2>3. from * (length - elapsed) + to * elapsed \in Nat
    BY <2>2, NatOperations
  <2>4. (from * (length - elapsed) + to * elapsed) \div length \in Nat
    <3> DEFINE sum == from * (length - elapsed) + to * elapsed
    <3>1. sum \in Nat
      BY <2>3
    <3> HIDE DEF sum
    <3>2. sum \div length \in Nat
      BY <1>2, <3>1, NatOperations
    <3> QED BY <3>2 DEF sum
  <2> QED BY <1>2, <2>4 DEF Interpolate
<1> QED BY <1>1, <1>2

LEMMA ShapeFields ==
  ASSUME NEW s \in Shapes
  PROVE  /\ {s.length, s.delay, s.from, s.to} \subseteq Nat
         /\ {s.attack, s.attackLevel, s.fade, s.fadeLevel} \subseteq Nat
BY RumbleBounds

LEMMA EnvelopeTyped ==
  ASSUME NEW magnitude \in Nat, NEW s \in Shapes, NEW elapsed \in Nat, NEW remaining \in Nat
  PROVE  Envelope(magnitude, s, elapsed, remaining) \in Nat
<1>1. {s.attack, s.attackLevel, s.fade, s.fadeLevel} \subseteq Nat
  BY ShapeFields
<1>2. /\ Interpolate(s.attackLevel, magnitude, elapsed, s.attack) \in Nat
      /\ Interpolate(s.fadeLevel, magnitude, remaining, s.fade) \in Nat
  BY <1>1, InterpolateTyped
<1> QED BY <1>2 DEF Envelope

LEMMA MagnitudeTyped ==
  ASSUME NEW e \in Strengths, NEW now \in Nat, now >= e.start
  PROVE  Magnitude(e, now) \in Nat
<1> DEFINE s == e.shape
           elapsed == now - e.start
           cycle == elapsed % s.length
<1>1. s \in Shapes /\ elapsed \in Nat
  BY DEF Strengths
<1>2. {s.length, s.from, s.to} \subseteq Nat
  BY <1>1, ShapeFields
<1> HIDE DEF s, elapsed
<1>3. CASE Infinite(s)
  <2>1. Forever \in Nat
    BY RumbleBounds DEF Forever
  <2>2. Envelope(s.from, s, elapsed, Forever) \in Nat
    BY <1>1, <1>2, <2>1, EnvelopeTyped
  <2> QED BY <1>3, <2>2 DEF Magnitude, s, elapsed
<1>4. CASE ~Infinite(s)
  <2>1. cycle \in 0 .. s.length - 1
    BY <1>1, <1>2, <1>4, NatOperations DEF Infinite
  <2>2. cycle \in Nat /\ s.length - cycle \in Nat
    BY <1>2, <2>1
  <2> HIDE DEF cycle
  <2>3. Interpolate(s.from, s.to, cycle, s.length) \in Nat
    BY <1>2, <2>2, InterpolateTyped
  <2>4. Envelope(Interpolate(s.from, s.to, cycle, s.length), s, cycle, s.length - cycle) \in Nat
    BY <1>1, <2>2, <2>3, EnvelopeTyped
  <2> QED BY <1>4, <2>4 DEF Magnitude, s, elapsed, cycle
<1> QED BY <1>3, <1>4

LEMMA StrengthTyped ==
  ASSUME RumbleTyped
  PROVE  Strength(effects, gain) \in 0 .. MaxMagnitude
<1> DEFINE S == {i \in DOMAIN effects : Due(effects[i]) /\ ~Over(effects[i])}
           w == [i \in S |-> Magnitude(effects[i], rumbleNow)]
           Chosen(s) == CHOOSE x \in s : TRUE
           Adds(g) == g = [s \in SUBSET S |->
                             IF s = {} THEN 0
                             ELSE Magnitude(effects[Chosen(s)], rumbleNow) + g[s \ {Chosen(s)}]]
           sum == MapThenSumSet(LAMBDA i : Magnitude(effects[i], rumbleNow), S)
<1>1. IsFiniteSet(S)
  <2>1. S \subseteq EffectIds
    BY DEF RumbleTyped, RumbleTypeOK
  <2> QED BY <2>1, RumbleBounds, FS_Subset
<1>2. w \in [S -> Nat]
  <2>1. ASSUME NEW i \in S PROVE Magnitude(effects[i], rumbleNow) \in Nat
    <3>1. effects[i] \in Strengths /\ rumbleNow \in Nat /\ rumbleNow >= effects[i].start
      BY RumbleBounds DEF RumbleTyped, RumbleTypeOK, Due
    <3> QED BY <3>1, MagnitudeTyped
  <2> HIDE DEF S
  <2> QED BY <2>1
<1>3. sum = (CHOOSE g : Adds(g))[S]
  <2> HIDE DEF S
  <2> QED BY DEF MapThenSumSet, MapThenFoldSet
<1> HIDE DEF S, sum
<1>4. ASSUME NEW g PROVE Adds(g) <=> Sums(g, SUBSET S, w)
  <2> DEFINE One(s) == IF s = {} THEN 0
                       ELSE Magnitude(effects[Chosen(s)], rumbleNow) + g[s \ {Chosen(s)}]
             Two(s) == IF s = {} THEN 0 ELSE w[Summand(s)] + g[s \ {Summand(s)}]
  <2>1. ASSUME NEW s \in SUBSET S PROVE One(s) = Two(s)
    <3>1. Chosen(s) = Summand(s)
      BY DEF Summand
    <3>2. s # {} => Summand(s) \in S
      BY DEF Summand
    <3> HIDE DEF Chosen
    <3> QED BY <3>1, <3>2
  <2>2. /\ Adds(g) <=> g = [s \in SUBSET S |-> One(s)]
        /\ Sums(g, SUBSET S, w) <=> g = [s \in SUBSET S |-> Two(s)]
    BY DEF Sums
  <2> HIDE DEF One, Two
  <2> QED BY <2>1, <2>2
<1> HIDE DEF Adds, w
<1>5. Adds(CHOOSE g : Adds(g))
  BY <1>1, <1>4, SumsExist
<1>6. sum \in Nat
  BY <1>1, <1>2, <1>3, <1>4, <1>5, SumsTyped
<1>7. Strength(effects, gain) = (IF sum > MaxMagnitude THEN MaxMagnitude ELSE sum) * gain
  BY DEF Strength, sum, S
<1>8. gain \in {0, 1} /\ MaxMagnitude \in Nat
  BY RumbleBounds DEF RumbleTyped, RumbleTypeOK
<1> QED BY <1>6, <1>7, <1>8

(* handle_output_event keeps the types of the effects *)
LEMMA EndTyped ==
  ASSUME NEW s \in Shapes, NEW start \in Nat, NEW count \in Nat
  PROVE  EffectEnd(s, start, count) \in Nat
<1>1. s.length \in Nat /\ Forever \in Nat
  BY ShapeFields, RumbleBounds DEF Forever
<1>2. s.length * count \in Nat
  BY <1>1, NatOperations
<1> QED BY <1>1, <1>2 DEF EffectEnd

LEMMA UploadedTyped ==
  ASSUME NEW D \in SUBSET EffectIds, NEW fx \in [D -> Strengths], NEW id \in EffectIds,
         NEW s \in Shapes
  PROVE  \E E \in SUBSET EffectIds : Uploaded(fx, id, s) \in [E -> Strengths]
<1>1. CASE id \in D /\ fx[id].active
  <2>1. fx[id].start \in Nat /\ fx[id].count \in Nat /\ fx[id] \in Strengths
    BY <1>1 DEF Strengths
  <2>2. EffectEnd(s, fx[id].start, fx[id].count) \in Nat
    BY <2>1, EndTyped
  <2>3. Uploaded(fx, id, s) \in [D -> Strengths]
    BY <1>1, <2>1, <2>2 DEF Uploaded, Strengths
  <2> QED BY <2>3
<1>2. CASE ~(id \in D /\ fx[id].active)
  <2>1. [shape |-> s, active |-> FALSE, start |-> 0, count |-> 1, end |-> 0] \in Strengths
    BY DEF Strengths
  <2>2. Uploaded(fx, id, s) \in [D \cup {id} -> Strengths]
    BY <1>2, <2>1 DEF Uploaded
  <2> QED BY <2>2
<1> QED BY <1>1, <1>2

LEMMA PlayedTyped ==
  ASSUME RumbleTyped, NEW id \in EffectIds, NEW count \in 0 .. 2
  PROVE  Played(effects, id, count) \in [DOMAIN effects -> Strengths]
<1> DEFINE D == DOMAIN effects
<1>1. effects \in [D -> Strengths] /\ rumbleNow \in Nat /\ count \in Nat
  BY RumbleBounds DEF RumbleTyped, RumbleTypeOK
<1>2. CASE id \notin D
  BY <1>1, <1>2 DEF Played
<1>3. CASE id \in D /\ count <= 0
  BY <1>1, <1>3 DEF Played, Strengths
<1>4. CASE id \in D /\ ~(count <= 0)
  <2> DEFINE s == effects[id].shape
             e == [shape |-> s, active |-> TRUE, start |-> rumbleNow + s.delay,
                   count |-> count, end |-> EffectEnd(s, rumbleNow + s.delay, count)]
  <2>1. s \in Shapes
    BY <1>1, <1>4 DEF Strengths
  <2>2. s.delay \in Nat
    BY <2>1, ShapeFields
  <2>3. rumbleNow + s.delay \in Nat
    BY <1>1, <2>2
  <2>4. EffectEnd(s, rumbleNow + s.delay, count) \in Nat
    BY <1>1, <2>1, <2>3, EndTyped
  <2>5. e \in Strengths
    BY <1>1, <2>1, <2>3, <2>4 DEF Strengths
  <2>6. Played(effects, id, count) = [effects EXCEPT ![id] = e]
    BY <1>4 DEF Played
  <2> HIDE DEF e
  <2> QED BY <1>1, <2>5, <2>6
<1> QED BY <1>2, <1>3, <1>4

LEMMA EventFields ==
  ASSUME NEW event \in FeedbackEvents
  PROVE  \/ event.kind = "upload" /\ event.id \in EffectIds /\ event.shape \in Shapes
         \/ event.kind = "erase" /\ event.id \in EffectIds
         \/ event.kind = "play" /\ event.id \in EffectIds /\ event.count \in 0 .. 2
         \/ event.kind = "gain" /\ event.value \in {0, 1}
<1>1. CASE event \in [kind : {"upload"}, id : EffectIds, shape : Shapes]
  BY <1>1
<1>2. CASE event \in [kind : {"erase"}, id : EffectIds]
  BY <1>2
<1>3. CASE event \in [kind : {"play"}, id : EffectIds, count : 0 .. 2]
  BY <1>3
<1>4. CASE event \in [kind : {"gain"}, value : {0, 1}]
  BY <1>4
<1> QED BY <1>1, <1>2, <1>3, <1>4 DEF FeedbackEvents

LEMMA HandledTyped ==
  ASSUME RumbleTyped, NEW event \in FeedbackEvents
  PROVE  \E E \in SUBSET EffectIds : Handled(event) \in [E -> Strengths]
<1>1. effects \in [DOMAIN effects -> Strengths] /\ DOMAIN effects \in SUBSET EffectIds
  BY DEF RumbleTyped, RumbleTypeOK
<1>2. CASE event.kind = "upload" /\ event.id \in EffectIds /\ event.shape \in Shapes
  BY <1>1, <1>2, UploadedTyped DEF Handled
<1>3. CASE event.kind = "erase" /\ event.id \in EffectIds
  <2>1. Handled(event) \in [DOMAIN effects \ {event.id} -> Strengths]
    BY <1>1, <1>3 DEF Handled
  <2>2. DOMAIN effects \ {event.id} \in SUBSET EffectIds
    BY <1>1
  <2> QED BY <2>1, <2>2
<1>4. CASE event.kind = "play" /\ event.id \in EffectIds /\ event.count \in 0 .. 2
  <2>1. Handled(event) \in [DOMAIN effects -> Strengths]
    BY <1>4, PlayedTyped DEF Handled
  <2> QED BY <1>1, <2>1
<1>5. CASE event.kind = "gain" /\ event.value \in {0, 1}
  BY <1>1, <1>5 DEF Handled
<1> QED BY <1>2, <1>3, <1>4, <1>5, EventFields

LEMMA RumbleTypedInit == RumbleInit => RumbleTyped
<1> SUFFICES ASSUME RumbleInit PROVE RumbleTyped
  OBVIOUS
<1>1. ffQueue \in Seq(FeedbackEvents) /\ Range(ffQueue) \subseteq FeedbackEvents
  <2>1. ffQueue = <<>>
    BY DEF RumbleInit
  <2> QED BY <2>1 DEF Range
<1>2. DOMAIN effects = {} /\ effects \in [DOMAIN effects -> Strengths]
  <2>1. effects = <<>> /\ DOMAIN <<>> = {}
    BY DEF RumbleInit
  <2> QED BY <2>1
<1>3. rumbleNow \in 0 .. MaxRumbleTime /\ {lastRumble, heard} \subseteq 0 .. MaxMagnitude
  BY RumbleBounds DEF RumbleInit
<1> QED BY <1>1, <1>2, <1>3 DEF RumbleInit, RumbleTyped, RumbleTypeOK

LEMMA RumbleTypedStep == RumbleTyped /\ [RumbleNext]_rumbleVars => RumbleTyped'
<1> SUFFICES ASSUME RumbleTyped, [RumbleNext]_rumbleVars PROVE RumbleTyped'
  OBVIOUS
<1>0. ASSUME ffQueue' \in Seq(FeedbackEvents)
      PROVE  Range(ffQueue') \subseteq FeedbackEvents
  BY <1>0 DEF Range
<1> USE RumbleBounds DEF RumbleTyped, RumbleTypeOK
<1>1. ASSUME NEW rumble \in BOOLEAN, CreatePad(rumble) PROVE RumbleTyped'
  BY <1>1 DEF CreatePad
<1>2. ASSUME NEW event \in FeedbackEvents, KernelSends(event) PROVE RumbleTyped'
  <2>1. ffQueue' \in Seq(FeedbackEvents)
    BY <1>2 DEF KernelSends
  <2> QED BY <1>0, <1>2, <2>1 DEF KernelSends
<1>3. CASE Tick
  BY <1>3 DEF Tick
<1>4. CASE SetCallback
  BY <1>4 DEF SetCallback
<1>5. CASE ReaderChecks
  BY <1>5 DEF ReaderChecks
<1>6. CASE ReaderHandles
  <2>1. Head(ffQueue) \in FeedbackEvents /\ ffQueue' \in Seq(FeedbackEvents)
    BY <1>6 DEF ReaderHandles
  <2>2. PICK E \in SUBSET EffectIds : effects' \in [E -> Strengths]
    BY <1>6, <2>1, HandledTyped DEF ReaderHandles
  <2>3. DOMAIN effects' \subseteq EffectIds /\ effects' \in [DOMAIN effects' -> Strengths]
    BY <2>2
  <2>4. gain' \in {0, 1}
    BY <1>6, <2>1, EventFields DEF ReaderHandles
  <2> QED BY <1>0, <1>6, <2>1, <2>3, <2>4 DEF ReaderHandles
<1>7. CASE ReaderUpdates
  <2>1. lastRumble' \in 0 .. MaxMagnitude
    BY <1>7, StrengthTyped DEF ReaderUpdates
  <2>2. effects' \in [DOMAIN effects -> Strengths]
    <3>1. \A i \in DOMAIN effects :
            [effects[i] EXCEPT !.active = @ /\ ~Over(effects[i])] \in Strengths
      BY DEF Strengths
    <3> QED BY <1>7, <3>1 DEF ReaderUpdates, Expired
  <2>3. reader' \in {"top", "dispatch"}
    BY <1>7 DEF ReaderUpdates
  <2>4. DOMAIN effects' = DOMAIN effects
    BY <2>2
  <2> QED BY <1>7, <2>1, <2>2, <2>3, <2>4 DEF ReaderUpdates
<1>8. CASE ReaderDispatch
  BY <1>8 DEF ReaderDispatch
<1>9. CASE ReaderFailsToPoll
  BY <1>9 DEF ReaderFailsToPoll
<1>10. CASE BeginPadClose
  BY <1>10 DEF BeginPadClose
<1>11. CASE FinishPadClose
  BY <1>11 DEF FinishPadClose
<1>12. CASE UNCHANGED rumbleVars
  BY <1>12 DEF rumbleVars
<1> QED
  BY <1>1, <1>2, <1>3, <1>4, <1>5, <1>6, <1>7, <1>8, <1>9, <1>10, <1>11, <1>12
     DEF RumbleNext, RumbleReaderStep

(* The types of the force feedback, for every set of effects with fields     *)
(* that are natural numbers: in particular what a callback hears is at most  *)
(* the full strength, however many effects play at once and with whatever    *)
(* envelopes.                                                                *)
THEOREM RumbleTypeCorrect == RumbleSpec => []RumbleTypeOK
<1>1. RumbleTyped => RumbleTypeOK
  BY DEF RumbleTyped
<1> QED BY <1>1, RumbleTypedInit, RumbleTypedStep, PTL DEF RumbleSpec

-----------------------------------------------------------------------------
(* All parts together.  A step of the composition is a step of one part and  *)
(* leaves the others as they are, so that each part behaves as specified.    *)
LEMMA PartsStart ==
  Init => TouchInit /\ PenInit /\ KeyboardInit /\ RumbleInit /\ UhidInit /\ PadInit /\ RuntimeInit
BY DEF Init

LEMMA PartsStep ==
  [Next]_vars =>
    /\ [TouchNext]_touchVars /\ [PenNext]_penVars /\ [KeyboardNext]_kbVars
    /\ [RumbleNext]_rumbleVars /\ [UhidNext]_uhidVars /\ [PadNext]_padVars
    /\ [RuntimeNext]_rtVars
BY DEF Next, vars

(* The composition the run checks implements the specification of every      *)
(* part, so that what is proved of a part holds of it there.                 *)
THEOREM PartsImplemented ==
  LinuxSpec =>
    TouchSpec /\ PenSpec /\ KeyboardSpec /\ RumbleSpec /\ UhidSpec /\ PadSpec /\ RuntimeSpec
BY PartsStart, PartsStep, PTL
   DEF LinuxSpec, TouchSpec, PenSpec, KeyboardSpec, RumbleSpec, UhidSpec, PadSpec, RuntimeSpec

(* LinuxTypeOK for every value of the constants of all parts.                *)
THEOREM LinuxTypeCorrect == LinuxSpec => []LinuxTypeOK
<1>1. TouchTypeOK /\ KeyboardTypeOK /\ PenTypeOK /\ RumbleTypeOK /\ UhidTypeOK /\ PadTypeOK
        /\ RuntimeTypeOK => LinuxTypeOK
  BY DEF LinuxTypeOK
<1> QED
  BY <1>1, PartsImplemented, TouchTypeCorrect, PenTypeCorrect, KeyboardTypeCorrect,
     RumbleTypeCorrect, UhidTypeCorrect, PadTypeCorrect, RuntimeTypeCorrect, PTL
=============================================================================
