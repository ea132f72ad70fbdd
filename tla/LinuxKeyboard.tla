--------------------------- MODULE LinuxKeyboard ----------------------------
(* The Linux keyboard: UinputKeyboard, whose repeat thread presses held keys *)
(* again while the application's calls run, and XTestKeyboard, the X11       *)
(* fallback.  Calls hold the library's keyboard lock, so one runs at a time; *)
(* the repeat thread takes only the locks of one write and of pressed_keys_. *)
EXTENDS Uinput, FiniteSets

CONSTANTS
  Keys,            \* keys the application presses and releases
  MaxKeyCalls,     \* bound on the calls of the application
  MaxKeyFailures   \* bound on failed writes and refused keys

VARIABLES
  keyboard,        \* "none", then "uinput" or "xtest", then "closed"
  keysDown,        \* keys the kernel or the X server holds down
  pressed_keys,    \* pressed_keys_
  keyCall,         \* what the application's call is about to do
  keyCalls,        \* number of calls so far
  keyQueue,        \* key events the call has still to submit
  repeatStep,      \* what the repeat thread is about to do
  snapshot,        \* keys of its snapshot still to be pressed
  repeat_running,  \* repeat_running_ (and the stop token, set right after)
  keyFailures,     \* number of failed writes and refused keys
  ghosts,          \* keys the repeat thread pressed after their release
  late             \* per key: such presses since the release has returned

kbVars == <<keyboard, keysDown, pressed_keys, keyCall, keyCalls, keyQueue,
            repeatStep, snapshot, repeat_running, keyFailures, ghosts, late>>

Event(key, down) == [key |-> key, pressed |-> down]
Tap(key) == <<Event(key, TRUE), Event(key, FALSE)>>

(* type_text_with_unicode_hex, for a code point of the given hex digits      *)
UnicodeHex(digits) ==
  <<Event("ctrl", TRUE), Event("shift", TRUE)>> \o Tap("u")
    \o <<Event("shift", FALSE), Event("ctrl", FALSE)>>
    \o [i \in 1 .. 2 * Len(digits) |-> Event(digits[(i + 1) \div 2], i % 2 = 1)]
    \o Tap("return")

TextKeys == {"ctrl", "shift", "u", "1", "return"}
AllKeys == Keys \cup TextKeys
Submitting == {"key", "sync", "update"}

-----------------------------------------------------------------------------
KeyboardInit ==
  /\ keyboard = "none"
  /\ keysDown = {} /\ pressed_keys = {}
  /\ keyCall = "idle" /\ keyCalls = 0 /\ keyQueue = <<>>
  /\ repeatStep = "none" /\ snapshot = {} /\ repeat_running = FALSE
  /\ keyFailures = 0
  /\ ghosts = {} /\ late = [k \in AllKeys |-> 0]

(* create, with or without a repeat interval; the XTest fallback never       *)
(* repeats                                                                   *)
CreateKeyboard(kind, repeats) ==
  /\ keyboard = "none"
  /\ keyboard' = kind
  /\ repeat_running' = (kind = "uinput" /\ repeats)
  /\ repeatStep' = IF repeat_running' THEN "asleep" ELSE "none"
  /\ UNCHANGED <<keysDown, pressed_keys, keyCall, keyQueue, snapshot,
                 keyFailures, ghosts, late, keyCalls>>

-----------------------------------------------------------------------------
(* The application's thread *)

SubmitKeys(events) ==
  /\ keyboard \in {"uinput", "xtest"} /\ keyCall = "idle"
  /\ keyCalls < MaxKeyCalls /\ keyCalls' = keyCalls + 1
  /\ keyCall' = "key" /\ keyQueue' = events
  /\ UNCHANGED <<keyboard, keysDown, pressed_keys, repeatStep, snapshot,
                 repeat_running, keyFailures, ghosts, late>>

(* submit_keyboard_events and type_text return at the first failure *)
ReturnFailure ==
  /\ keyCall' = "idle" /\ keyQueue' = <<>>

WriteFails ==
  /\ keyFailures < MaxKeyFailures
  /\ keyFailures' = keyFailures + 1

Current == keyQueue[1]

Sends ==
  /\ keysDown' = KeysAfter(keysDown, Key(Current.key, Current.pressed))
  /\ ghosts' = ghosts \ {Current.key}
  /\ late' = [late EXCEPT ![Current.key] = 0]

NextKey ==
  /\ keyQueue' = Tail(keyQueue)
  /\ keyCall' = IF Len(keyQueue) = 1 THEN "idle" ELSE "key"

(* EV_KEY of the event being submitted *)
WriteKey ==
  /\ keyboard = "uinput" /\ keyCall = "key"
  /\ \/ Sends /\ keyCall' = "sync" /\ UNCHANGED <<keyQueue, keyFailures>>
     \/ WriteFails /\ ReturnFailure /\ UNCHANGED <<keysDown, ghosts, late>>
  /\ UNCHANGED <<keyboard, pressed_keys, repeatStep, snapshot,
                 repeat_running, keyCalls>>

(* The whole submission of an event through XTest, refused when the X server *)
(* has no code for the key                                                   *)
SubmitXTestKey ==
  /\ keyboard = "xtest" /\ keyCall = "key"
  /\ \/ Sends /\ NextKey /\ UNCHANGED keyFailures
     \/ WriteFails /\ ReturnFailure /\ UNCHANGED <<keysDown, ghosts, late>>
  /\ UNCHANGED <<keyboard, pressed_keys, repeatStep, snapshot,
                 repeat_running, keyCalls>>

WriteSyn ==
  /\ keyCall = "sync"
  /\ \/ keyCall' = "update" /\ UNCHANGED <<keyQueue, keyFailures>>
     \/ WriteFails /\ ReturnFailure
  /\ UNCHANGED <<keyboard, keysDown, pressed_keys, repeatStep, snapshot,
                 repeat_running, ghosts, late, keyCalls>>

\* Mutant: a release does not take its key out of pressed_keys_.
UpdatePressedKeysAdding ==
  /\ keyCall = "update"
  /\ pressed_keys' = pressed_keys \cup {Current.key}
  /\ NextKey
  /\ UNCHANGED <<keyboard, keysDown, repeatStep, snapshot, repeat_running,
                 keyFailures, ghosts, late, keyCalls>>

(* update_pressed_keys, after both writes *)
UpdatePressedKeys ==
  /\ keyCall = "update"
  /\ pressed_keys' = KeysAfter(pressed_keys, Key(Current.key, Current.pressed))
  /\ NextKey
  /\ UNCHANGED <<keyboard, keysDown, repeatStep, snapshot, repeat_running,
                 keyFailures, ghosts, late, keyCalls>>

(* close: stop_repeat_thread, which joins the thread ... *)
StopRepeatThread ==
  /\ keyboard \in {"uinput", "xtest"} /\ keyCall = "idle"
  /\ keyCall' = "join"
  /\ repeat_running' = FALSE
  /\ UNCHANGED <<keyboard, keysDown, pressed_keys, keyQueue, repeatStep,
                 snapshot, keyFailures, ghosts, late, keyCalls>>

(* ... then close_uinput, and the kernel releases every key of the device.   *)
(* The X server keeps what a disconnecting XTest client holds down.          *)
CloseKeyboard ==
  /\ keyCall = "join" /\ repeatStep \in {"none", "ended"}
  /\ keyCall' = "idle" /\ keyboard' = "closed"
  /\ keysDown' = IF keyboard = "uinput" THEN {} ELSE keysDown
  /\ UNCHANGED <<pressed_keys, keyQueue, repeatStep, snapshot,
                 repeat_running, keyFailures, ghosts, late, keyCalls>>

-----------------------------------------------------------------------------
(* The repeat thread *)

Repeater(from, to) ==
  /\ repeatStep = from
  /\ repeatStep' = to
  /\ UNCHANGED <<keyboard, pressed_keys, keyCall, keyCalls, keyQueue,
                 repeat_running>>

\* Mutant: the thread looks for a stop only between the keys of a snapshot.
WakeUpRegardless ==
  /\ Repeater("asleep", IF pressed_keys = {} THEN "asleep" ELSE "next")
  /\ snapshot' = pressed_keys
  /\ UNCHANGED <<keysDown, keyFailures, ghosts, late>>

(* The interval is over: stop, or take pressed_keys_snapshot *)
WakeUp ==
  IF repeat_running
  THEN /\ Repeater("asleep", IF pressed_keys = {} THEN "asleep" ELSE "next")
       /\ snapshot' = pressed_keys
       /\ UNCHANGED <<keysDown, keyFailures, ghosts, late>>
  ELSE /\ Repeater("asleep", "ended")
       /\ UNCHANGED <<snapshot, keysDown, keyFailures, ghosts, late>>

(* The next key of the snapshot, unless the keyboard is being closed: the    *)
(* loop of the snapshot ends, and the outer one after it                     *)
StopRepeating ==
  /\ ~repeat_running
  /\ Repeater("next", "ended")
  /\ snapshot' = {}
  /\ UNCHANGED <<keysDown, keyFailures, ghosts, late>>

Released(k) ==
  \/ /\ k \notin pressed_keys
     /\ ~(keyCall \in Submitting /\ Current = Event(k, TRUE))
  \/ keyCall \in {"sync", "update"} /\ Current = Event(k, FALSE)

(* The press is written, or the write fails; the status is ignored, and so   *)
(* is that of the SYN after it, which nobody waits for.                      *)
RepeatKey(k) ==
  /\ repeat_running /\ k \in snapshot
  /\ snapshot' = snapshot \ {k}
  /\ Repeater("next", IF snapshot' = {} THEN "asleep" ELSE "next")
  /\ \/ /\ keysDown' = keysDown \cup {k}
        /\ ghosts' = IF Released(k) THEN ghosts \cup {k} ELSE ghosts
        /\ late' = IF Released(k) /\ k \notin pressed_keys
                   THEN [late EXCEPT ![k] = IF @ = 0 THEN 1 ELSE 2] ELSE late
        /\ UNCHANGED keyFailures
     \/ /\ WriteFails
        /\ UNCHANGED <<keysDown, ghosts, late>>

-----------------------------------------------------------------------------
KeyCallStep == WriteKey \/ SubmitXTestKey \/ WriteSyn \/ UpdatePressedKeys \/ CloseKeyboard
RepeatStep == WakeUp \/ StopRepeating \/ (\E k \in AllKeys : RepeatKey(k))

KeyboardNext ==
  \/ \E kind \in {"uinput", "xtest"}, r \in BOOLEAN : CreateKeyboard(kind, r)
  \/ \E k \in Keys, down \in BOOLEAN : SubmitKeys(<<Event(k, down)>>)
  \/ SubmitKeys(UnicodeHex(<<"1">>))
  \/ StopRepeatThread
  \/ KeyCallStep
  \/ RepeatStep

KeyboardFairness ==
  WF_kbVars(KeyCallStep) /\ WF_kbVars(RepeatStep)

KeyboardSpec ==
  KeyboardInit /\ [][KeyboardNext]_kbVars /\ KeyboardFairness

-----------------------------------------------------------------------------
KeyboardTypeOK ==
  /\ keyboard \in {"none", "uinput", "xtest", "closed"}
  /\ keysDown \subseteq AllKeys /\ pressed_keys \subseteq AllKeys
  /\ keyCall \in {"idle", "join"} \cup Submitting
  /\ keyCall \in Submitting => keyQueue # <<>>
  /\ repeatStep \in {"none", "asleep", "next", "ended"}
  /\ snapshot \subseteq AllKeys
  /\ repeat_running \in BOOLEAN
  /\ ghosts \subseteq AllKeys
  /\ late \in [AllKeys -> 0 .. 2]

(* Between calls and as long as no write has failed, the keys the kernel     *)
(* holds down are those of pressed_keys_, except that the repeat thread may  *)
(* have pressed a key again after its release was written; it does so at     *)
(* most once after the release has returned, because a snapshot presses each *)
(* key once and the next snapshot no longer has it.                          *)
LatePressAtMostOnce ==
  keyboard = "uinput" /\ keyCall = "idle" /\ keyFailures = 0 =>
    /\ keysDown = pressed_keys \cup ghosts
    /\ \A k \in AllKeys : late[k] <= 1

(* A close ends: the repeat thread it joins gets out of its loops. *)
KeyboardCloseWaits == keyCall = "join"
KeyboardCloseEnds == KeyboardCloseWaits ~> keyboard = "closed"
=============================================================================
