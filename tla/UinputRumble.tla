---------------------------- MODULE UinputRumble ----------------------------
(* Force feedback of the Linux uinput gamepads (UinputGamepad): the kernel   *)
(* queues uploads, erasures, plays and the gain; the reader thread applies   *)
(* them and, every poll interval, computes the strength of the effects that  *)
(* are playing and calls the output callback when it has changed.            *)
EXTENDS Integers, Sequences, FiniteSets, SequencesExt, FiniteSetsExt

CONSTANTS
  EffectIds,       \* effect slots of the kernel
  Shapes,          \* effects games upload: length, delay, start and end
                   \* magnitude, attack and fade (length and level)
  MaxMagnitude,    \* 65535
  MaxRumbleTime,   \* bound on the clock
  MaxRumbleEvents  \* bound on the events of the kernel

(* The fields of an effect are 16 bits without a sign. *)
ASSUME RumbleBounds ==
  /\ MaxMagnitude \in Nat /\ MaxRumbleTime \in Nat /\ IsFiniteSet(EffectIds)
  /\ Shapes \subseteq [length : Nat, delay : Nat, from : Nat, to : Nat, attack : Nat,
                      attackLevel : Nat, fade : Nat, fadeLevel : Nat]

VARIABLES
  rumbleNow,       \* the clock
  ffQueue,         \* events the kernel holds for the reader
  ffSent,          \* number of events so far
  effects,         \* rumble_effects_
  gain,            \* gain_, 0 or full
  reader,          \* what the reader thread is about to do
  running,         \* running_ (and the stop token)
  lastRumble,      \* last_low_frequency_ and last_high_frequency_
  hasCallback,     \* is output_callback_ set?
  heard,           \* strength of the last callback
  padClose         \* how far close has come

rumbleVars == <<rumbleNow, ffQueue, ffSent, effects, gain, reader, running,
                lastRumble, hasCallback, heard, padClose>>

-----------------------------------------------------------------------------
(* Magnitudes over time *)

(* interpolate_magnitude *)
Interpolate(from, to, elapsed, length) ==
  IF length = 0 \/ elapsed >= length THEN to
  ELSE (from * (length - elapsed) + to * elapsed) \div length

(* apply_envelope *)
Envelope(magnitude, s, elapsed, remaining) ==
  IF s.attack > 0 /\ elapsed < s.attack
  THEN Interpolate(s.attackLevel, magnitude, elapsed, s.attack)
  ELSE IF s.fade > 0 /\ remaining < s.fade
       THEN Interpolate(s.fadeLevel, magnitude, remaining, s.fade)
       ELSE magnitude

Infinite(s) == s.length = 0
Forever == MaxRumbleTime + 1

(* rumble_magnitudes: an infinite effect does not fade, a finite one repeats *)
(* its cycle (rumble_effect_cycle_timing)                                    *)
Magnitude(e, now) ==
  LET s == e.shape
      elapsed == now - e.start
  IN IF Infinite(s) THEN Envelope(s.from, s, elapsed, Forever)
     ELSE LET cycle == elapsed % s.length
          IN Envelope(Interpolate(s.from, s.to, cycle, s.length), s, cycle,
                      s.length - cycle)

(* rumble_effect_end *)
EffectEnd(s, start, count) == IF Infinite(s) THEN Forever ELSE start + s.length * count

(* handle_output_event.  A new upload of an effect that plays keeps its      *)
(* start and its count; a play starts it (again) after its delay.            *)
Uploaded(fx, id, s) ==
  IF id \in DOMAIN fx /\ fx[id].active
  THEN [fx EXCEPT ![id].shape = s, ![id].end = EffectEnd(s, fx[id].start, fx[id].count)]
  ELSE [i \in DOMAIN fx \cup {id} |->
          IF i = id THEN [shape |-> s, active |-> FALSE, start |-> 0, count |-> 1, end |-> 0]
          ELSE fx[i]]

Played(fx, id, count) ==
  IF id \notin DOMAIN fx THEN fx
  ELSE IF count <= 0 THEN [fx EXCEPT ![id].active = FALSE]
  ELSE LET s == fx[id].shape
       IN [fx EXCEPT ![id] =
             [shape |-> s, active |-> TRUE, start |-> rumbleNow + s.delay,
              count |-> count, end |-> EffectEnd(s, rumbleNow + s.delay, count)]]

Handled(event) ==
  CASE event.kind = "upload" -> Uploaded(effects, event.id, event.shape)
    [] event.kind = "erase"  -> [i \in DOMAIN effects \ {event.id} |-> effects[i]]
    [] event.kind = "play"   -> Played(effects, event.id, event.count)
    [] event.kind = "gain"   -> effects

(* update_rumble: finite effects that are over become inactive *)
Due(e) == e.active /\ rumbleNow >= e.start
Over(e) == Due(e) /\ ~Infinite(e.shape) /\ rumbleNow >= e.end
Expired(fx) == [i \in DOMAIN fx |-> [fx[i] EXCEPT !.active = @ /\ ~Over(fx[i])]]
Strength(fx, g) ==
  LET sum == MapThenSumSet(LAMBDA i : Magnitude(fx[i], rumbleNow),
                           {i \in DOMAIN fx : Due(fx[i]) /\ ~Over(fx[i])})
  IN (IF sum > MaxMagnitude THEN MaxMagnitude ELSE sum) * g

-----------------------------------------------------------------------------
RumbleInit ==
  /\ rumbleNow = 0
  /\ ffQueue = <<>> /\ ffSent = 0
  /\ effects = <<>> /\ gain = 1
  /\ reader = "none" /\ running = FALSE
  /\ lastRumble = 0 /\ hasCallback = FALSE /\ heard = 0
  /\ padClose = "not_created"

(* create: a gamepad without rumble has no reader *)
CreatePad(rumble) ==
  /\ padClose = "not_created"
  /\ padClose' = "open"
  /\ running' = rumble
  /\ reader' = IF rumble THEN "top" ELSE "none"
  /\ UNCHANGED <<rumbleNow, ffQueue, ffSent, effects, gain, lastRumble,
                 hasCallback, heard>>

(* A game, through the kernel *)
FeedbackEvents ==
  [kind : {"upload"}, id : EffectIds, shape : Shapes]
    \cup [kind : {"erase"}, id : EffectIds]
    \cup [kind : {"play"}, id : EffectIds, count : 0 .. 2]
    \cup [kind : {"gain"}, value : {0, 1}]

KernelSends(event) ==
  /\ padClose # "done" /\ reader # "none" /\ ffSent < MaxRumbleEvents
  /\ ffSent' = ffSent + 1
  /\ ffQueue' = Append(ffQueue, event)
  /\ UNCHANGED <<rumbleNow, effects, gain, reader, running, lastRumble,
                 hasCallback, heard, padClose>>

Tick ==
  /\ padClose # "not_created" /\ rumbleNow < MaxRumbleTime
  /\ rumbleNow' = rumbleNow + 1
  /\ UNCHANGED <<ffQueue, ffSent, effects, gain, reader, running, lastRumble,
                 hasCallback, heard, padClose>>

SetCallback ==
  /\ ~hasCallback /\ padClose = "open"
  /\ hasCallback' = TRUE
  /\ UNCHANGED <<rumbleNow, ffQueue, ffSent, effects, gain, reader, running,
                 lastRumble, heard, padClose>>

(* The condition of read_output_loop *)
ReaderChecks ==
  /\ reader = "top"
  /\ reader' = IF running THEN "poll" ELSE "ended"
  /\ UNCHANGED <<rumbleNow, ffQueue, ffSent, effects, gain, running,
                 lastRumble, hasCallback, heard, padClose>>

(* One turn of the loop handles the events it read (handle_output_event, one *)
(* step each), then runs update_rumble, even if a close has begun meanwhile. *)
ReaderHandles ==
  /\ reader = "poll" /\ ffQueue # <<>>
  /\ ffQueue' = Tail(ffQueue)
  /\ effects' = Handled(Head(ffQueue))
  /\ gain' = IF Head(ffQueue).kind = "gain" THEN Head(ffQueue).value ELSE gain
  /\ UNCHANGED <<rumbleNow, ffSent, reader, running, lastRumble, hasCallback,
                 heard, padClose>>

ReaderUpdates ==
  /\ reader = "poll"
  /\ effects' = Expired(effects)
  /\ lastRumble' = Strength(effects, gain)
  /\ reader' = IF lastRumble' = lastRumble THEN "top" ELSE "dispatch"
  /\ UNCHANGED <<rumbleNow, ffQueue, ffSent, gain, running, hasCallback, heard,
                 padClose>>

(* dispatch_rumble, with the callback as it is by then *)
ReaderDispatch ==
  /\ reader = "dispatch"
  /\ reader' = "top"
  /\ heard' = IF hasCallback THEN lastRumble ELSE heard
  /\ UNCHANGED <<rumbleNow, ffQueue, ffSent, effects, gain, running,
                 lastRumble, hasCallback, padClose>>

(* poll or read fails *)
ReaderFailsToPoll ==
  /\ reader = "poll"
  /\ reader' = "ended"
  /\ UNCHANGED <<rumbleNow, ffQueue, ffSent, effects, gain, running,
                 lastRumble, hasCallback, heard, padClose>>

(* close: stop and join the reader, then report silence *)
BeginPadClose ==
  /\ padClose = "open"
  /\ padClose' = "join"
  /\ running' = FALSE
  /\ UNCHANGED <<rumbleNow, ffQueue, ffSent, effects, gain, reader,
                 lastRumble, hasCallback, heard>>

\* Mutant: close does not report silence.
FinishPadCloseQuietly ==
  /\ padClose = "join" /\ reader \in {"none", "ended"}
  /\ padClose' = "done"
  /\ lastRumble' = 0
  /\ UNCHANGED <<rumbleNow, ffQueue, ffSent, effects, gain, reader, running,
                 hasCallback, heard>>

FinishPadClose ==
  /\ padClose = "join" /\ reader \in {"none", "ended"}
  /\ padClose' = "done"
  /\ lastRumble' = 0
  /\ heard' = IF lastRumble # 0 /\ hasCallback THEN 0 ELSE heard
  /\ UNCHANGED <<rumbleNow, ffQueue, ffSent, effects, gain, reader, running,
                 hasCallback>>

RumbleReaderStep ==
  ReaderChecks \/ ReaderHandles \/ ReaderUpdates \/ ReaderDispatch

RumbleNext ==
  \/ \E rumble \in BOOLEAN : CreatePad(rumble)
  \/ \E event \in FeedbackEvents : KernelSends(event)
  \/ Tick
  \/ SetCallback
  \/ RumbleReaderStep \/ ReaderFailsToPoll
  \/ BeginPadClose \/ FinishPadClose

(* The clock and the threads go on; a failing poll need not happen. *)
RumbleFairness ==
  /\ WF_rumbleVars(Tick)
  /\ WF_rumbleVars(RumbleReaderStep)
  /\ WF_rumbleVars(FinishPadClose)

RumbleSpec == RumbleInit /\ [][RumbleNext]_rumbleVars /\ RumbleFairness

-----------------------------------------------------------------------------
RumbleTypeOK ==
  /\ rumbleNow \in 0 .. MaxRumbleTime
  /\ Range(ffQueue) \subseteq FeedbackEvents
  /\ DOMAIN effects \subseteq EffectIds
  /\ gain \in {0, 1}
  /\ reader \in {"none", "top", "poll", "dispatch", "ended"}
  /\ running \in BOOLEAN /\ hasCallback \in BOOLEAN
  /\ lastRumble \in 0 .. MaxMagnitude /\ heard \in 0 .. MaxMagnitude
  /\ padClose \in {"not_created", "open", "join", "done"}

(* Once close has returned the last thing a callback heard is silence,       *)
(* however the reader ended and whatever was playing, and nothing is heard   *)
(* afterwards.                                                               *)
SilentAfterClose == padClose = "done" => heard = 0 /\ reader \in {"none", "ended"}

(* A strength that was heard is taken back: a finite effect is reported to   *)
(* be over once its time has passed even if the game never stops it, unless  *)
(* an infinite effect (or one that outlasts the model's clock) plays on, or  *)
(* the reader has failed.                                                    *)
RumbleHeard == heard > 0
RumbleOver ==
  \/ heard = 0 \/ reader = "ended"
  \/ \E i \in DOMAIN effects : effects[i].active /\ effects[i].end > MaxRumbleTime
RumbleEnds == RumbleHeard ~> RumbleOver
=============================================================================
