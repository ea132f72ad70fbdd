---------------------------- MODULE WindowsRumble ----------------------------
(* Rumble of a generic gamepad of the Windows backend.  One thread reads the *)
(* output reports of the driver, another waits for the next moment at which  *)
(* a DirectInput effect starts or ends; either may call the application, one *)
(* at a time.  Forces are added up, gains and the two kinds of effects are   *)
(* left out, and the loops of an effect are in its duration.                 *)
EXTENDS Integers, FiniteSets, Functions

CONSTANTS
  Blocks,              \* effect blocks of the device
  Durations, Delays,   \* of the effects games set, in ticks
  MaxPidTime,          \* bound on the clock
  MaxPidReports        \* bound on the reports games send

Infinite == -1
NoTime == -1

ASSUME PidBounds == IsFiniteSet(Blocks) /\ MaxPidTime \in Nat
ASSUME Spans == Durations \subseteq Nat \cup {Infinite} /\ Delays \subseteq Nat

VARIABLES
  pidNow,              \* the clock
  padState,            \* "none", "created", "open", "closed" or "destroyed"
  padRegistered,       \* is the gamepad in gamepads_?
  padCallback,         \* has the application set a callback?
  pidEffects,          \* effects_
  enabled, paused, pauseStarted, lastStrength,
  outputThread,        \* where output_loop is
  timer,               \* where pid_timer_loop is, and what it waits for
  notified,            \* pid_timer_generation_ moved since the timer read it
  dispatching,         \* holder of output_dispatch_mutex_
  heard,               \* strength the application was told last
  stopping,            \* the context: "not_started", then "no" (it runs) until
                       \* stop() is "asked" and "done"
  pidReports

pidVars == <<pidNow, padState, padRegistered, padCallback, pidEffects, enabled,
             paused, pauseStarted, lastStrength, outputThread, timer, notified,
             dispatching, heard, stopping, pidReports>>
pidState == <<pidEffects, enabled, paused, pauseStarted, lastStrength>>
padVars == <<padState, padRegistered, padCallback>>

Unset == [running |-> FALSE, started |-> FALSE, magnitude |-> 0, duration |-> Infinite,
          delay |-> 0, asked |-> 0, start |-> 0, end |-> NoTime, putOff |-> FALSE]

-----------------------------------------------------------------------------
(* GenericPidRumbleState, as functions of its effects *)
EndOf(e) == [e EXCEPT !.end = IF e.duration = Infinite THEN NoTime ELSE e.start + e.duration]
Halted(e) == [e EXCEPT !.running = FALSE, !.started = FALSE, !.end = NoTime]

Expired(e, t) ==
  IF ~e.running THEN e
  ELSE IF e.end # NoTime /\ t >= e.end THEN Halted(e)
  ELSE [e EXCEPT !.started = @ \/ t >= e.start]

ExpireEffects(effects, t) ==
  IF paused THEN effects ELSE [b \in Blocks |-> Expired(effects[b], t)]

StartedEffect(e, t) ==
  EndOf([e EXCEPT !.running = TRUE, !.asked = t, !.started = (e.delay = 0), !.start = t + e.delay,
                !.putOff = FALSE])

Rescheduled(e, t) ==
  IF ~e.running THEN e
  ELSE Expired(EndOf(IF e.started THEN e
                     ELSE [e EXCEPT !.start = e.asked + e.delay,
                                    !.started = (t >= e.asked + e.delay)]), t)

Sounds(e, t) == e.running /\ e.started /\ t >= e.start
Strength(effects, on, halt, t) ==
  IF ~on \/ halt THEN 0
  ELSE SumFunctionOnSet([b \in Blocks |-> effects[b].magnitude],
                        {b \in Blocks : Sounds(effects[b], t)})

NextTransition(effects, halt) ==
  LET times == {IF effects[b].started THEN effects[b].end ELSE effects[b].start :
                  b \in {c \in Blocks : effects[c].running}} \ {NoTime}
  IN IF halt \/ times = {} THEN NoTime ELSE CHOOSE t \in times : \A u \in times : t <= u

(* continue_effects: everything that runs is put off by the whole pause, so  *)
(* that an effect may have started and start later; putOff remembers it      *)
Later(e, pause, t) ==
  IF ~e.running THEN e
  ELSE [e EXCEPT !.putOff = e.started /\ e.start + pause > t,
                 !.asked = @ + pause, !.start = @ + pause,
                 !.end = IF @ = NoTime THEN NoTime ELSE @ + pause]
Continued(effects, t) ==
  IF ~paused THEN effects
  ELSE [b \in Blocks |-> Later(effects[b], t - pauseStarted, t)]

-----------------------------------------------------------------------------
(* handle_output_report: the effects after a report, and whether the         *)
(* application is to be told                                                 *)
Reports ==
  [kind : {"effect"}, block : Blocks, duration : Durations, delay : Delays]
    \cup [kind : {"magnitude"}, block : Blocks, magnitude : {0, 1}]
    \cup [kind : {"start", "solo", "stop", "free"}, block : Blocks]
    \cup [kind : {"enable", "disable", "stop_all", "reset", "pause", "continue"}]

EffectsAfter(r, effects, t) ==
  CASE r.kind = "effect" ->
         [effects EXCEPT ![r.block] =
            Rescheduled([@ EXCEPT !.duration = r.duration, !.delay = r.delay], t)]
    [] r.kind = "magnitude" -> [effects EXCEPT ![r.block].magnitude = r.magnitude]
    [] r.kind = "start" -> [effects EXCEPT ![r.block] = StartedEffect(@, t)]
    [] r.kind = "solo" ->
         [[b \in Blocks |-> Halted(effects[b])] EXCEPT ![r.block] = StartedEffect(@, t)]
    [] r.kind = "stop" -> [effects EXCEPT ![r.block] = Halted(@)]
    [] r.kind = "free" -> [effects EXCEPT ![r.block] = Unset]
    [] r.kind = "stop_all" -> [b \in Blocks |-> Halted(effects[b])]
    [] r.kind = "reset" -> [b \in Blocks |-> Unset]
    [] r.kind = "continue" -> Continued(effects, t)
    [] OTHER -> effects

TellsOf(r, effects) ==
  r.kind \in {"effect", "magnitude"} => effects[r.block].running

HandleOutputReport(r, t) ==
  LET before == ExpireEffects(pidEffects, t)
  IN /\ pidEffects' = EffectsAfter(r, before, t)
     /\ enabled' = CASE r.kind \in {"enable", "reset"} -> TRUE
                     [] r.kind = "disable" -> FALSE
                     [] OTHER -> enabled
     /\ paused' = CASE r.kind = "pause" -> TRUE
                    [] r.kind \in {"continue", "reset"} -> FALSE
                    [] OTHER -> paused
     /\ pauseStarted' = CASE r.kind = "pause" /\ ~paused -> t
                          [] r.kind \in {"continue", "reset"} -> NoTime
                          [] OTHER -> pauseStarted
     /\ lastStrength' = IF TellsOf(r, before)
                        THEN Strength(pidEffects', enabled', paused', t) ELSE lastStrength

-----------------------------------------------------------------------------
PidInit ==
  /\ pidNow = 0 /\ padState = "none" /\ padRegistered = FALSE /\ padCallback = FALSE
  /\ pidEffects = [b \in Blocks |-> Unset]
  /\ enabled = TRUE /\ paused = FALSE /\ pauseStarted = NoTime /\ lastStrength = 0
  /\ outputThread = [step |-> "reading", tells |-> FALSE]
  /\ timer = [step |-> "loop", now |-> 0, tells |-> FALSE, until |-> NoTime]
  /\ notified = FALSE /\ dispatching = "none" /\ heard = 0 /\ stopping = "not_started"
  /\ pidReports = 0

(* start: both threads exist *)
StartContext ==
  /\ stopping = "not_started"
  /\ stopping' = "no"
  /\ UNCHANGED <<pidNow, padVars, pidState, outputThread, timer, notified, dispatching,
                 heard, pidReports>>

Tick ==
  /\ stopping # "not_started"
  /\ pidNow < MaxPidTime /\ pidNow' = pidNow + 1
  /\ UNCHANGED <<padVars, pidState, outputThread, timer, notified, dispatching,
                 heard, stopping, pidReports>>

(* create_gamepad: the driver has the device before the context knows it *)
CreateDriverGamepad ==
  /\ padState = "none" /\ stopping = "no"
  /\ padState' = "created"
  /\ UNCHANGED <<pidNow, padRegistered, padCallback, pidState, outputThread, timer, notified,
                 dispatching, heard, stopping, pidReports>>

RegisterGamepad ==
  /\ padState = "created"
  /\ padState' = "open" /\ padRegistered' = TRUE /\ notified' = TRUE
  /\ UNCHANGED <<pidNow, padCallback, pidState, outputThread, timer, dispatching,
                 heard, stopping, pidReports>>

SetPadCallback ==
  /\ padState = "open" /\ ~padCallback
  /\ padCallback' = TRUE
  /\ UNCHANGED <<pidNow, padState, padRegistered, pidState, outputThread, timer, notified,
                 dispatching, heard, stopping, pidReports>>

(* close_gamepad: marked closed, then forgotten, then destroyed *)
MarkClosed ==
  /\ padState = "open" /\ padState' = "closed"
  /\ UNCHANGED <<pidNow, padRegistered, padCallback, pidState, outputThread, timer, notified,
                 dispatching, heard, stopping, pidReports>>

ForgetGamepad ==
  /\ padState = "closed" /\ padRegistered
  /\ padRegistered' = FALSE /\ notified' = TRUE
  /\ UNCHANGED <<pidNow, padState, padCallback, pidState, outputThread, timer, dispatching,
                 heard, stopping, pidReports>>

(* destroy_device may fail; nobody tries it again *)
DestroyDriverGamepad ==
  /\ padState = "closed" /\ ~padRegistered
  /\ padState' = "destroyed"
  /\ UNCHANGED <<pidNow, padRegistered, padCallback, pidState, outputThread, timer, notified,
                 dispatching, heard, stopping, pidReports>>

-----------------------------------------------------------------------------
(* output_loop and dispatch_output_report; a report of a gamepad that is not *)
(* registered is dropped                                                     *)
ReadOutput ==
  /\ outputThread.step = "reading" /\ stopping = "no"
  /\ padState # "destroyed" /\ pidReports < MaxPidReports
  /\ pidReports' = pidReports + 1
  /\ padRegistered /\ outputThread' = [outputThread EXCEPT !.step = "found"]
  /\ UNCHANGED <<pidNow, padVars, pidState, timer, notified, dispatching, heard, stopping>>

(* Without a callback the report is not even decoded *)
ApplyOutput ==
  /\ outputThread.step = "found" /\ dispatching = "none"
  /\ IF padState = "open" /\ padCallback
     THEN /\ \E r \in Reports :
               /\ HandleOutputReport(r, pidNow)
               /\ outputThread' = [step |-> "applied",
                                   tells |-> TellsOf(r, ExpireEffects(pidEffects, pidNow))]
          /\ dispatching' = "output"
     ELSE /\ outputThread' = [outputThread EXCEPT !.step = "reading"]
          /\ UNCHANGED <<pidState, dispatching>>
  /\ UNCHANGED <<pidNow, padVars, timer, notified, heard, stopping, pidReports>>

TellOutput ==
  /\ outputThread.step = "applied"
  /\ notified' = TRUE /\ dispatching' = "none"
  /\ heard' = IF outputThread.tells THEN lastStrength ELSE heard
  /\ outputThread' = [step |-> "reading", tells |-> FALSE]
  /\ UNCHANGED <<pidNow, padVars, pidState, timer, stopping, pidReports>>

OutputLoopEnds ==
  /\ outputThread.step = "reading" /\ stopping = "asked"
  /\ outputThread' = [outputThread EXCEPT !.step = "ended"]
  /\ UNCHANGED <<pidNow, padVars, pidState, timer, notified, dispatching, heard, stopping, pidReports>>

-----------------------------------------------------------------------------
(* pid_timer_loop: the generation is read first and the time before the      *)
(* mutex is taken                                                            *)
TimerReads ==
  /\ timer.step = "loop" /\ stopping = "no"
  /\ notified' = FALSE
  /\ timer' = [step |-> IF padRegistered THEN "collected" ELSE "undisturbed", now |-> pidNow,
               tells |-> FALSE, until |-> NoTime]
  /\ UNCHANGED <<pidNow, padVars, pidState, outputThread, dispatching, heard, stopping, pidReports>>

TimerAdvances ==
  /\ timer.step = "collected" /\ dispatching = "none"
  /\ IF padState = "open"
     THEN LET effects == ExpireEffects(pidEffects, timer.now)
              strength == Strength(effects, enabled, paused, timer.now)
          IN /\ pidEffects' = effects /\ lastStrength' = strength
             /\ dispatching' = "timer"
             /\ timer' = [timer EXCEPT !.step = "advanced",
                            !.tells = strength # lastStrength /\ padCallback,
                            !.until = NextTransition(effects, paused)]
     ELSE /\ timer' = [timer EXCEPT !.step = "undisturbed"]
          /\ UNCHANGED <<pidEffects, lastStrength, dispatching>>
  /\ UNCHANGED <<pidNow, padVars, enabled, paused, pauseStarted, outputThread, notified,
                 heard, stopping, pidReports>>

\* Mutant: what notified the timer while it was telling is forgotten.
TimerTellsForgetting ==
  /\ timer.step = "advanced"
  /\ heard' = IF timer.tells THEN lastStrength ELSE heard
  /\ dispatching' = "none" /\ notified' = FALSE
  /\ timer' = [timer EXCEPT !.step = "undisturbed", !.tells = FALSE]
  /\ UNCHANGED <<pidNow, padVars, pidState, outputThread, stopping, pidReports>>

TimerTells ==
  /\ timer.step = "advanced"
  /\ heard' = IF timer.tells THEN lastStrength ELSE heard
  /\ dispatching' = "none"
  /\ timer' = [timer EXCEPT !.step = "undisturbed", !.tells = FALSE]
  /\ UNCHANGED <<pidNow, padVars, pidState, outputThread, notified, stopping, pidReports>>

\* Mutant: only the next transition ends the wait.
TimerWakesOnTime ==
  /\ timer.step = "undisturbed"
  /\ timer.until # NoTime /\ pidNow >= timer.until
  /\ timer' = [timer EXCEPT !.step = "loop", !.until = NoTime, !.now = 0]
  /\ UNCHANGED <<pidNow, padVars, pidState, outputThread, notified, dispatching, heard, stopping, pidReports>>

(* wait_until returns at once when the predicate holds already *)
TimerWakes ==
  /\ timer.step = "undisturbed"
  /\ notified \/ stopping = "asked" \/ (timer.until # NoTime /\ pidNow >= timer.until)
  /\ timer' = [timer EXCEPT !.step = "loop", !.until = NoTime, !.now = 0]
  /\ UNCHANGED <<pidNow, padVars, pidState, outputThread, notified, dispatching, heard, stopping, pidReports>>

TimerLoopEnds ==
  /\ timer.step = "loop" /\ stopping = "asked"
  /\ timer' = [timer EXCEPT !.step = "ended"]
  /\ UNCHANGED <<pidNow, padVars, pidState, outputThread, notified, dispatching, heard, stopping, pidReports>>

(* stop, of the destroyed backend: the runtime has closed its gamepads       *)
(* before.  The event and both threads are told, and joined                  *)
StopContext ==
  /\ stopping = "no" /\ padState \in {"none", "destroyed"}
  /\ stopping' = "asked" /\ notified' = TRUE
  /\ UNCHANGED <<pidNow, padVars, pidState, outputThread, timer, dispatching, heard, pidReports>>

ContextStopped ==
  /\ stopping = "asked" /\ outputThread.step = "ended" /\ timer.step = "ended"
  /\ stopping' = "done"
  /\ UNCHANGED <<pidNow, padVars, pidState, outputThread, timer, notified, dispatching, heard, pidReports>>

-----------------------------------------------------------------------------
PidThreadStep ==
  \/ ApplyOutput \/ TellOutput \/ OutputLoopEnds
  \/ TimerReads \/ TimerAdvances \/ TimerTells \/ TimerWakes \/ TimerLoopEnds
  \/ ContextStopped

PidNext ==
  \/ StartContext
  \/ Tick
  \/ CreateDriverGamepad \/ RegisterGamepad \/ SetPadCallback
  \/ MarkClosed \/ ForgetGamepad \/ DestroyDriverGamepad
  \/ ReadOutput
  \/ StopContext
  \/ PidThreadStep

(* The threads run, and the application's callback returns.  Reports and the *)
(* clock are bounded, so that none of them keeps another waiting for ever.   *)
PidFairness == WF_<<outputThread, timer, stopping>>(PidThreadStep)

PidSpec == PidInit /\ [][PidNext]_pidVars /\ PidFairness

-----------------------------------------------------------------------------
PidTypeOK ==
  /\ pidNow \in 0..MaxPidTime
  /\ padState \in {"none", "created", "open", "closed", "destroyed"}
  /\ padRegistered \in BOOLEAN /\ padCallback \in BOOLEAN
  /\ \A b \in Blocks : pidEffects[b].running \in BOOLEAN /\ pidEffects[b].started \in BOOLEAN
  /\ heard \in 0..Cardinality(Blocks)
  /\ dispatching \in {"none", "output", "timer"}
  /\ stopping \in {"not_started", "no", "asked", "done"}

(* While the timer thread waits undisturbed for a moment still to come, the  *)
(* application knows the strength of this moment: no report that raced with  *)
(* the timer, and no time it read too early, leaves it with an old one.  The *)
(* exception is an effect that was started during a pause: continue puts its *)
(* start off by the whole pause, past the present (generic_pid_rumble.hpp:299). *)
PutOffTooFar == \E b \in Blocks : pidEffects[b].running /\ pidEffects[b].putOff

RumbleUpToDate ==
  /\ timer.step = "undisturbed" /\ ~notified /\ stopping = "no"
  /\ timer.until = NoTime \/ pidNow < timer.until
  /\ outputThread.step # "applied" /\ padState = "open" /\ padCallback
  /\ ~PutOffTooFar
  => heard = Strength(ExpireEffects(pidEffects, pidNow), enabled, paused, pidNow)

(* stop() returns once it is called, whatever the threads are doing *)
ContextStops == stopping = "asked" ~> stopping = "done"
=============================================================================
