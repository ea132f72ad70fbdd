--------------------------- MODULE WindowsDevices ----------------------------
(* Checks the progress of the driver's input reports and output reads, and   *)
(* the pointer devices and the rumble of the Windows backend, in one run.    *)
(* They share no state here: a behaviour picks one of them, part, and the    *)
(* others stay as they were created.  WindowsPointers and WindowsRumble are   *)
(* extended, so that the properties checked are those their theorems state.  *)
EXTENDS Integers, Sequences, WindowsPointers, WindowsRumble

CONSTANTS
  Workers, ReadyThreads, WriteThreads, Discrete, MaxPending, MaxReports, NoReport,
  Files, Devices, MaxEvents, MaxLives, NoEvent

(* A new effect goes on until it is stopped; games give it a duration *)
EffectDurations == {1}

VARIABLES
  part,
  registered, shutting_down, ready, in_flight, active, protocol, states,
    thread, remover, vhf, pushed, newest, delivered,
  runtime, stop, life, read, answer, asked, cancelable, pending, buffered,
    device, creator, writer, sent, got, handed, cleanup, hardware, released

inputVars == <<registered, shutting_down, ready, in_flight, active, protocol,
               states, thread, remover, vhf, pushed, newest, delivered>>
readVars == <<runtime, stop, life, read, answer, asked, cancelable, pending,
              buffered, device, creator, writer, sent, got, handed, cleanup, hardware,
              released>>
vars == <<part, inputVars, readVars, winVars, pidVars>>

I == INSTANCE VhfInput
O == INSTANCE OutputReads

(* What VhfInput and OutputReads assume of their constants *)
ASSUME PartsAssumption ==
  /\ Workers \cap ReadyThreads = {} /\ Workers \cap WriteThreads = {}
  /\ ReadyThreads \cap WriteThreads = {}
  /\ IsFiniteSet(Workers \cup ReadyThreads \cup WriteThreads)
  /\ MaxPending \in Nat \ {0} /\ MaxReports \in Nat /\ NoReport \notin I!Reports
  /\ MaxEvents \in Nat /\ MaxLives \in Nat \ {0} /\ NoEvent \notin O!Events

-----------------------------------------------------------------------------
Init ==
  /\ part \in {"input", "reads", "pointers", "rumble"}
  /\ I!Init /\ O!Init
  /\ WinInit /\ (part # "pointers" => pointerState["pen"] = "open")
  /\ PidInit

InputStep(A)   == part = "input" /\ A /\ UNCHANGED <<part, readVars, winVars, pidVars>>
ReadStep(A)    == part = "reads" /\ A /\ UNCHANGED <<part, inputVars, winVars, pidVars>>
PointerStep(A) == part = "pointers" /\ A /\ UNCHANGED <<part, inputVars, readVars, pidVars>>
RumbleStep(A)  == part = "rumble" /\ A /\ UNCHANGED <<part, inputVars, readVars, winVars>>

Next ==
  \/ InputStep(I!Next)
  \/ ReadStep(O!Next)
  \/ PointerStep(WinNext)
  \/ RumbleStep(PidNext)

(* The fairness of VhfInput; that of OutputReads, weaker: its steps in the   *)
(* driver are one action; and that of the other two modules, which have no   *)
(* fair action enabled before they are used.  Every action named here        *)
(* changes the variable of its subscript.                                    *)
InputFairness ==
  /\ \A t \in I!Threads : WF_thread(part = "input" /\ I!Submission(t))
  /\ WF_vhf(part = "input" /\ I!VhfConsumes)
  /\ WF_thread(part = "input" /\ \E t \in ReadyThreads : I!VhfCallsReady(t))
  /\ WF_remover(part = "input" /\ I!Removal)
  /\ SF_remover(part = "input" /\ I!VhfDeleted)

DriverStep ==
  \/ \E f \in Files : O!ReadStep(f) \/ O!CleanupStep(f)
  \/ \E d \in Devices : O!EventStep(d) \/ O!GamepadDeleted(d)
  \/ O!ReleaseStep
ReadFairness ==
  /\ WF_readVars(part = "reads" /\ DriverStep)
  /\ \A f \in Files :
       /\ WF_readVars(part = "reads" /\ O!FileStep(f))
       /\ WF_readVars(part = "reads" /\ O!RequestStop(f))

WindowsSpec ==
  /\ Init /\ [][Next]_vars
  /\ InputFairness /\ ReadFairness /\ WinFairness /\ PidFairness

-----------------------------------------------------------------------------
WindowsTypeOK == I!TypeOK /\ O!TypeOK /\ WinTypeOK /\ PidTypeOK

NewestArrives == I!NewestArrives
EventArrives == O!EventArrives
QuietStopEnds == O!QuietStopEnds

(* RemovalEnds, PointerCloseEnds and ContextStops, of the part in use: what  *)
(* waits for threads and callbacks to be done ends.                          *)
WindowsStops ==
  (\/ part = "input" /\ remover # "none"
   \/ part = "pointers" /\ PointerCloseWaits
   \/ part = "rumble" /\ stopping = "asked")
  ~> (\/ part = "input" /\ remover = "done"
      \/ part = "pointers" /\ PointersClosed
      \/ part = "rumble" /\ stopping = "done")
=============================================================================
