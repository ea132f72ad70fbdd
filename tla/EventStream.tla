----------------------------- MODULE EventStream -----------------------------
(***************************************************************************)
(* What the driver and the client promise of the output events of gamepads:*)
(* each event is given to the runtime at most once and never after a newer *)
(* one; as long as the runtime reads and nothing is ended, every event is  *)
(* given, the next one each time.  There are no requests, buffers, locks   *)
(* or cancellations here.                                                  *)
(***************************************************************************)
EXTENDS Integers

CONSTANTS
  Devices,    \* gamepads
  MaxEvents   \* bound: output events of a gamepad

VARIABLES
  made,       \* events of a gamepad, numbered
  given,      \* number of the last event its runtime has got
  times,      \* how many it has got
  calm        \* gamepads whose runtime reads, and nothing was ended

streamVars == <<made, given, times, calm>>

StreamInit ==
  /\ made = [d \in Devices |-> 0]
  /\ given = [d \in Devices |-> 0]
  /\ times = [d \in Devices |-> 0]
  /\ calm \subseteq Devices

Make(d) ==
  /\ made[d] < MaxEvents
  /\ made' = [made EXCEPT ![d] = @ + 1]
  /\ UNCHANGED <<given, times, calm>>

\* Events are skipped only when something was ended.
Give(d) ==
  /\ \E n \in (given[d] + 1)..made[d] :
       /\ d \in calm => n = given[d] + 1
       /\ given' = [given EXCEPT ![d] = n]
  /\ times' = [times EXCEPT ![d] = @ + 1]
  /\ UNCHANGED <<made, calm>>

\* A gamepad is created: it has made no event.
Begin(d) ==
  /\ made[d] = 0
  /\ calm' = calm \cup {d}
  /\ UNCHANGED <<made, given, times>>

\* Runtimes stop or end, or the device does: once and for all.
End ==
  /\ calm' \in SUBSET calm
  /\ UNCHANGED <<made, given, times>>

StreamNext ==
  \/ \E d \in Devices : Make(d) \/ Give(d) \/ Begin(d)
  \/ End

StreamSpec == StreamInit /\ [][StreamNext]_streamVars
=============================================================================
