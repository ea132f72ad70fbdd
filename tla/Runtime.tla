------------------------------ MODULE Runtime -------------------------------
(* The library's runtime and its device handles, over the backends of Linux  *)
(* and of Windows.  The runtime has a lock, every device has one, and one    *)
(* callback of a device runs at a time.  On Linux a backend device has an    *)
(* output thread that its close joins, and it is gone when its file is       *)
(* closed.  On Windows the threads that call the callbacks are the           *)
(* backend's: a close joins nothing and may fail to destroy the driver's     *)
(* device, and the backend's destructor joins the threads.  The six kinds of *)
(* devices are alike.                                                        *)
(* The application is of one of two kinds: its output callbacks take no lock *)
(* and its threads call what they like; or it is the control tool, whose     *)
(* callbacks take the mutex it holds while it submits, and which takes a     *)
(* device out of its map under the mutex before it closes the device without *)
(* it, and which destroys the runtime when all its devices are gone.         *)
EXTENDS Integers, FiniteSets

CONSTANTS
  Threads,         \* threads of the application
  Devices,         \* devices that may be created
  MaxCalls,        \* bound on the calls of the threads
  MaxOutputs       \* bound on the outputs of the devices

VARIABLES
  appLocks,        \* is the application the control tool?
  joins,           \* does a backend device's close join its output thread?
  runtimeGone,     \* has the runtime's destructor closed all devices?
  rtLock,          \* holder of RuntimeState's mutex
  devLock,         \* holder of each device's mutex
  appLock,         \* holder of the application's mutex
  call,            \* what each thread is doing
  calls,           \* number of calls so far
  registered,      \* devices the runtime knows
  handles,         \* devices the application may call (devices_ of the tool)
  alive,           \* devices whose object still exists
  devOpen,         \* open, of each device
  backend,         \* backend device: "none", "open", "closing", "closed", or
                   \* "left" by a close that failed
  outThread,       \* the thread that calls its callback
  outputs          \* number of outputs so far

rtVars == <<appLocks, joins, runtimeGone, rtLock, devLock, appLock, call, calls,
            registered, handles, alive, devOpen, backend, outThread, outputs>>

runtimeKind == <<appLocks, joins, runtimeGone>>
knownDevices == <<registered, handles, alive>>
outputVars == <<outThread, outputs>>
deviceVars == <<devOpen, backend, outputVars>>

Free == "free"
ASSUME FreeIsNoThread == Free \notin Threads
Idle == [name |-> "idle", step |-> "none", todo |-> {}]

TheDevice(t) == CHOOSE d \in call[t].todo : TRUE
At(t, name, step) == call[t].name = name /\ call[t].step = step
Goto(t, step) == call' = [call EXCEPT ![t].step = step]
Return(t) == call' = [call EXCEPT ![t] = Idle]
Take(lock, t) == lock = Free /\ lock' = t

RuntimeInit ==
  /\ appLocks \in BOOLEAN /\ joins \in BOOLEAN /\ runtimeGone = FALSE
  /\ rtLock = Free /\ appLock = Free
  /\ devLock = [d \in Devices |-> Free]
  /\ call = [t \in Threads |-> Idle] /\ calls = 0
  /\ registered = {} /\ handles = {} /\ alive = {}
  /\ devOpen = [d \in Devices |-> FALSE]
  /\ backend = [d \in Devices |-> "none"]
  /\ outThread = [d \in Devices |-> "none"] /\ outputs = 0

-----------------------------------------------------------------------------
(* A thread begins a call.  Neither a handle nor the runtime is used by a    *)
(* thread while another one destroys it; handles outlive the runtime.        *)
InUse(d) == \E t \in Threads : call[t].name \in {"submit", "close", "drop"} /\ d \in call[t].todo
BeingDropped(d) == \E t \in Threads : call[t].name = "drop" /\ d \in call[t].todo

Begin(t, name, step, devices) ==
  /\ call[t] = Idle /\ calls < MaxCalls
  /\ calls' = calls + 1
  /\ call' = [call EXCEPT ![t] = [name |-> name, step |-> step, todo |-> devices]]
  /\ UNCHANGED <<runtimeKind, rtLock, devLock, appLock, knownDevices, deviceVars>>

InProgress(names) == \E u \in Threads : call[u].name \in names
RuntimeThere == ~runtimeGone /\ ~InProgress({"destroy"})

BeginCreate(t, d) ==
  /\ RuntimeThere /\ backend[d] = "none" /\ \A u \in Threads : d \notin call[u].todo
  /\ Begin(t, "create", "backend", {d})

BeginOnHandle(t, d) ==
  \/ /\ appLocks \/ ~BeingDropped(d)
     /\ Begin(t, "submit", IF appLocks THEN "mutex" ELSE "lock", {d})
  \/ ~appLocks /\ ~BeingDropped(d) /\ Begin(t, "close", "lock", {d})
  \/ (appLocks \/ ~InUse(d)) /\ Begin(t, "drop", "take", {d})

BeginOnRuntime(t) ==
  /\ RuntimeThere
  /\ \/ ~appLocks /\ \E name \in {"count", "close_all"} : Begin(t, name, "runtime", {})
     \/ /\ ~InProgress({"create", "count", "close_all"}) /\ (appLocks => alive = {})
        /\ Begin(t, "destroy", "runtime", {})

BeginCall(t) ==
  \/ \E d \in Devices : BeginCreate(t, d)
  \/ \E d \in handles : BeginOnHandle(t, d)
  \/ BeginOnRuntime(t)

-----------------------------------------------------------------------------
(* create_gamepad: the backend device exists before the runtime knows it.    *)
(* The id is taken in a critical section of its own; a failure uses it up.   *)
CreateBackend(t) ==
  /\ At(t, "create", "backend") /\ rtLock = Free
  /\ LET d == TheDevice(t)
     IN \/ /\ backend' = [backend EXCEPT ![d] = "open"]
           /\ devOpen' = [devOpen EXCEPT ![d] = TRUE]
           /\ outThread' = [outThread EXCEPT ![d] = "idle"]
           /\ Goto(t, "register")
        \/ Return(t) /\ UNCHANGED <<backend, devOpen, outThread>>
  /\ UNCHANGED <<runtimeKind, rtLock, devLock, appLock, calls, knownDevices, outputs>>

Register(t) ==
  /\ At(t, "create", "register") /\ rtLock = Free
  /\ registered' = registered \cup call[t].todo
  /\ handles' = handles \cup call[t].todo
  /\ alive' = alive \cup call[t].todo
  /\ Return(t)
  /\ UNCHANGED <<runtimeKind, rtLock, devLock, appLock, calls, deviceVars>>

-----------------------------------------------------------------------------
(* submit; the tool finds the device under its mutex and keeps the mutex *)
LockApplication(t) ==
  /\ At(t, "submit", "mutex") /\ appLock = Free
  /\ IF call[t].todo \subseteq handles
     THEN appLock' = t /\ Goto(t, "lock")
     ELSE UNCHANGED appLock /\ Return(t)
  /\ UNCHANGED <<runtimeKind, rtLock, devLock, calls, knownDevices, deviceVars>>

LockDevice(t, d) == devLock[d] = Free /\ devLock' = [devLock EXCEPT ![d] = t]
UnlockDevice(d) == devLock' = [devLock EXCEPT ![d] = Free]

\* Mutant: open is not looked at again under the device's lock.
BeginSubmitUnchecked(t) ==
  /\ At(t, "submit", "lock")
  /\ LockDevice(t, TheDevice(t))
  /\ Goto(t, "backend")
  /\ UNCHANGED <<runtimeKind, rtLock, appLock, calls, knownDevices, deviceVars>>

BeginSubmit(t) ==
  /\ At(t, "submit", "lock")
  /\ LockDevice(t, TheDevice(t))
  /\ Goto(t, IF devOpen[TheDevice(t)] THEN "backend" ELSE "refused")
  /\ UNCHANGED <<runtimeKind, rtLock, appLock, calls, knownDevices, deviceVars>>

EndSubmit(t) ==
  /\ call[t].name = "submit" /\ call[t].step \in {"backend", "refused"}
  /\ UnlockDevice(TheDevice(t))
  /\ appLock' = IF appLocks THEN Free ELSE appLock
  /\ Return(t)
  /\ UNCHANGED <<runtimeKind, rtLock, calls, knownDevices, deviceVars>>

-----------------------------------------------------------------------------
(* close and the handle's destructor: under the device's lock the backend    *)
(* closes.  On Linux that joins the output thread, and the device is gone    *)
(* with its file whatever the status; on Windows it may fail, and the        *)
(* driver's device is left.  Nobody closes it again: it no longer looks      *)
(* open, and a repeated close of the backend does nothing.                   *)
\* Mutant: close joins the output thread without telling it to stop.
BackendClosesUntold(d) == backend' = backend

BackendCloses(d) ==
  backend' = [backend EXCEPT ![d] = IF @ = "open" THEN "closing" ELSE @]
BackendClosed(d) == joins => backend[d] = "closed" \/ outThread[d] = "ended"
CloseResults(d) ==
  IF backend[d] \in {"closed", "left"} THEN {backend[d]}
  ELSE IF joins THEN {"closed"} ELSE {"closed", "left"}

(* The status of the backend's close does not matter to open *)
ClosesDevice(d) ==
  /\ BackendClosed(d)
  /\ \E r \in CloseResults(d) : backend' = [backend EXCEPT ![d] = r]
  /\ devOpen' = [devOpen EXCEPT ![d] = FALSE]

(* The last use of a handle: from now on no call of the application finds it *)
TakeOut(t) ==
  /\ At(t, "drop", "take") /\ appLock = Free
  /\ handles' = handles \ call[t].todo
  /\ IF call[t].todo \subseteq handles THEN Goto(t, "lock") ELSE Return(t)
  /\ UNCHANGED <<runtimeKind, rtLock, devLock, appLock, calls, registered, alive, deviceVars>>

BeginClose(t) ==
  /\ call[t].name \in {"close", "drop"} /\ call[t].step = "lock"
  /\ LET d == TheDevice(t)
     IN /\ LockDevice(t, d)
        /\ IF devOpen[d] THEN BackendCloses(d) /\ Goto(t, "join")
           ELSE UNCHANGED backend /\ Goto(t, "closed")
  /\ UNCHANGED <<runtimeKind, rtLock, appLock, calls, knownDevices, devOpen, outputVars>>

JoinBackend(t) ==
  /\ call[t].name \in {"close", "drop"} /\ call[t].step = "join"
  /\ ClosesDevice(TheDevice(t))
  /\ Goto(t, "closed")
  /\ UNCHANGED <<runtimeKind, rtLock, devLock, appLock, calls, knownDevices, outputVars>>

EndClose(t) ==
  /\ call[t].name \in {"close", "drop"} /\ call[t].step = "closed"
  /\ UnlockDevice(TheDevice(t))
  /\ alive' = IF call[t].name = "drop" THEN alive \ call[t].todo ELSE alive
  /\ Return(t)
  /\ UNCHANGED <<runtimeKind, rtLock, appLock, calls, registered, handles, deviceVars>>

-----------------------------------------------------------------------------
(* close_all, active_device_count and the runtime's destructor, which is a   *)
(* close_all before that of the backend: the runtime's lock is held while    *)
(* the lock of each device is taken (close_devices, count_open_devices); a   *)
(* device whose last handle is gone by then is skipped                       *)
OnRuntime(t) == call[t].name \in {"close_all", "count", "destroy"}
ClosesAll(t) == call[t].name \in {"close_all", "destroy"}

LockRuntime(t) ==
  /\ OnRuntime(t) /\ call[t].step = "runtime"
  /\ Take(rtLock, t)
  /\ call' = [call EXCEPT ![t].step = "next", ![t].todo = registered]
  /\ UNCHANGED <<runtimeKind, devLock, appLock, calls, knownDevices, deviceVars>>

VisitDevice(t, d) ==
  /\ OnRuntime(t) /\ call[t].step = "next"
  /\ d \in call[t].todo \cap alive
  /\ LockDevice(t, d)
  /\ IF ClosesAll(t) THEN BackendCloses(d) ELSE UNCHANGED backend
  /\ Goto(t, "visiting")
  /\ UNCHANGED <<runtimeKind, rtLock, appLock, calls, knownDevices, devOpen, outputVars>>

(* The status of the backend's close is ignored, and a device that is closed *)
(* already is closed again                                                   *)
LeaveDevice(t, d) ==
  /\ call[t].step = "visiting" /\ devLock[d] = t
  /\ IF ClosesAll(t) THEN ClosesDevice(d) ELSE UNCHANGED <<backend, devOpen>>
  /\ UnlockDevice(d)
  /\ call' = [call EXCEPT ![t].step = "next", ![t].todo = @ \ {d}]
  /\ UNCHANGED <<runtimeKind, rtLock, appLock, calls, knownDevices, outputVars>>

UnlockRuntime(t) ==
  /\ OnRuntime(t) /\ call[t].step = "next"
  /\ call[t].todo \cap alive = {}
  /\ rtLock' = Free
  /\ IF call[t].name = "destroy"
     THEN runtimeGone' = TRUE /\ Goto(t, "stop")
     ELSE UNCHANGED runtimeGone /\ Return(t)
  /\ UNCHANGED <<appLocks, joins, devLock, appLock, calls, knownDevices, deviceVars>>

(* The backend's destructor: on Windows it joins the threads that call the   *)
(* callbacks (WindowsBackendContext::stop)                                   *)
StopBackend(t) ==
  /\ At(t, "destroy", "stop")
  /\ joins \/ \A d \in Devices : outThread[d] \in {"none", "ended"}
  /\ Return(t)
  /\ UNCHANGED <<runtimeKind, rtLock, devLock, appLock, calls, knownDevices, deviceVars>>

-----------------------------------------------------------------------------
(* The thread of a backend device's output calls the callback, which in the  *)
(* tool records the output under the mutex (record_output).  On Linux the    *)
(* reader may have read it before it is told to end.  On Windows the device  *)
(* must be open when the callback is copied; it is called after the device's *)
(* own mutex is released, so that it may outlast the close.                  *)
OutputUnchanged ==
  UNCHANGED <<runtimeKind, rtLock, devLock, call, calls, knownDevices, devOpen, backend>>

OutputArrives(d) ==
  /\ outThread[d] = "idle" /\ outputs < MaxOutputs
  /\ backend[d] \in {"open"} \cup IF joins THEN {"closing"} ELSE {}
  /\ outputs' = outputs + 1
  /\ outThread' = [outThread EXCEPT ![d] = "callback"]
  /\ UNCHANGED appLock /\ OutputUnchanged

CallbackRecords(d) ==
  /\ appLocks /\ outThread[d] = "callback"
  /\ Take(appLock, d)
  /\ outThread' = [outThread EXCEPT ![d] = "recording"]
  /\ UNCHANGED outputs /\ OutputUnchanged

CallbackReturns(d) ==
  /\ outThread[d] = IF appLocks THEN "recording" ELSE "callback"
  /\ appLock' = IF appLocks THEN Free ELSE appLock
  /\ outThread' = [outThread EXCEPT ![d] = "idle"]
  /\ UNCHANGED outputs /\ OutputUnchanged

Told(d) == IF joins THEN backend[d] = "closing" ELSE runtimeGone

OutputThreadEnds(d) ==
  /\ outThread[d] = "idle" /\ Told(d)
  /\ outThread' = [outThread EXCEPT ![d] = "ended"]
  /\ UNCHANGED <<appLock, outputs>> /\ OutputUnchanged

-----------------------------------------------------------------------------
CallStep(t) ==
  \/ CreateBackend(t) \/ Register(t)
  \/ LockApplication(t) \/ BeginSubmit(t) \/ EndSubmit(t)
  \/ TakeOut(t) \/ BeginClose(t) \/ JoinBackend(t) \/ EndClose(t)
  \/ LockRuntime(t) \/ UnlockRuntime(t) \/ StopBackend(t)
  \/ \E d \in Devices : VisitDevice(t, d) \/ LeaveDevice(t, d)

OutputStep(d) == CallbackRecords(d) \/ CallbackReturns(d) \/ OutputThreadEnds(d)

RuntimeNext ==
  \/ \E t \in Threads : BeginCall(t) \/ CallStep(t)
  \/ \E d \in Devices : OutputArrives(d) \/ OutputStep(d)

(* Threads run.  Calls and outputs are bounded, so that no mutex is withheld *)
(* for ever from one that waits.                                             *)
RuntimeFairness ==
  /\ \A t \in Threads : WF_rtVars(CallStep(t))
  /\ \A d \in Devices : WF_rtVars(OutputStep(d))

RuntimeSpec == RuntimeInit /\ [][RuntimeNext]_rtVars /\ RuntimeFairness

-----------------------------------------------------------------------------
RuntimeTypeOK ==
  /\ {appLocks, joins, runtimeGone} \subseteq BOOLEAN
  /\ rtLock \in Threads \cup {Free}
  /\ devLock \in [Devices -> Threads \cup {Free}]
  /\ appLock \in Threads \cup Devices \cup {Free}
  /\ handles \subseteq alive /\ alive \subseteq registered
  /\ registered \subseteq Devices
  /\ devOpen \in [Devices -> BOOLEAN]
  /\ backend \in [Devices -> {"none", "open", "closing", "closed", "left"}]
  /\ outThread \in [Devices -> {"none", "idle", "callback", "recording", "ended"}]

(* A submission reaches only a backend device nobody is closing, whatever    *)
(* closes, close_all and destructors run meanwhile; a device that looks open *)
(* has an open backend unless its lock is held; and when its last handle is  *)
(* gone its backend has been closed, though on Windows perhaps in vain.  No  *)
(* callback runs any more once a device is closed on Linux, where close      *)
(* joins; on Windows one may, until the runtime's destructor returns: then   *)
(* every thread that calls callbacks has ended and no backend is open.       *)
Destroyed == runtimeGone /\ ~InProgress({"destroy"})

NoUseAfterClose ==
  /\ \A t \in Threads : At(t, "submit", "backend") => backend[TheDevice(t)] = "open"
  /\ \A d \in Devices :
       /\ joins /\ backend[d] = "closed" => outThread[d] = "ended"
       /\ devLock[d] = Free /\ devOpen[d] => backend[d] = "open"
       /\ d \in registered \ alive => backend[d] \in {"closed", "left"}
       /\ d \in registered /\ Destroyed =>
            outThread[d] = "ended" /\ backend[d] \in {"closed", "left"}

(* Every call returns: no cycle of waiting among the runtime's lock, the     *)
(* device locks, the joins of the threads that call callbacks, and the       *)
(* application's mutex.  As the calls are bounded, in the end no thread is   *)
(* in one.                                                                   *)
CallsReturn == (\E t \in Threads : call[t] # Idle) ~> (\A t \in Threads : call[t] = Idle)
=============================================================================
