---------------------------- MODULE RuntimeProofs ----------------------------
(* That the runtime's locks keep a closed device from being used, and that   *)
(* nothing runs or is open once the runtime is destroyed, for every number   *)
(* of threads, devices, calls and outputs, over both kinds of backends.      *)
EXTENDS Runtime, TLAPS

-----------------------------------------------------------------------------
(* The invariant *)

Names == {"idle", "create", "submit", "close", "drop", "close_all", "count", "destroy"}
Steps == {"none", "backend", "register", "mutex", "lock", "refused", "take", "join",
          "closed", "runtime", "next", "visiting", "stop"}
CallTypes == [name : Names, step : Steps, todo : SUBSET Devices]

TypeInv ==
  /\ call \in [Threads -> CallTypes]
  /\ devLock \in [Devices -> Threads \cup {Free}]
  /\ devOpen \in [Devices -> BOOLEAN]
  /\ backend \in [Devices -> {"none", "open", "closing", "closed", "left"}]
  /\ outThread \in [Devices -> {"none", "idle", "callback", "recording", "ended"}]
  /\ handles \subseteq registered /\ alive \subseteq registered
  /\ registered \subseteq Devices
  /\ {appLocks, joins, runtimeGone} \subseteq BOOLEAN

OnOneDevice == {"create", "submit", "close", "drop"}
Visits == {"close_all", "count", "destroy"}

(* The steps at which a thread holds the lock of a device *)
Holding(t) ==
  \/ call[t].name = "submit" /\ call[t].step \in {"backend", "refused"}
  \/ call[t].name \in {"close", "drop"} /\ call[t].step \in {"join", "closed"}
  \/ call[t].name \in Visits /\ call[t].step = "visiting"

(* The steps at which a device still looks open and its backend closes *)
Closing(t) ==
  \/ call[t].name \in {"close", "drop"} /\ call[t].step = "join"
  \/ call[t].name \in {"close_all", "destroy"} /\ call[t].step = "visiting"

(* What the calls work on: one device, or devices the runtime knows; a       *)
(* device that is being created is known to no other call                    *)
CallsInv ==
  \A t \in Threads :
    /\ call[t].name \in OnOneDevice => \E d \in Devices : call[t].todo = {d}
    /\ call[t].name # "create" => call[t].todo \subseteq registered
    /\ call[t].name = "create" => \A d \in call[t].todo :
         /\ d \notin registered
         /\ \A u \in Threads \ {t} : d \notin call[u].todo
         /\ call[t].step \in {"backend", "register"}
         /\ call[t].step = "backend" => backend[d] = "none"
         /\ call[t].step = "register" =>
              devOpen[d] /\ backend[d] = "open" /\ outThread[d] # "none"

(* Who holds which lock *)
LocksInv ==
  /\ \A d \in Devices, t \in Threads :
       devLock[d] = t => d \in call[t].todo /\ Holding(t)
  /\ \A d, e \in Devices : devLock[d] = devLock[e] /\ devLock[d] # Free => d = e
  /\ \A t \in Threads : call[t].name \in OnOneDevice /\ Holding(t) =>
       \A d \in call[t].todo : devLock[d] = t

(* Open flags and backends *)
OpenInv ==
  /\ \A t \in Threads :
       /\ At(t, "submit", "backend") => \A d \in call[t].todo : devOpen[d]
       /\ call[t].name \in {"close", "drop"} /\ call[t].step = "closed" =>
            \A d \in call[t].todo : ~devOpen[d]
  /\ \A d \in Devices :
       /\ devOpen[d] /\ backend[d] # "open" => devLock[d] # Free /\ Closing(devLock[d])
       /\ joins /\ backend[d] = "closed" => outThread[d] = "ended"
       /\ joins => backend[d] # "left"
       /\ d \in registered /\ ~devOpen[d] => backend[d] \in {"closed", "left"}
       /\ d \in registered \ alive => ~devOpen[d]
       /\ d \in registered => backend[d] # "none" /\ outThread[d] # "none"

(* The runtime's destructor: no device is created any more; one that it no   *)
(* longer has to visit is not open, so that none is open when it has visited *)
(* all, and it returns when the threads that call callbacks have ended       *)
EndInv ==
  /\ \A t \in Threads :
       /\ call[t].name = "create" => ~runtimeGone /\ ~InProgress({"destroy"})
       /\ call[t].name = "destroy" /\ call[t].step \in {"next", "visiting"} =>
            \A d \in registered \ call[t].todo : ~devOpen[d]
       /\ At(t, "destroy", "stop") => runtimeGone
  /\ runtimeGone => \A d \in registered : ~devOpen[d]
  /\ Destroyed => \A d \in registered : outThread[d] = "ended"

RuntimeInv == TypeInv /\ CallsInv /\ LocksInv /\ OpenInv /\ EndInv

-----------------------------------------------------------------------------
(* What a step of a thread leaves of the calls *)

Others(t) ==
  /\ call' \in [Threads -> CallTypes]
  /\ \A u \in Threads \ {t} : call'[u] = call[u]

(* The call goes on at step s *)
Moved(t, s) ==
  /\ Others(t)
  /\ call'[t].name = call[t].name /\ call'[t].todo = call[t].todo
  /\ call'[t].step = s

Returned(t) ==
  /\ Others(t)
  /\ call'[t].name = "idle" /\ call'[t].todo = {} /\ call'[t].step = "none"

LEMMA GotoMoves ==
  ASSUME RuntimeInv, NEW t \in Threads, NEW s \in Steps, Goto(t, s)
  PROVE  Moved(t, s)
BY DEF RuntimeInv, TypeInv, CallTypes, Steps, Goto, Moved, Others

LEMMA ReturnReturns ==
  ASSUME RuntimeInv, NEW t \in Threads, Return(t)
  PROVE  Returned(t)
<1>1. Idle \in CallTypes
  BY DEF Idle, CallTypes, Names, Steps
<1>2. call \in [Threads -> CallTypes] /\ call' = [call EXCEPT ![t] = Idle]
  BY DEF RuntimeInv, TypeInv, Return
<1>3. Others(t) /\ call'[t] = Idle
  BY <1>1, <1>2 DEF Others
<1> QED
  BY <1>3 DEF Idle, Returned

LEMMA TheDeviceIs ==
  ASSUME RuntimeInv, NEW t \in Threads, call[t].name \in OnOneDevice
  PROVE  /\ call[t].todo = {TheDevice(t)}
         /\ TheDevice(t) \in Devices
<1>1. PICK d \in Devices : call[t].todo = {d}
  BY DEF RuntimeInv, CallsInv
<1>2. TheDevice(t) \in call[t].todo
  BY <1>1 DEF TheDevice
<1> QED
  BY <1>1, <1>2

LEMMA LocksRuntime ==
  ASSUME RuntimeInv, NEW t \in Threads, LockRuntime(t)
  PROVE  /\ Others(t)
         /\ call'[t].name = call[t].name /\ call'[t].step = "next"
         /\ call'[t].todo = registered
BY DEF LockRuntime, OnRuntime, RuntimeInv, TypeInv, CallTypes, Steps, Others

LEMMA LeavesDevice ==
  ASSUME RuntimeInv, NEW t \in Threads, NEW d \in Devices, LeaveDevice(t, d)
  PROVE  /\ Others(t)
         /\ call'[t].name = call[t].name /\ call'[t].step = "next"
         /\ call'[t].todo = call[t].todo \ {d}
<1>1. /\ call \in [Threads -> CallTypes]
      /\ call' = [call EXCEPT ![t].step = "next", ![t].todo = @ \ {d}]
  BY DEF LeaveDevice, RuntimeInv, TypeInv
<1> QED BY <1>1 DEF CallTypes, Steps, Others

(* What a close of a backend device leaves: it is closed or left, and the    *)
(* latter not if the close joins                                             *)
LEMMA CloseLeaves ==
  ASSUME RuntimeInv, NEW d \in Devices, ClosesDevice(d)
  PROVE  /\ \E r \in {"closed", "left"} :
              /\ backend' = [backend EXCEPT ![d] = r]
              /\ joins => r = "closed" /\ outThread[d] = "ended"
         /\ devOpen' = [devOpen EXCEPT ![d] = FALSE]
BY DEF ClosesDevice, BackendClosed, CloseResults, RuntimeInv, OpenInv

(* create *)
LEMMA InvCreateBackend ==
  ASSUME Free \notin Threads, RuntimeInv, NEW t \in Threads, CreateBackend(t)
  PROVE  RuntimeInv'
<1> USE DEF runtimeKind, knownDevices, outputVars, deviceVars
<1>1. /\ call[t].todo = {TheDevice(t)} /\ TheDevice(t) \in Devices
      /\ Goto(t, "register") => Moved(t, "register")
      /\ Return(t) => Returned(t)
  BY GotoMoves, ReturnReturns, TheDeviceIs DEF Steps, CreateBackend, At, OnOneDevice
<1>2. TypeInv'
  BY <1>1 DEF CreateBackend, At, RuntimeInv, TypeInv, Moved, Returned, Others
<1>3. CallsInv'
  BY <1>1 DEF CreateBackend, At, RuntimeInv, TypeInv, CallsInv, OnOneDevice, Moved,
              Returned, Others
<1>4. LocksInv'
  BY <1>1 DEF CreateBackend, At, RuntimeInv, TypeInv, CallsInv, LocksInv, Holding,
              OnOneDevice, Visits, Moved, Returned, Others
<1>5. OpenInv'
  BY <1>1 DEF CreateBackend, At, RuntimeInv, TypeInv, CallsInv, LocksInv, OpenInv,
              Holding, Closing, OnOneDevice, Visits, Moved, Returned, Others
<1>6. EndInv'
  BY <1>1 DEF CreateBackend, At, RuntimeInv, TypeInv, CallsInv, LocksInv, OpenInv,
              Moved, Returned, Others, EndInv, InProgress, Destroyed
<1> QED
  BY <1>2, <1>3, <1>4, <1>5, <1>6 DEF RuntimeInv

LEMMA InvRegister ==
  ASSUME Free \notin Threads, RuntimeInv, NEW t \in Threads, Register(t)
  PROVE  RuntimeInv'
<1> USE DEF runtimeKind, knownDevices, outputVars, deviceVars
<1>1. call[t].todo = {TheDevice(t)} /\ TheDevice(t) \in Devices /\ Returned(t)
  BY ReturnReturns, TheDeviceIs DEF Register, At, OnOneDevice
<1>2. TypeInv'
  BY <1>1 DEF Register, At, RuntimeInv, TypeInv, Moved, Returned, Others
<1>3. CallsInv'
  BY <1>1 DEF Register, At, RuntimeInv, TypeInv, CallsInv, OnOneDevice, Moved,
              Returned, Others
<1>4. LocksInv'
  BY <1>1 DEF Register, At, RuntimeInv, TypeInv, CallsInv, LocksInv, Holding,
              OnOneDevice, Visits, Moved, Returned, Others
<1>5. OpenInv'
  BY <1>1 DEF Register, At, RuntimeInv, TypeInv, CallsInv, LocksInv, OpenInv, Holding,
              Closing, OnOneDevice, Visits, Moved, Returned, Others
<1>6. EndInv'
  BY <1>1 DEF Register, At, RuntimeInv, TypeInv, CallsInv, LocksInv, OpenInv, Moved,
              Returned, Others, EndInv, InProgress, Destroyed
<1> QED
  BY <1>2, <1>3, <1>4, <1>5, <1>6 DEF RuntimeInv

(* submit *)
LEMMA InvLockApplication ==
  ASSUME Free \notin Threads, RuntimeInv, NEW t \in Threads, LockApplication(t)
  PROVE  RuntimeInv'
<1> USE DEF runtimeKind, knownDevices, outputVars, deviceVars
<1>1. /\ call[t].todo = {TheDevice(t)} /\ TheDevice(t) \in Devices
      /\ Moved(t, "lock") \/ Returned(t)
  BY GotoMoves, ReturnReturns, TheDeviceIs DEF Steps, LockApplication, At,
     OnOneDevice
<1>2. TypeInv'
  BY <1>1 DEF LockApplication, At, RuntimeInv, TypeInv, Moved, Returned, Others
<1>3. CallsInv'
  BY <1>1 DEF LockApplication, At, RuntimeInv, TypeInv, CallsInv, OnOneDevice, Moved,
              Returned, Others
<1>4. LocksInv'
  BY <1>1 DEF LockApplication, At, RuntimeInv, TypeInv, CallsInv, LocksInv, Holding,
              OnOneDevice, Visits, Moved, Returned, Others
<1>5. OpenInv'
  BY <1>1 DEF LockApplication, At, RuntimeInv, TypeInv, CallsInv, LocksInv, OpenInv,
              Holding, Closing, OnOneDevice, Visits, Moved, Returned, Others
<1>6. EndInv'
  BY <1>1 DEF LockApplication, At, RuntimeInv, TypeInv, CallsInv, LocksInv, OpenInv,
              Moved, Returned, Others, EndInv, InProgress, Destroyed
<1> QED
  BY <1>2, <1>3, <1>4, <1>5, <1>6 DEF RuntimeInv

LEMMA InvBeginSubmit ==
  ASSUME Free \notin Threads, RuntimeInv, NEW t \in Threads, BeginSubmit(t)
  PROVE  RuntimeInv'
<1> USE DEF runtimeKind, knownDevices, outputVars, deviceVars
<1>1. /\ call[t].todo = {TheDevice(t)} /\ TheDevice(t) \in Devices
      /\ Moved(t, IF devOpen[TheDevice(t)] THEN "backend" ELSE "refused")
  BY GotoMoves, TheDeviceIs DEF Steps, BeginSubmit, At, OnOneDevice
<1>2. TypeInv'
  BY <1>1 DEF BeginSubmit, LockDevice, At, RuntimeInv, TypeInv, Moved, Returned, Others
<1>3. CallsInv'
  BY <1>1 DEF BeginSubmit, LockDevice, At, RuntimeInv, TypeInv, CallsInv, OnOneDevice,
              Moved, Returned, Others
<1>4. LocksInv'
  BY <1>1 DEF BeginSubmit, LockDevice, At, RuntimeInv, TypeInv, CallsInv, LocksInv,
              Holding, OnOneDevice, Visits, Moved, Returned, Others
<1>5. OpenInv'
  <2>1. /\ call[t].name = "submit" /\ call[t].step = "lock" /\ devLock[TheDevice(t)] = Free
        /\ devLock' = [devLock EXCEPT ![TheDevice(t)] = t]
        /\ UNCHANGED <<joins, registered, alive, devOpen, backend, outThread>>
    BY DEF BeginSubmit, LockDevice, At
  <2>2. \A u \in Threads \ {t} : call'[u] = call[u]
    BY <1>1 DEF Moved, Others
  <2>3. \A u \in Threads :
          /\ At(u, "submit", "backend")' => \A d \in call'[u].todo : devOpen[d]
          /\ call'[u].name \in {"close", "drop"} /\ call'[u].step = "closed" =>
               \A d \in call'[u].todo : ~devOpen[d]
    BY <1>1, <2>1, <2>2 DEF RuntimeInv, OpenInv, Moved, At
  <2>4. \A d \in Devices : devOpen[d] /\ backend[d] # "open" =>
          devLock'[d] # Free /\ Closing(devLock[d]) /\ devLock[d] \in Threads \ {t}
            /\ devLock'[d] = devLock[d]
    BY <1>1, <2>1 DEF RuntimeInv, TypeInv, OpenInv, Closing
  <2>5. \A d \in Devices : devOpen[d] /\ backend[d] # "open" =>
          devLock'[d] # Free /\ Closing(devLock[d])'
    BY <2>2, <2>4 DEF Closing
  <2> QED BY <2>1, <2>3, <2>5 DEF RuntimeInv, OpenInv
<1>6. EndInv'
  BY <1>1 DEF BeginSubmit, LockDevice, At, RuntimeInv, TypeInv, EndInv, InProgress,
              Destroyed, Moved, Others
<1> QED
  BY <1>2, <1>3, <1>4, <1>5, <1>6 DEF RuntimeInv

LEMMA InvEndSubmit ==
  ASSUME Free \notin Threads, RuntimeInv, NEW t \in Threads, EndSubmit(t)
  PROVE  RuntimeInv'
<1> USE DEF runtimeKind, knownDevices, outputVars, deviceVars
<1>1. call[t].todo = {TheDevice(t)} /\ TheDevice(t) \in Devices /\ Returned(t)
  BY ReturnReturns, TheDeviceIs DEF EndSubmit, OnOneDevice
<1>2. TypeInv'
  BY <1>1 DEF EndSubmit, UnlockDevice, At, RuntimeInv, TypeInv, Moved, Returned, Others
<1>3. CallsInv'
  BY <1>1 DEF EndSubmit, UnlockDevice, At, RuntimeInv, TypeInv, CallsInv, OnOneDevice,
              Moved, Returned, Others
<1>4. LocksInv'
  BY <1>1 DEF EndSubmit, UnlockDevice, At, RuntimeInv, TypeInv, CallsInv, LocksInv,
              Holding, OnOneDevice, Visits, Moved, Returned, Others
<1>5. OpenInv'
  BY <1>1 DEF EndSubmit, UnlockDevice, At, RuntimeInv, TypeInv, CallsInv, LocksInv,
              OpenInv, Holding, Closing, OnOneDevice, Visits, Moved, Returned, Others
<1>6. EndInv'
  BY <1>1 DEF EndSubmit, UnlockDevice, At, RuntimeInv, TypeInv, CallsInv, LocksInv,
              OpenInv, Moved, Returned, Others, EndInv, InProgress, Destroyed
<1> QED
  BY <1>2, <1>3, <1>4, <1>5, <1>6 DEF RuntimeInv

(* close and the destructor *)
LEMMA InvTakeOut ==
  ASSUME Free \notin Threads, RuntimeInv, NEW t \in Threads, TakeOut(t)
  PROVE  RuntimeInv'
<1> USE DEF runtimeKind, knownDevices, outputVars, deviceVars
<1>1. /\ call[t].todo = {TheDevice(t)} /\ TheDevice(t) \in Devices
      /\ Moved(t, "lock") \/ Returned(t)
  BY GotoMoves, ReturnReturns, TheDeviceIs DEF Steps, TakeOut, At, OnOneDevice
<1>2. TypeInv'
  BY <1>1 DEF TakeOut, At, RuntimeInv, TypeInv, Moved, Returned, Others
<1>3. CallsInv'
  BY <1>1 DEF TakeOut, At, RuntimeInv, TypeInv, CallsInv, OnOneDevice, Moved, Returned,
              Others
<1>4. LocksInv'
  BY <1>1 DEF TakeOut, At, RuntimeInv, TypeInv, CallsInv, LocksInv, Holding,
              OnOneDevice, Visits, Moved, Returned, Others
<1>5. OpenInv'
  BY <1>1 DEF TakeOut, At, RuntimeInv, TypeInv, CallsInv, LocksInv, OpenInv, Holding,
              Closing, OnOneDevice, Visits, Moved, Returned, Others
<1>6. EndInv'
  BY <1>1 DEF TakeOut, At, RuntimeInv, TypeInv, CallsInv, LocksInv, OpenInv, Moved,
              Returned, Others, EndInv, InProgress, Destroyed
<1> QED
  BY <1>2, <1>3, <1>4, <1>5, <1>6 DEF RuntimeInv

LEMMA InvBeginClose ==
  ASSUME Free \notin Threads, RuntimeInv, NEW t \in Threads, BeginClose(t)
  PROVE  RuntimeInv'
<1> USE DEF runtimeKind, knownDevices, outputVars, deviceVars
<1>1. /\ call[t].todo = {TheDevice(t)} /\ TheDevice(t) \in Devices
      /\ Moved(t, IF devOpen[TheDevice(t)] THEN "join" ELSE "closed")
  BY GotoMoves, TheDeviceIs DEF Steps, BeginClose, OnOneDevice
<1>2. TypeInv'
  BY <1>1 DEF BeginClose, LockDevice, BackendCloses, At, RuntimeInv, TypeInv, Moved,
              Returned, Others
<1>3. CallsInv'
  BY <1>1 DEF BeginClose, LockDevice, BackendCloses, At, RuntimeInv, TypeInv, CallsInv,
              OnOneDevice, Moved, Returned, Others
<1>4. LocksInv'
  BY <1>1 DEF BeginClose, LockDevice, BackendCloses, At, RuntimeInv, TypeInv, CallsInv,
              LocksInv, Holding, OnOneDevice, Visits, Moved, Returned, Others
<1>5. OpenInv'
  BY <1>1 DEF BeginClose, LockDevice, BackendCloses, At, RuntimeInv, TypeInv, CallsInv,
              LocksInv, OpenInv, Holding, Closing, OnOneDevice, Visits, Moved,
              Returned, Others
<1>6. EndInv'
  BY <1>1 DEF BeginClose, LockDevice, BackendCloses, At, RuntimeInv, TypeInv, CallsInv,
              LocksInv, OpenInv, Moved, Returned, Others, EndInv, InProgress, Destroyed
<1> QED
  BY <1>2, <1>3, <1>4, <1>5, <1>6 DEF RuntimeInv

LEMMA InvJoinBackend ==
  ASSUME Free \notin Threads, RuntimeInv, NEW t \in Threads, JoinBackend(t)
  PROVE  RuntimeInv'
<1> USE DEF runtimeKind, knownDevices, outputVars, deviceVars
<1>1. call[t].todo = {TheDevice(t)} /\ TheDevice(t) \in Devices /\ Moved(t, "closed")
  BY GotoMoves, TheDeviceIs DEF Steps, JoinBackend, OnOneDevice
<1>2. TypeInv'
  BY <1>1 DEF JoinBackend, ClosesDevice, BackendClosed, CloseResults, At, RuntimeInv,
              TypeInv, Moved, Returned, Others
<1>3. CallsInv'
  BY <1>1 DEF JoinBackend, ClosesDevice, BackendClosed, CloseResults, At, RuntimeInv,
              TypeInv, CallsInv, OnOneDevice, Moved, Returned, Others
<1>4. LocksInv'
  BY <1>1 DEF JoinBackend, ClosesDevice, BackendClosed, CloseResults, At, RuntimeInv,
              TypeInv, CallsInv, LocksInv, Holding, OnOneDevice, Visits, Moved,
              Returned, Others
<1>5. OpenInv'
  BY <1>1 DEF JoinBackend, ClosesDevice, BackendClosed, CloseResults, At, RuntimeInv,
              TypeInv, CallsInv, LocksInv, OpenInv, Holding, Closing, OnOneDevice,
              Visits, Moved, Returned, Others
<1>6. EndInv'
  BY <1>1 DEF JoinBackend, ClosesDevice, BackendClosed, CloseResults, At, RuntimeInv,
              TypeInv, CallsInv, LocksInv, OpenInv, Moved, Returned, Others, EndInv,
              InProgress, Destroyed
<1> QED
  BY <1>2, <1>3, <1>4, <1>5, <1>6 DEF RuntimeInv

LEMMA InvEndClose ==
  ASSUME Free \notin Threads, RuntimeInv, NEW t \in Threads, EndClose(t)
  PROVE  RuntimeInv'
<1> USE DEF runtimeKind, knownDevices, outputVars, deviceVars
<1>1. call[t].todo = {TheDevice(t)} /\ TheDevice(t) \in Devices /\ Returned(t)
  BY ReturnReturns, TheDeviceIs DEF EndClose, OnOneDevice
<1>2. TypeInv'
  BY <1>1 DEF EndClose, UnlockDevice, At, RuntimeInv, TypeInv, Moved, Returned, Others
<1>3. CallsInv'
  BY <1>1 DEF EndClose, UnlockDevice, At, RuntimeInv, TypeInv, CallsInv, OnOneDevice,
              Moved, Returned, Others
<1>4. LocksInv'
  BY <1>1 DEF EndClose, UnlockDevice, At, RuntimeInv, TypeInv, CallsInv, LocksInv,
              Holding, OnOneDevice, Visits, Moved, Returned, Others
<1>5. OpenInv'
  BY <1>1 DEF EndClose, UnlockDevice, At, RuntimeInv, TypeInv, CallsInv, LocksInv,
              OpenInv, Holding, Closing, OnOneDevice, Visits, Moved, Returned, Others
<1>6. EndInv'
  BY <1>1 DEF EndClose, UnlockDevice, At, RuntimeInv, TypeInv, CallsInv, LocksInv,
              OpenInv, Moved, Returned, Others, EndInv, InProgress, Destroyed
<1> QED
  BY <1>2, <1>3, <1>4, <1>5, <1>6 DEF RuntimeInv

(* close_all and active_device_count *)
LEMMA InvLockRuntime ==
  ASSUME Free \notin Threads, RuntimeInv, NEW t \in Threads, LockRuntime(t)
  PROVE  RuntimeInv'
<1> USE DEF runtimeKind, knownDevices, outputVars, deviceVars
<1>1. /\ Others(t)
      /\ call'[t].name = call[t].name /\ call'[t].step = "next"
      /\ call'[t].todo = registered
  BY LocksRuntime
<1>2. TypeInv'
  BY <1>1 DEF LockRuntime, OnRuntime, At, RuntimeInv, TypeInv, Moved, Returned, Others
<1>3. CallsInv'
  BY <1>1 DEF LockRuntime, OnRuntime, At, RuntimeInv, TypeInv, CallsInv, OnOneDevice,
              Moved, Returned, Others
<1>4. LocksInv'
  BY <1>1 DEF LockRuntime, OnRuntime, At, RuntimeInv, TypeInv, CallsInv, LocksInv,
              Holding, OnOneDevice, Visits, Moved, Returned, Others
<1>5. OpenInv'
  BY <1>1 DEF LockRuntime, OnRuntime, At, RuntimeInv, TypeInv, CallsInv, LocksInv,
              OpenInv, Holding, Closing, OnOneDevice, Visits, Moved, Returned, Others
<1>6. EndInv'
  BY <1>1 DEF LockRuntime, OnRuntime, At, RuntimeInv, TypeInv, CallsInv, LocksInv,
              OpenInv, Moved, Returned, Others, EndInv, InProgress, Destroyed
<1> QED
  BY <1>2, <1>3, <1>4, <1>5, <1>6 DEF RuntimeInv

LEMMA InvVisitDevice ==
  ASSUME Free \notin Threads, RuntimeInv, NEW t \in Threads, NEW d \in Devices,
         VisitDevice(t, d)
  PROVE  RuntimeInv'
<1> USE DEF runtimeKind, knownDevices, outputVars, deviceVars
<1>1. Moved(t, "visiting")
  BY GotoMoves DEF Steps, VisitDevice
<1>2. TypeInv'
  BY <1>1 DEF VisitDevice, OnRuntime, ClosesAll, LockDevice, BackendCloses, At,
              RuntimeInv, TypeInv, Moved, Returned, Others
<1>3. CallsInv'
  BY <1>1 DEF VisitDevice, OnRuntime, ClosesAll, LockDevice, BackendCloses, At,
              RuntimeInv, TypeInv, CallsInv, OnOneDevice, Moved, Returned, Others
<1>4. LocksInv'
  BY <1>1 DEF VisitDevice, OnRuntime, ClosesAll, LockDevice, BackendCloses, At,
              RuntimeInv, TypeInv, CallsInv, LocksInv, Holding, OnOneDevice, Visits,
              Moved, Returned, Others
<1>5. OpenInv'
  BY <1>1 DEF VisitDevice, OnRuntime, ClosesAll, LockDevice, BackendCloses, At,
              RuntimeInv, TypeInv, CallsInv, LocksInv, OpenInv, Holding, Closing,
              OnOneDevice, Visits, Moved, Returned, Others
<1>6. EndInv'
  BY <1>1 DEF VisitDevice, OnRuntime, ClosesAll, LockDevice, BackendCloses, At,
              RuntimeInv, TypeInv, CallsInv, LocksInv, OpenInv, Moved, Returned,
              Others, EndInv, InProgress, Destroyed
<1> QED
  BY <1>2, <1>3, <1>4, <1>5, <1>6 DEF RuntimeInv

LEMMA InvLeaveDevice ==
  ASSUME Free \notin Threads, RuntimeInv, NEW t \in Threads, NEW d \in Devices,
         LeaveDevice(t, d)
  PROVE  RuntimeInv'
<1> USE DEF runtimeKind, knownDevices, outputVars, deviceVars
<1>1. /\ Others(t)
      /\ call'[t].name = call[t].name /\ call'[t].step = "next"
      /\ call'[t].todo = call[t].todo \ {d}
  BY LeavesDevice
<1>2. /\ call[t].name \in Visits /\ call[t].step = "visiting" /\ devLock[d] = t
      /\ devLock' = [devLock EXCEPT ![d] = Free]
      /\ UNCHANGED <<runtimeKind, registered, handles, alive, outThread>>
  BY DEF LeaveDevice, UnlockDevice, RuntimeInv, LocksInv, Holding
<1>3. \/ /\ call[t].name # "count" /\ devOpen' = [devOpen EXCEPT ![d] = FALSE]
         /\ \E r \in {"closed", "left"} :
              /\ backend' = [backend EXCEPT ![d] = r]
              /\ joins => r = "closed" /\ outThread[d] = "ended"
      \/ call[t].name = "count" /\ UNCHANGED <<devOpen, backend>>
  BY <1>2, CloseLeaves DEF LeaveDevice, ClosesAll, Visits
<1>4. TypeInv'
  <2>1. devOpen' \in [Devices -> BOOLEAN]
    BY <1>3 DEF RuntimeInv, TypeInv
  <2>2. backend' \in [Devices -> {"none", "open", "closing", "closed", "left"}]
    BY <1>3 DEF RuntimeInv, TypeInv
  <2>3. devLock' \in [Devices -> Threads \cup {Free}] /\ call' \in [Threads -> CallTypes]
    BY <1>1, <1>2 DEF RuntimeInv, TypeInv, Others
  <2> QED BY <1>2, <2>1, <2>2, <2>3 DEF RuntimeInv, TypeInv
<1>5. CallsInv'
  BY <1>1, <1>2, <1>3 DEF RuntimeInv, TypeInv, CallsInv, LocksInv, Holding, Visits,
                          OnOneDevice, Others
<1>6. LocksInv'
  BY <1>1, <1>2 DEF RuntimeInv, TypeInv, CallsInv, LocksInv, Holding, OnOneDevice,
                    Visits, Others
<1>7. OpenInv'
  BY <1>1, <1>2, <1>3 DEF RuntimeInv, TypeInv, CallsInv, LocksInv, OpenInv, Holding,
                          Closing, At, OnOneDevice, Visits, Others
<1>8. EndInv'
  BY <1>1, <1>2, <1>3 DEF RuntimeInv, TypeInv, EndInv, InProgress, Destroyed, At,
                          Visits, Others
<1> QED
  BY <1>4, <1>5, <1>6, <1>7, <1>8 DEF RuntimeInv

LEMMA InvUnlockRuntime ==
  ASSUME Free \notin Threads, RuntimeInv, NEW t \in Threads, UnlockRuntime(t)
  PROVE  RuntimeInv'
<1> USE DEF runtimeKind, knownDevices, outputVars, deviceVars, UnlockRuntime, OnRuntime, At
<1>1. IF call[t].name = "destroy" THEN Moved(t, "stop") ELSE Returned(t)
  BY GotoMoves, ReturnReturns DEF Steps
<1>2. TypeInv'
  BY <1>1 DEF RuntimeInv, TypeInv, Moved, Returned, Others
<1>3. CallsInv'
  BY <1>1 DEF RuntimeInv, TypeInv, CallsInv, OnOneDevice, Moved, Returned, Others
<1>4. LocksInv'
  BY <1>1 DEF RuntimeInv, TypeInv, CallsInv, LocksInv, Holding, OnOneDevice, Visits,
              Moved, Returned, Others
<1>5. OpenInv'
  BY <1>1 DEF RuntimeInv, TypeInv, CallsInv, LocksInv, OpenInv, Holding, Closing,
              OnOneDevice, Visits, Moved, Returned, Others
<1>6. EndInv'
  BY <1>1 DEF RuntimeInv, TypeInv, OpenInv, EndInv, InProgress, Destroyed, Moved,
              Returned, Others
<1> QED
  BY <1>2, <1>3, <1>4, <1>5, <1>6 DEF RuntimeInv

LEMMA InvStopBackend ==
  ASSUME Free \notin Threads, RuntimeInv, NEW t \in Threads, StopBackend(t)
  PROVE  RuntimeInv'
<1> USE DEF runtimeKind, knownDevices, outputVars, deviceVars, StopBackend, At
<1>1. Returned(t)
  BY ReturnReturns
<1>2. TypeInv'
  BY <1>1 DEF RuntimeInv, TypeInv, Moved, Returned, Others
<1>3. CallsInv'
  BY <1>1 DEF RuntimeInv, TypeInv, CallsInv, OnOneDevice, Moved, Returned, Others
<1>4. LocksInv'
  BY <1>1 DEF RuntimeInv, TypeInv, CallsInv, LocksInv, Holding, OnOneDevice, Visits,
              Moved, Returned, Others
<1>5. OpenInv'
  BY <1>1 DEF RuntimeInv, TypeInv, CallsInv, LocksInv, OpenInv, Holding, Closing,
              OnOneDevice, Visits, Moved, Returned, Others
<1>6. EndInv'
  BY <1>1 DEF RuntimeInv, TypeInv, OpenInv, EndInv, InProgress, Destroyed, Moved,
              Returned, Others
<1> QED
  BY <1>2, <1>3, <1>4, <1>5, <1>6 DEF RuntimeInv

(* A new call *)
LEMMA InvBegin ==
  ASSUME Free \notin Threads, RuntimeInv, NEW t \in Threads,
         NEW name \in Names, NEW step \in Steps, NEW devices \in SUBSET Devices,
         Begin(t, name, step, devices),
         name \in OnOneDevice => \E d \in Devices : devices = {d},
         name # "create" => devices \subseteq registered,
         step \notin {"backend", "refused", "join", "closed", "visiting", "register"}
           \/ name = "create",
         step # "stop", name = "create" => RuntimeThere,
         name = "destroy" => step = "runtime" /\ ~InProgress({"create"}),
         name = "create" => step = "backend" /\ \A d \in devices :
           /\ backend[d] = "none" /\ d \notin registered
           /\ \A u \in Threads : d \notin call[u].todo
  PROVE  RuntimeInv'
<1> USE DEF runtimeKind, knownDevices, outputVars, deviceVars
<1>1. /\ Others(t) /\ call[t].name = "idle"
      /\ call'[t].name = name /\ call'[t].step = step /\ call'[t].todo = devices
  BY DEF Begin, RuntimeInv, TypeInv, CallTypes, Others, Idle
<1>2. TypeInv'
  BY <1>1 DEF Begin, RuntimeInv, TypeInv, Others
<1>3. CallsInv'
  BY <1>1 DEF Begin, RuntimeInv, TypeInv, CallsInv, OnOneDevice, Others
<1>4. LocksInv'
  BY <1>1 DEF Begin, RuntimeInv, TypeInv, CallsInv, LocksInv, Holding, OnOneDevice,
              Visits, Others
<1>5. OpenInv'
  BY <1>1 DEF Begin, RuntimeInv, TypeInv, CallsInv, LocksInv, OpenInv, Holding,
              Closing, At, OnOneDevice, Visits, Others
<1>6. EndInv'
  BY <1>1 DEF Begin, RuntimeInv, TypeInv, EndInv, RuntimeThere, InProgress, Destroyed,
              At, Others
<1> QED
  BY <1>2, <1>3, <1>4, <1>5, <1>6 DEF RuntimeInv

(* The output thread: outThread is "ended" for good *)
LEMMA InvOutput ==
  ASSUME RuntimeInv, NEW d \in Devices, OutputArrives(d) \/ OutputStep(d)
  PROVE  RuntimeInv'
<1>1. /\ OutputUnchanged
      /\ \E s \in {"callback", "recording", "idle", "ended"} :
           outThread' = [outThread EXCEPT ![d] = s]
      /\ outThread[d] # "ended"
  BY DEF OutputArrives, OutputStep, CallbackRecords, CallbackReturns,
         OutputThreadEnds
<1>2. /\ outThread' \in [Devices -> {"none", "idle", "callback", "recording", "ended"}]
      /\ \A e \in Devices :
           /\ outThread[e] = "ended" => outThread'[e] = "ended"
           /\ outThread[e] # "none" => outThread'[e] # "none"
  BY <1>1 DEF RuntimeInv, TypeInv
<1> USE DEF OutputUnchanged, runtimeKind, knownDevices, RuntimeInv, TypeInv
<1>3. TypeInv' /\ LocksInv'
  BY <1>1, <1>2 DEF LocksInv, Holding
<1>4. CallsInv'
  BY <1>1, <1>2 DEF CallsInv
<1>5. OpenInv'
  BY <1>1, <1>2 DEF OpenInv, Closing, At
<1>6. EndInv'
  BY <1>1, <1>2 DEF EndInv, InProgress, Destroyed, At
<1> QED
  BY <1>3, <1>4, <1>5, <1>6

LEMMA InvBeginCall ==
  ASSUME Free \notin Threads, RuntimeInv, NEW t \in Threads, BeginCall(t)
  PROVE  RuntimeInv'
<1> USE DEF Names, Steps, OnOneDevice
<1>1. ASSUME NEW d \in Devices, BeginCreate(t, d)
      PROVE  RuntimeInv'
  <2>1. \A u \in Threads : d \notin call[u].todo
    BY <1>1 DEF BeginCreate
  <2>2. Begin(t, "create", "backend", {d}) /\ backend[d] = "none" /\ RuntimeThere
    BY <1>1 DEF BeginCreate
  <2>3. devLock[d] = Free
    BY <2>1 DEF RuntimeInv, TypeInv, LocksInv
  <2>4. d \notin registered
    BY <2>2, <2>3 DEF RuntimeInv, OpenInv
  <2> QED
    BY <2>1, <2>2, <2>4, InvBegin
<1>2. ASSUME NEW d \in handles, BeginOnHandle(t, d)
      PROVE  RuntimeInv'
  <2>1. d \in registered /\ d \in Devices
    BY DEF RuntimeInv, TypeInv
  <2>2. PICK name \in {"submit", "close", "drop"}, step \in {"mutex", "lock", "take"} :
          Begin(t, name, step, {d})
    BY <1>2 DEF BeginOnHandle
  <2> QED
    BY <2>1, <2>2, InvBegin
<1>3. ASSUME BeginOnRuntime(t)
      PROVE  RuntimeInv'
  <2>1. PICK name \in {"close_all", "count", "destroy"} :
          /\ Begin(t, name, "runtime", {})
          /\ name = "destroy" => ~InProgress({"create"})
    BY <1>3 DEF BeginOnRuntime, InProgress
  <2> QED
    BY <2>1, InvBegin
<1> QED
  BY <1>1, <1>2, <1>3 DEF BeginCall

-----------------------------------------------------------------------------
LEMMA InvInit == RuntimeInit /\ Free \notin Threads => RuntimeInv
<1> SUFFICES ASSUME RuntimeInit, Free \notin Threads
             PROVE  RuntimeInv
  OBVIOUS
<1> USE DEF RuntimeInit, Idle
<1>1. TypeInv
  BY DEF TypeInv, CallTypes, Names, Steps
<1>2. CallsInv
  BY DEF CallsInv, OnOneDevice
<1>3. LocksInv
  BY DEF LocksInv, Holding, Visits
<1>4. OpenInv
  BY DEF OpenInv, At
<1>5. EndInv
  BY DEF EndInv, InProgress, Destroyed, At
<1> QED
  BY <1>1, <1>2, <1>3, <1>4, <1>5 DEF RuntimeInv

LEMMA InvStep == Free \notin Threads /\ RuntimeInv /\ [RuntimeNext]_rtVars => RuntimeInv'
<1> SUFFICES ASSUME Free \notin Threads, RuntimeInv, [RuntimeNext]_rtVars
             PROVE  RuntimeInv'
  OBVIOUS
<1>1. CASE UNCHANGED rtVars
  BY <1>1 DEF rtVars, RuntimeInv, TypeInv, CallsInv, LocksInv, OpenInv, Holding,
              Closing, EndInv, InProgress, Destroyed, At
<1>2. ASSUME NEW t \in Threads, BeginCall(t)
      PROVE  RuntimeInv'
  BY <1>2, InvBeginCall
<1>3. ASSUME NEW t \in Threads, CallStep(t)
      PROVE  RuntimeInv'
  BY <1>3, InvCreateBackend, InvRegister, InvLockApplication, InvBeginSubmit,
     InvEndSubmit, InvTakeOut, InvBeginClose, InvJoinBackend, InvEndClose,
     InvLockRuntime, InvVisitDevice, InvLeaveDevice, InvUnlockRuntime, InvStopBackend
     DEF CallStep
<1>4. ASSUME NEW d \in Devices, OutputArrives(d) \/ OutputStep(d)
      PROVE  RuntimeInv'
  BY <1>4, InvOutput
<1> QED
  BY <1>1, <1>2, <1>3, <1>4 DEF RuntimeNext

(* A submission holds the device's lock, so that nobody is closing it *)
LEMMA InvMeans == RuntimeInv => NoUseAfterClose
<1> SUFFICES ASSUME RuntimeInv
             PROVE  NoUseAfterClose
  OBVIOUS
<1>1. ASSUME NEW t \in Threads, At(t, "submit", "backend")
      PROVE  backend[TheDevice(t)] = "open"
  <2>1. TheDevice(t) \in call[t].todo /\ TheDevice(t) \in Devices
    BY <1>1, TheDeviceIs DEF At, OnOneDevice
  <2>2. devLock[TheDevice(t)] = t /\ devOpen[TheDevice(t)]
    BY <1>1, <2>1 DEF RuntimeInv, LocksInv, OpenInv, At, Holding, OnOneDevice
  <2>3. ~Closing(t)
    BY <1>1 DEF Closing, At
  <2> QED
    BY <2>1, <2>2, <2>3 DEF RuntimeInv, OpenInv
<1>2. ASSUME NEW d \in Devices
      PROVE  /\ joins /\ backend[d] = "closed" => outThread[d] = "ended"
             /\ devLock[d] = Free /\ devOpen[d] => backend[d] = "open"
             /\ d \in registered \ alive => backend[d] \in {"closed", "left"}
             /\ d \in registered /\ Destroyed =>
                  outThread[d] = "ended" /\ backend[d] \in {"closed", "left"}
  BY FreeIsNoThread DEF RuntimeInv, OpenInv, EndInv, Destroyed
<1> QED
  BY <1>1, <1>2 DEF NoUseAfterClose

(* NoUseAfterClose for every number of threads, devices, calls and outputs:  *)
(* no submission reaches a device that close, close_all or a destructor has  *)
(* closed or is closing, the last handle leaves a closed device, and no      *)
(* callback runs after a close that joins, nor after the runtime's           *)
(* destructor if none does.                                                  *)
THEOREM ClosedStaysUnused == RuntimeSpec => []NoUseAfterClose
<1>1. RuntimeInit => RuntimeInv
  BY FreeIsNoThread, InvInit
<1>2. RuntimeInv /\ [RuntimeNext]_rtVars => RuntimeInv'
  BY FreeIsNoThread, InvStep
<1> QED
  BY <1>1, <1>2, InvMeans, PTL DEF RuntimeSpec

-----------------------------------------------------------------------------
(* The types.  A handle is of a device that exists, because a destructor     *)
(* ends a device only after it has taken the handle out.                     *)
HandlesInv ==
  /\ rtLock \in Threads \cup {Free}
  /\ appLock \in Threads \cup Devices \cup {Free}
  /\ handles \subseteq alive
  /\ \A t \in Threads :
       call[t].name = "drop" /\ call[t].step # "take" => call[t].todo \cap handles = {}

RuntimeTyped == RuntimeInv /\ HandlesInv

LEMMA HandlesBeginCall ==
  ASSUME RuntimeTyped, NEW t \in Threads, BeginCall(t)
  PROVE  HandlesInv'
<1>1. PICK name \in Names, step \in Steps, devices \in SUBSET Devices :
        Begin(t, name, step, devices) /\ (name = "drop" => step = "take")
  <2> USE DEF Names, Steps
  <2>1. ASSUME NEW d \in Devices, BeginCreate(t, d)
        PROVE  Begin(t, "create", "backend", {d})
    BY <2>1 DEF BeginCreate
  <2>2. ASSUME NEW d \in handles, BeginOnHandle(t, d)
        PROVE  /\ d \in Devices
               /\ \E name \in {"submit", "close", "drop"}, step \in {"mutex", "lock", "take"} :
                    Begin(t, name, step, {d}) /\ (name = "drop" => step = "take")
    BY <2>2 DEF BeginOnHandle, RuntimeTyped, RuntimeInv, TypeInv
  <2>3. ASSUME BeginOnRuntime(t)
        PROVE  \E name \in {"close_all", "count", "destroy"} : Begin(t, name, "runtime", {})
    BY <2>3 DEF BeginOnRuntime
  <2>4. ASSUME NEW d \in Devices, BeginCreate(t, d)
        PROVE  \E name \in Names, step \in Steps, devices \in SUBSET Devices :
                 Begin(t, name, step, devices) /\ (name = "drop" => step = "take")
    <3>1. "create" \in Names /\ "backend" \in Steps /\ {d} \in SUBSET Devices
      OBVIOUS
    <3>2. Begin(t, "create", "backend", {d})
      BY <2>1, <2>4
    <3> QED BY <3>1, <3>2
  <2>5. ASSUME NEW d \in handles, BeginOnHandle(t, d)
        PROVE  \E name \in Names, step \in Steps, devices \in SUBSET Devices :
                 Begin(t, name, step, devices) /\ (name = "drop" => step = "take")
    <3>1. {d} \in SUBSET Devices
      BY <2>2, <2>5
    <3>2. PICK name \in {"submit", "close", "drop"}, step \in {"mutex", "lock", "take"} :
            Begin(t, name, step, {d}) /\ (name = "drop" => step = "take")
      BY <2>2, <2>5
    <3>3. name \in Names /\ step \in Steps
      OBVIOUS
    <3> QED BY <3>1, <3>2, <3>3
  <2>6. ASSUME BeginOnRuntime(t)
        PROVE  \E name \in Names, step \in Steps, devices \in SUBSET Devices :
                 Begin(t, name, step, devices) /\ (name = "drop" => step = "take")
    <3>1. PICK name \in {"close_all", "count", "destroy"} : Begin(t, name, "runtime", {})
      BY <2>3, <2>6
    <3>2. name \in Names /\ "runtime" \in Steps /\ {} \in SUBSET Devices /\ name # "drop"
      OBVIOUS
    <3> QED BY <3>1, <3>2
  <2> QED
    BY <2>4, <2>5, <2>6 DEF BeginCall
<1>2. /\ call \in [Threads -> CallTypes]
      /\ call' = [call EXCEPT ![t] = [name |-> name, step |-> step, todo |-> devices]]
      /\ UNCHANGED <<rtLock, appLock, handles, alive>>
  BY <1>1 DEF Begin, knownDevices, RuntimeTyped, RuntimeInv, TypeInv
<1> QED BY <1>1, <1>2 DEF RuntimeTyped, HandlesInv

LEMMA HandlesCallStep ==
  ASSUME RuntimeTyped, NEW t \in Threads, CallStep(t)
  PROVE  HandlesInv'
<1> USE DEF RuntimeTyped, HandlesInv, runtimeKind, knownDevices, outputVars, deviceVars
<1>0. ASSUME Others(t), handles' \subseteq handles, alive' = alive,
             rtLock' \in Threads \cup {Free}, appLock' \in Threads \cup Devices \cup {Free},
             call'[t].name = "drop" /\ call'[t].step # "take" =>
               call'[t].todo \cap handles' = {}
      PROVE  HandlesInv'
  BY <1>0 DEF Others
<1>1. CASE CreateBackend(t)
  <2>1. /\ Goto(t, "register") => Moved(t, "register")
        /\ Return(t) => Returned(t)
    BY GotoMoves, ReturnReturns DEF Steps
  <2> QED BY <1>0, <1>1, <2>1 DEF CreateBackend, At, Moved, Returned
<1>2. CASE Register(t)
  <2>1. Returned(t)
    BY <1>2, ReturnReturns DEF Register
  <2>2. \A u \in Threads \ {t} : call[u].todo \cap call[t].todo = {}
    BY <1>2 DEF Register, At, RuntimeInv, CallsInv
  <2> QED BY <1>2, <2>1, <2>2 DEF Register, Returned, Others
<1>3. CASE LockApplication(t)
  <2>1. /\ Goto(t, "lock") => Moved(t, "lock")
        /\ Return(t) => Returned(t)
    BY GotoMoves, ReturnReturns DEF Steps
  <2> QED BY <1>0, <1>3, <2>1 DEF LockApplication, At, Moved, Returned
<1>4. CASE BeginSubmit(t)
  <2>1. \E s \in Steps : Moved(t, s)
    BY <1>4, GotoMoves DEF Steps, BeginSubmit
  <2> QED BY <1>0, <1>4, <2>1 DEF BeginSubmit, At, Moved
<1>5. CASE EndSubmit(t)
  <2>1. Returned(t)
    BY <1>5, ReturnReturns DEF EndSubmit
  <2> QED BY <1>0, <1>5, <2>1 DEF EndSubmit, Returned
<1>6. CASE TakeOut(t)
  <2>1. /\ Goto(t, "lock") => Moved(t, "lock")
        /\ Return(t) => Returned(t)
    BY GotoMoves, ReturnReturns DEF Steps
  <2> QED BY <1>0, <1>6, <2>1 DEF TakeOut, At, Moved, Returned
<1>7. CASE BeginClose(t)
  <2>1. \E s \in Steps : Moved(t, s)
    BY <1>7, GotoMoves DEF Steps, BeginClose
  <2> QED BY <1>0, <1>7, <2>1 DEF BeginClose, Moved
<1>8. CASE JoinBackend(t)
  <2>1. Moved(t, "closed")
    BY <1>8, GotoMoves DEF Steps, JoinBackend
  <2> QED BY <1>0, <1>8, <2>1 DEF JoinBackend, Moved
<1>9. CASE EndClose(t)
  <2>1. Returned(t)
    BY <1>9, ReturnReturns DEF EndClose
  <2>2. call[t].name = "drop" => call[t].todo \cap handles = {}
    BY <1>9 DEF EndClose
  <2> QED BY <1>9, <2>1, <2>2 DEF EndClose, Returned, Others
<1>10. CASE LockRuntime(t)
  <2>1. Others(t) /\ call'[t].name = call[t].name
    BY <1>10, LocksRuntime
  <2> QED BY <1>0, <1>10, <2>1 DEF LockRuntime, OnRuntime, Take
<1>11. CASE UnlockRuntime(t)
  <2>1. IF call[t].name = "destroy" THEN Moved(t, "stop") ELSE Returned(t)
    BY <1>11, GotoMoves, ReturnReturns DEF Steps, UnlockRuntime
  <2> QED BY <1>0, <1>11, <2>1 DEF UnlockRuntime, Moved, Returned
<1>12. ASSUME NEW d \in Devices, VisitDevice(t, d) PROVE HandlesInv'
  <2>1. Moved(t, "visiting")
    BY <1>12, GotoMoves DEF Steps, VisitDevice
  <2> QED BY <1>0, <1>12, <2>1 DEF VisitDevice, OnRuntime, ClosesAll, Moved
<1>13. ASSUME NEW d \in Devices, LeaveDevice(t, d) PROVE HandlesInv'
  <2>1. Others(t) /\ call'[t].name = call[t].name
    BY <1>13, LeavesDevice
  <2>2. call[t].name # "drop"
    BY <1>13 DEF LeaveDevice, OnRuntime, ClosesAll, LocksInv, RuntimeInv, Holding,
                 Visits
  <2> QED BY <1>0, <1>13, <2>1, <2>2 DEF LeaveDevice
<1>14. CASE StopBackend(t)
  <2>1. Returned(t)
    BY <1>14, ReturnReturns DEF StopBackend
  <2> QED BY <1>0, <1>14, <2>1 DEF StopBackend, Returned
<1> QED
  BY <1>1, <1>2, <1>3, <1>4, <1>5, <1>6, <1>7, <1>8, <1>9, <1>10, <1>11, <1>12, <1>13,
     <1>14 DEF CallStep

LEMMA HandlesOutput ==
  ASSUME RuntimeTyped, NEW d \in Devices, OutputArrives(d) \/ OutputStep(d)
  PROVE  HandlesInv'
<1>1. appLock' \in Threads \cup Devices \cup {Free}
  BY DEF RuntimeTyped, HandlesInv, OutputArrives, OutputStep, CallbackRecords,
         CallbackReturns, OutputThreadEnds, Take
<1>2. UNCHANGED <<rtLock, handles, alive, call>>
  BY DEF OutputArrives, OutputStep, CallbackRecords, CallbackReturns,
         OutputThreadEnds, OutputUnchanged, knownDevices
<1> QED BY <1>1, <1>2 DEF RuntimeTyped, HandlesInv

LEMMA RuntimeTypedInit == RuntimeInit => RuntimeTyped
BY FreeIsNoThread, InvInit DEF RuntimeInit, Idle, RuntimeTyped, HandlesInv

LEMMA RuntimeTypedStep == RuntimeTyped /\ [RuntimeNext]_rtVars => RuntimeTyped'
<1> SUFFICES ASSUME RuntimeTyped, [RuntimeNext]_rtVars
             PROVE  RuntimeInv' /\ HandlesInv'
  BY DEF RuntimeTyped
<1>1. RuntimeInv'
  BY FreeIsNoThread, InvStep DEF RuntimeTyped
<1>2. ASSUME UNCHANGED rtVars PROVE HandlesInv'
  BY <1>2 DEF rtVars, knownDevices, RuntimeTyped, HandlesInv
<1>3. ASSUME RuntimeNext PROVE HandlesInv'
  BY <1>3, HandlesBeginCall, HandlesCallStep, HandlesOutput DEF RuntimeNext
<1> QED BY <1>1, <1>2, <1>3

LEMMA RuntimeTypedMeans == RuntimeTyped => RuntimeTypeOK
BY DEF RuntimeTyped, HandlesInv, RuntimeInv, TypeInv, RuntimeTypeOK

(* RuntimeTypeOK for every number of threads, devices, calls and outputs: in *)
(* particular a handle the application may call is of an existing device,    *)
(* although handles are dropped while other threads use the runtime.         *)
THEOREM RuntimeTypeCorrect == RuntimeSpec => []RuntimeTypeOK
BY RuntimeTypedInit, RuntimeTypedStep, RuntimeTypedMeans, PTL DEF RuntimeSpec
=============================================================================
