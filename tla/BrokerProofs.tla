---------------------------- MODULE BrokerProofs ----------------------------
(***************************************************************************)
(* Proofs about the broker for every number of clients, gamepads, driver   *)
(* restarts and every choice of intervals: first about its license, then   *)
(* about its device ledger (the cap on gamepads that were authorized       *)
(* without an online confirmation, the agreement of the ledger with the    *)
(* gamepads that exist in the driver, and what an outage leaves).          *)
(***************************************************************************)
EXTENDS Broker, WellFoundedInduction, TLAPS

USE DEF DeviceIds, Threads, NoTime, pipeVars, licenseVars, deviceVars,
        windowVars, driverVars, SubscriptionMaxAge

-----------------------------------------------------------------------------
(* Helpers *)

LEMMA OlderType ==
  ASSUME NEW limit \in Nat, NEW age \in 0..limit \cup {NoTime}
  PROVE  Older(age, limit) \in 0..limit \cup {NoTime}
BY DEF Older

LEMMA AgedType ==
  ASSUME NEW l \in LicenseStates
  PROVE  Aged(l) \in LicenseStates /\ Aged(l).plan = l.plan
BY TimesAssumption DEF Aged, Older, LicenseStates

LEMMA WithoutType ==
  ASSUME NEW S, NEW D, NEW f, DOMAIN f \subseteq D, f \in [DOMAIN f -> S], NEW d
  PROVE  /\ DOMAIN Without(f, d) \subseteq D
         /\ Without(f, d) \in [DOMAIN Without(f, d) -> S]
BY DEF Without

LEMMA WithoutRest ==
  ASSUME NEW f, NEW d
  PROVE  /\ DOMAIN Without(f, d) = DOMAIN f \ {d}
         /\ \A x \in DOMAIN f \ {d} : Without(f, d)[x] = f[x]
BY DEF Without

LEMMA EmplaceType ==
  ASSUME NEW S, NEW D, NEW f, DOMAIN f \subseteq D, f \in [DOMAIN f -> S],
         NEW d \in D, NEW r \in S
  PROVE  /\ DOMAIN Emplace(f, d, r) \subseteq D
         /\ Emplace(f, d, r) \in [DOMAIN Emplace(f, d, r) -> S]
BY DEF Emplace

LEMMA EmplaceRest ==
  ASSUME NEW f, NEW d, NEW r
  PROVE  /\ DOMAIN Emplace(f, d, r) = DOMAIN f \cup {d}
         /\ \A x \in DOMAIN f : Emplace(f, d, r)[x] = f[x]
         /\ d \notin DOMAIN f => Emplace(f, d, r)[d] = r
BY DEF Emplace

LEMMA NoLicenseType == NoLicense \in LicenseStates
BY TimesAssumption DEF NoLicense, LicenseStates

LEMMA NoRequestType == NoRequest \in Requests
BY BoundsAssumption DEF NoRequest, Requests

LEMMA IdleType == Idle \in Operations
BY DEF Idle, Operations

LEMMA NothingType ==
  ASSUME NEW S
  PROVE  LET f == [d \in {} |-> NoRequest]
         IN  DOMAIN f = {} /\ f \in [DOMAIN f -> S]
OBVIOUS

-----------------------------------------------------------------------------
(* Type correctness.  TypeOK alone is not inductive: the ledger's records   *)
(* are made from the request being served, so the request must name a       *)
(* client, and a device once the driver has made one.                       *)

ServedRequest ==
  /\ pipe \in {"authorize", "create", "record"} => request.owner \in Clients
  /\ pipe = "record" => request.id \in DeviceIds

TypeInv == TypeOK /\ ServedRequest

LEMMA TypeInit == Init => TypeInv
<1> SUFFICES ASSUME Init PROVE TypeInv
  OBVIOUS
<1>1. /\ outage \in 0..OutageRetention \cup {NoTime}
      /\ next \in 0..ValidationInterval \cup {NoTime}
      /\ window \in 0..EvaluationWindow \cup {NoTime}
      /\ windowFile \in 0..EvaluationWindow \cup {NoTime}
      /\ nextId \in 1..(MaxDevices + 1)
      /\ epoch \in 0..MaxDriverRestarts
  BY TimesAssumption, BoundsAssumption DEF Init
<1>2. op \in [Threads -> Operations]
  BY IdleType DEF Init
<1>3. /\ DOMAIN ledger \subseteq DeviceIds
      /\ ledger \in [DOMAIN ledger -> DeviceRecords]
      /\ DOMAIN driver \subseteq DeviceIds
      /\ driver \in [DOMAIN driver -> Gamepads]
  BY NothingType DEF Init
<1> QED
  BY <1>1, <1>2, <1>3, NoLicenseType, NoRequestType
     DEF Init, TypeInv, TypeOK, ServedRequest

LEMMA TypeStutter == TypeInv /\ UNCHANGED vars => TypeInv'
BY DEF vars, TypeInv, TypeOK, ServedRequest

LEMMA EndRequestType ==
  EndRequest => /\ pipe' = "sweep" /\ after' = "wait" /\ doomed' = {}
                /\ request' \in Requests
BY NoRequestType DEF EndRequest

LEMMA TypeSweep == ASSUME TypeInv, Sweep PROVE TypeInv'
<1> USE DEF TypeInv, TypeOK, ServedRequest
<1>1. CASE SweepReconciles
  BY <1>1, NothingType DEF SweepReconciles, ResetSucceeds
<1>2. CASE SweepFailsToReconcile
  BY <1>2 DEF SweepFailsToReconcile, ChannelCallFails
<1>3. CASE SweepDecides
  BY <1>3 DEF SweepDecides
<1>4. ASSUME NEW d \in DeviceIds, SweepDestroys(d) PROVE TypeInv'
  <2>1. /\ DOMAIN ledger' \subseteq DeviceIds
        /\ ledger' \in [DOMAIN ledger' -> DeviceRecords]
    BY <1>4, WithoutType DEF SweepDestroys
  <2>2. /\ DOMAIN driver' \subseteq DeviceIds
        /\ driver' \in [DOMAIN driver' -> Gamepads]
    BY <1>4, WithoutType DEF SweepDestroys, DriverDestroys
  <2> QED
    BY <1>4, <2>1, <2>2 DEF SweepDestroys, NextDoomed, DriverDestroys
<1>5. ASSUME NEW d \in DeviceIds, SweepFailsToDestroy(d) PROVE TypeInv'
  BY <1>5 DEF SweepFailsToDestroy, NextDoomed, ChannelCallFails
<1>6. CASE SweepSettles
  BY <1>6 DEF SweepSettles
<1> QED
  BY <1>1, <1>2, <1>3, <1>4, <1>5, <1>6 DEF Sweep

LEMMA TypeServe == ASSUME TypeInv, Serve PROVE TypeInv'
<1> USE DEF TypeInv, TypeOK, ServedRequest
<1>1. CASE WaitForPipeClient
  BY <1>1 DEF WaitForPipeClient
<1>2. CASE Respond
  BY <1>2, EndRequestType, NothingType
     DEF Respond, ResetSucceeds, ChannelCallFails
<1>3. ASSUME NEW c \in Clients, AcceptCreate(c) PROVE TypeInv'
  <2>1. request' \in Requests /\ request'.owner = c
    <3>1. request' = [owner |-> c, token |-> epoch, evaluation |-> FALSE,
                      confirmed |-> FALSE, id |-> 0]
      BY <1>3 DEF AcceptCreate, NoRequest
    <3>2. epoch \in Nat /\ 0 \in 0..MaxDevices
      BY BoundsAssumption
    <3> QED
      BY <3>1, <3>2 DEF Requests
  <2>2. CASE reconciled
    BY <1>3, <2>1, <2>2 DEF AcceptCreate
  <2>3. CASE ~reconciled
    BY <1>3, <2>1, <2>3, NothingType DEF AcceptCreate, ResetSucceeds
  <2> QED
    BY <2>2, <2>3
<1>4. CASE AuthorizeLicensed
  BY <1>4, EndRequestType DEF AuthorizeLicensed, Requests
<1>5. CASE AuthorizeEvaluation
  <2>1. /\ window' \in 0..EvaluationWindow \cup {NoTime}
        /\ windowFile' \in 0..EvaluationWindow \cup {NoTime}
    BY <1>5, TimesAssumption DEF AuthorizeEvaluation
  <2>2. CASE WindowActive(window')
    <3>1. request' \in Requests /\ request'.owner = request.owner
      BY <1>5, <2>2 DEF AuthorizeEvaluation, Requests
    <3> QED
      BY <1>5, <2>1, <2>2, <3>1 DEF AuthorizeEvaluation
  <2>3. CASE ~WindowActive(window')
    BY <1>5, <2>1, <2>3, EndRequestType DEF AuthorizeEvaluation
  <2> QED
    BY <2>2, <2>3
<1>6. CASE EvaluationNotSaved
  BY <1>6, EndRequestType, TimesAssumption DEF EvaluationNotSaved
<1>7. CASE LicenseRequired
  BY <1>7, EndRequestType DEF LicenseRequired
<1>8. CASE DriverCreates
  <2>1. nextId \in DeviceIds /\ nextId' \in 1..(MaxDevices + 1)
    BY <1>8, BoundsAssumption DEF DriverCreates
  <2>2. [owner |-> request.owner, token |-> epoch] \in Gamepads
    BY <1>8, BoundsAssumption DEF DriverCreates, Gamepads
  <2>3. /\ DOMAIN driver' \subseteq DeviceIds
        /\ driver' \in [DOMAIN driver' -> Gamepads]
    BY <1>8, <2>1, <2>2 DEF DriverCreates
  <2>4. request' \in Requests /\ request'.id = nextId /\ request'.owner = request.owner
    BY <1>8, <2>1 DEF DriverCreates, Requests
  <2> QED
    BY <1>8, <2>1, <2>3, <2>4 DEF DriverCreates
<1>9. CASE DriverFailsToCreate
  BY <1>9, EndRequestType, BoundsAssumption DEF DriverFailsToCreate
<1>10. CASE RecordDevice
  <2>1. [owner |-> request.owner, token |-> request.token,
         evaluation |-> request.evaluation,
         confirmed |-> request.confirmed] \in DeviceRecords
    BY <1>10 DEF RecordDevice, Requests, DeviceRecords
  <2>2. /\ DOMAIN ledger' \subseteq DeviceIds
        /\ ledger' \in [DOMAIN ledger' -> DeviceRecords]
    <3> DEFINE r == [owner |-> request.owner, token |-> request.token,
                     evaluation |-> request.evaluation,
                     confirmed |-> request.confirmed]
    <3>1. request.id \in DeviceIds /\ ledger' = Emplace(ledger, request.id, r)
      BY <1>10 DEF RecordDevice
    <3>2. r \in DeviceRecords
      BY <2>1
    <3>3. DOMAIN ledger \subseteq DeviceIds /\ ledger \in [DOMAIN ledger -> DeviceRecords]
      OBVIOUS
    <3> HIDE DEF r, TypeInv, TypeOK, ServedRequest
    <3> QED
      BY <3>1, <3>2, <3>3, EmplaceType
  <2> QED
    BY <1>10, <2>2, EndRequestType DEF RecordDevice
<1>11. ASSUME NEW d \in DeviceIds, DestroyRequest(d) PROVE TypeInv'
  <2>1. /\ DOMAIN ledger' \subseteq DeviceIds
        /\ ledger' \in [DOMAIN ledger' -> DeviceRecords]
    BY <1>11, WithoutType DEF DestroyRequest
  <2>2. /\ DOMAIN driver' \subseteq DeviceIds
        /\ driver' \in [DOMAIN driver' -> Gamepads]
    BY <1>11, WithoutType DEF DestroyRequest, DriverDestroys
  <2> QED
    BY <1>11, <2>1, <2>2, EndRequestType DEF DestroyRequest, DriverDestroys
<1>12. ASSUME NEW kind \in LicenseRequests, LicenseRequest(kind) PROVE TypeInv'
  <2>1. op' \in [Threads -> Operations]
    BY <1>12, BoundsAssumption DEF LicenseRequest, Operations
  <2> QED
    BY <1>12, <2>1 DEF LicenseRequest
<1> QED
  BY <1>1, <1>2, <1>3, <1>4, <1>5, <1>6, <1>7, <1>8, <1>9, <1>10, <1>11, <1>12
     DEF Serve

LEMMA GotoType ==
  ASSUME TypeInv, NEW t \in Threads,
         NEW step \in {"idle", "lock", "http", "delete", "forget", "commit",
                       "schedule"},
         Goto(t, step)
  PROVE  op' \in [Threads -> Operations]
BY DEF TypeInv, TypeOK, Goto, Operations

\* What the two ways out of an operation leave behind.
Returned ==
  /\ op' \in [Threads -> Operations]
  /\ pipe' \in {"down", "wait", "sweep", "destroy", "read", "authorize",
                "create", "record", "license"}
  /\ after' \in {"wait", "read"}
  /\ doomed' \subseteq DeviceIds
  /\ request' \in Requests
  /\ ServedRequest'

LEMMA ReturnStatusType ==
  ASSUME TypeInv, NEW t \in Threads, NEW ok \in BOOLEAN, ReturnStatus(t, ok),
         UNCHANGED pipeVars
  PROVE  Returned
<1>1. op' \in [Threads -> Operations]
  BY DEF TypeInv, TypeOK, ReturnStatus, Operations
<1> QED
  BY <1>1 DEF TypeInv, TypeOK, ServedRequest, Returned

LEMMA FinishType ==
  ASSUME TypeInv, NEW t \in Threads, Finish(t)
  PROVE  Returned
<1>1. op' \in [Threads -> Operations]
  BY IdleType DEF TypeInv, TypeOK, Finish
<1> QED
  BY <1>1, EndRequestType DEF TypeInv, TypeOK, ServedRequest, Returned, Finish

LEMMA SavedType ==
  ASSUME NEW plan \in Plans
  PROVE  [plan |-> plan, anchored |-> TRUE, age |-> 0] \in LicenseStates
BY TimesAssumption DEF LicenseStates

LEMMA MarkUnavailableType ==
  ASSUME TypeInv, MarkUnavailable
  PROVE  online' \in BOOLEAN /\ outage' \in 0..OutageRetention \cup {NoTime}
<1>1. online' \in BOOLEAN
  BY DEF MarkUnavailable
<1>2. outage' \in 0..OutageRetention \cup {NoTime}
  BY TimesAssumption DEF TypeInv, TypeOK, MarkUnavailable
<1> QED
  BY <1>1, <1>2

LEMMA TypeLicense == ASSUME TypeInv, NEW t \in Threads, LicenseStep(t) PROVE TypeInv'
<1> USE DEF TypeInv, TypeOK, ServedRequest
<1>1. CASE AcquireOperation(t)
  BY <1>1, GotoType DEF AcquireOperation
<1>2. CASE NothingToOperateOn(t)
  <2>1. Returned
    BY <1>2, ReturnStatusType, FinishType DEF NothingToOperateOn
  <2> QED
    BY <1>2, <2>1 DEF NothingToOperateOn, Returned
<1>3. CASE ServiceUnavailable(t)
  <2>1. Returned
    BY <1>3, ReturnStatusType, FinishType DEF ServiceUnavailable
  <2>2. online' \in BOOLEAN /\ outage' \in 0..OutageRetention \cup {NoTime}
    BY <1>3, MarkUnavailableType DEF ServiceUnavailable
  <2> QED
    BY <1>3, <2>1, <2>2 DEF ServiceUnavailable, Returned
<1>4. CASE ServiceInvalidates(t)
  <2>1. /\ op' \in [Threads -> Operations]
        /\ UNCHANGED <<pipeVars, disk, reconciled, ledger, windowVars, driverVars,
                       client>>
    BY <1>4, GotoType DEF ServiceInvalidates
  <2>2. /\ license' \in LicenseStates /\ online' = FALSE /\ revoke' = TRUE
        /\ outage' = NoTime /\ next' = NoTime
    BY <1>4, NoLicenseType DEF ServiceInvalidates, ForgetLicense
  <2> QED
    BY <2>1, <2>2
<1>5. CASE ServiceDeactivates(t)
  BY <1>5, GotoType, NoLicenseType DEF ServiceDeactivates
<1>6. ASSUME NEW plan \in Plans, ServiceGrants(t, plan) PROVE TypeInv'
  BY <1>6, GotoType, SavedType DEF ServiceGrants
<1>7. ASSUME NEW plan \in Plans, SaveFails(t, plan) PROVE TypeInv'
  <2>1. Returned
    BY <1>7, ReturnStatusType, FinishType DEF SaveFails
  <2>2. disk' \in LicenseStates
    BY <1>7, SavedType, NoLicenseType DEF SaveFails
  <2>3. online' \in BOOLEAN /\ outage' \in 0..OutageRetention \cup {NoTime}
    BY <1>7, MarkUnavailableType DEF SaveFails
  <2> QED
    BY <1>7, <2>1, <2>2, <2>3 DEF SaveFails, Returned
<1>8. CASE CommitLicense(t)
  <2>1. Returned
    BY <1>8, ReturnStatusType, FinishType DEF CommitLicense
  <2>2. next' \in 0..ValidationInterval \cup {NoTime}
    <3>1. next' = ValidationInterval \/ next' = next
      BY <1>8 DEF CommitLicense
    <3>2. ValidationInterval \in 0..ValidationInterval
      BY TimesAssumption
    <3> QED
      BY <3>1, <3>2
  <2> QED
    BY <1>8, <2>1, <2>2 DEF CommitLicense, Returned
<1>9. CASE DeleteInvalidated(t)
  <2>1. Returned
    BY <1>9, ReturnStatusType, FinishType DEF DeleteInvalidated
  <2> QED
    BY <1>9, <2>1, NoLicenseType DEF DeleteInvalidated, Returned
<1>10. CASE ForgetDeactivated(t)
  <2>1. Returned
    BY <1>10, FinishType DEF ForgetDeactivated
  <2> QED
    BY <1>10, <2>1, NoLicenseType DEF ForgetDeactivated, Returned, ForgetLicense
<1>11. CASE ScheduleNext(t)
  <2>1. Returned
    BY <1>11, FinishType DEF ScheduleNext
  <2> QED
    BY <1>11, <2>1, TimesAssumption DEF ScheduleNext, Returned
<1> QED
  BY <1>1, <1>2, <1>3, <1>4, <1>5, <1>6, <1>7, <1>8, <1>9, <1>10, <1>11
     DEF LicenseStep

LEMMA TypeValidationDue == ASSUME TypeInv, ValidationDue PROVE TypeInv'
BY TimesAssumption
   DEF TypeInv, TypeOK, ServedRequest, ValidationDue, Operations

LEMMA ProcessGoneType ==
  ASSUME TypeInv, ProcessGone
  PROVE  /\ pipe' = "down" /\ after' = "wait" /\ doomed' = {}
         /\ request' \in Requests
         /\ op' \in [Threads -> Operations]
         /\ license' \in LicenseStates
         /\ DOMAIN ledger' \subseteq DeviceIds
         /\ ledger' \in [DOMAIN ledger' -> DeviceRecords]
BY NoRequestType, IdleType, NoLicenseType, NothingType DEF ProcessGone

LEMMA TypeEnvironment == ASSUME TypeInv, Environment PROVE TypeInv'
<1> USE DEF TypeInv, TypeOK, ServedRequest
<1>1. ASSUME NEW c \in Clients, OpenControl(c) PROVE TypeInv'
  BY <1>1 DEF OpenControl
<1>2. ASSUME NEW c \in Clients, CloseControl(c) PROVE TypeInv'
  BY <1>2 DEF CloseControl
<1>3. ASSUME NEW c \in Clients, Exit(c) PROVE TypeInv'
  BY <1>3 DEF Exit
<1>4. ASSUME NEW c \in Clients, FileCleanup(c) PROVE TypeInv'
  BY <1>4 DEF FileCleanup
<1>5. CASE DriverRestart
  <2>1. client' \in [Clients -> {"attached", "detached", "exited"}]
    BY <1>5 DEF DriverRestart
  <2> QED
    BY <1>5, <2>1, NothingType, BoundsAssumption DEF DriverRestart
<1>6. CASE Crash
  BY <1>6, ProcessGoneType DEF Crash, ProcessGone
<1>7. CASE Start
  <2>1. /\ DOMAIN driver' \subseteq DeviceIds
        /\ driver' \in [DOMAIN driver' -> Gamepads]
        /\ DOMAIN ledger' \subseteq DeviceIds
        /\ ledger' \in [DOMAIN ledger' -> DeviceRecords]
        /\ reconciled' \in BOOLEAN /\ revoke' \in BOOLEAN
        /\ nextId' = nextId /\ epoch' = epoch
        /\ channel' \in {"closed", "open", "stale"}
    BY <1>7, NothingType DEF Start, ResetSucceeds, ChannelCallFails
  <2> QED
    BY <1>7, <2>1, TimesAssumption DEF Start
<1>8. CASE Reboot
  <2>1. disk' \in LicenseStates
    <3>1. disk' = [plan |-> disk.plan, anchored |-> FALSE, age |-> 0]
      BY <1>8 DEF Reboot, LicenseStates
    <3> QED
      BY <3>1, TimesAssumption DEF LicenseStates
  <2> QED
    <3>1. DOMAIN driver' \subseteq DeviceIds /\ driver' \in [DOMAIN driver' -> Gamepads]
      BY <1>8, NothingType DEF Reboot
    <3>2. client' \in [Clients -> {"attached", "detached", "exited"}]
      BY <1>8 DEF Reboot
    <3>3. ProcessGone /\ nextId' = 1 /\ 1 \in 1..(MaxDevices + 1)
          /\ windowFile' = windowFile /\ epoch' = epoch
      BY <1>8, BoundsAssumption DEF Reboot
    <3> QED
      BY <2>1, <3>1, <3>2, <3>3, ProcessGoneType DEF ProcessGone
<1>9. CASE Tick
  BY <1>9, OlderType, AgedType, TimesAssumption DEF Tick
<1>10. CASE SetWallClock
  BY <1>10, TimesAssumption DEF SetWallClock
<1> QED
  BY <1>1, <1>2, <1>3, <1>4, <1>5, <1>6, <1>7, <1>8, <1>9, <1>10 DEF Environment

LEMMA TypeNext == TypeInv /\ [Next]_vars => TypeInv'
BY TypeStutter, TypeSweep, TypeServe, TypeLicense, TypeValidationDue,
   TypeEnvironment DEF Next

\* Every reachable state is a state of the broker: in particular the ledger
\* holds complete records of devices that clients own, also when the request a
\* record is made from has been overtaken by a license operation or a sweep.
THEOREM TypeCorrect == Spec => []TypeOK
<1>1. TypeInv => TypeOK
  BY DEF TypeInv
<1> QED
  BY TypeInit, TypeNext, <1>1, PTL DEF Spec

-----------------------------------------------------------------------------
(* The license, the schedule and the pending revocation.                   *)

\* license_operation_mutex_ keeps the operations apart.
OneOperation == ~(Holds("pipe") /\ Holds("validator"))

\* What an operation commits, it has saved.
CommitIsSaved ==
  \A t \in Threads :
    op[t].step = "commit" => disk.plan # "none" /\ op[t].kind # "deactivate"

\* A validation works on a license, until it invalidates it itself.
ValidatesALicense ==
  \A t \in Threads :
    Holds(t) /\ op[t].kind = "validate" /\ op[t].step # "delete"
      => license.plan # "none"

\* The pipe thread serves nothing else during its license operation.
PipeOperates == op["pipe"].step # "idle" => pipe = "license"

DownIsEmpty ==
  pipe = "down" =>
    /\ license.plan = "none"
    /\ DOMAIN ledger = {}
    /\ window = NoTime
    /\ \A t \in Threads : op[t].step = "idle"

LicenseInv ==
  /\ OneOperation
  /\ CommitIsSaved
  /\ ValidatesALicense
  /\ PipeOperates
  /\ DownIsEmpty
  /\ RevocationPending
  /\ ValidationScheduled

LEMMA LicenseInit == Init => LicenseInv
BY DEF Init, LicenseInv, OneOperation, CommitIsSaved, ValidatesALicense,
       PipeOperates, DownIsEmpty, RevocationPending, ValidationScheduled,
       Holds, Idle, NoLicense, LicensedDevices, LicensedCreate

\* Steps that leave the license, its operations and the schedule alone, and
\* that neither lose a pending revocation nor add to what it must remove.
LEMMA LicenseUntouched ==
  ASSUME LicenseInv, UNCHANGED <<op, licenseVars>>,
         pipe # "license", pipe # "down", pipe' # "down",
         revoke' = revoke \/ revoke' = TRUE
           \/ (LicensedDevices' = {} /\ ~LicensedCreate'),
         \/ license.plan # "none"
         \/ /\ LicensedDevices' # {} => LicensedDevices # {} \/ LicensedCreate
            /\ LicensedCreate' => LicensedDevices # {} \/ LicensedCreate
  PROVE  LicenseInv'
<1> USE DEF LicenseInv
<1>1. OneOperation' /\ CommitIsSaved' /\ ValidatesALicense'
  BY DEF OneOperation, CommitIsSaved, ValidatesALicense, Holds
<1>2. PipeOperates' /\ DownIsEmpty'
  BY DEF PipeOperates, DownIsEmpty
<1>3. RevocationPending'
  BY DEF RevocationPending
<1>4. ValidationScheduled'
  BY DEF ValidationScheduled
<1> QED
  BY <1>1, <1>2, <1>3, <1>4

LEMMA LicensedWithout ==
  ASSUME NEW d, ledger' = Without(ledger, d)
  PROVE  LicensedDevices' = LicensedDevices \ {d}
<1>1. DOMAIN ledger' = DOMAIN ledger \ {d}
  BY WithoutRest
<1>2. \A x \in DOMAIN ledger \ {d} : ledger'[x] = ledger[x]
  BY WithoutRest
<1> QED
  BY <1>1, <1>2 DEF LicensedDevices

LEMMA LicenseSweep == ASSUME TypeInv, LicenseInv, Sweep PROVE LicenseInv'
<1>1. CASE SweepReconciles
  <2>1. LicensedDevices' = {}
    BY <1>1 DEF SweepReconciles, ResetSucceeds, LicensedDevices
  <2> QED
    BY <1>1, <2>1, LicenseUntouched
       DEF SweepReconciles, ResetSucceeds, LicensedCreate
<1>2. CASE SweepFailsToReconcile
  <2>1. pipe' \in {"wait", "read"}
    BY <1>2 DEF SweepFailsToReconcile, TypeInv, TypeOK
  <2> QED
    BY <1>2, <2>1, LicenseUntouched
       DEF SweepFailsToReconcile, LicensedCreate, LicensedDevices
<1>3. CASE SweepDecides
  BY <1>3, LicenseUntouched
     DEF SweepDecides, LicensedCreate, LicensedDevices, TypeInv, TypeOK
<1>4. ASSUME NEW d \in DeviceIds, SweepDestroys(d) PROVE LicenseInv'
  BY <1>4, LicenseUntouched, LicensedWithout
     DEF SweepDestroys, NextDoomed, LicensedCreate
<1>5. ASSUME NEW d \in DeviceIds, SweepFailsToDestroy(d) PROVE LicenseInv'
  BY <1>5, LicenseUntouched
     DEF SweepFailsToDestroy, NextDoomed, LicensedCreate, LicensedDevices
<1>6. CASE SweepSettles
  <2>1. pipe' \in {"wait", "read"} /\ ~LicensedCreate'
    BY <1>6 DEF SweepSettles, TypeInv, TypeOK, LicensedCreate
  <2>2. LicensedDevices' = LicensedDevices
    BY <1>6 DEF SweepSettles, LicensedDevices
  <2>3. revoke' = revoke \/ LicensedDevices' = {}
    BY <1>6, <2>2 DEF SweepSettles, TypeInv, TypeOK
  <2> QED
    BY <1>6, <2>1, <2>2, <2>3, LicenseUntouched DEF SweepSettles
<1> QED
  BY <1>1, <1>2, <1>3, <1>4, <1>5, <1>6 DEF Sweep

LEMMA EndRequestDone == EndRequest => pipe' = "sweep" /\ ~LicensedCreate'
BY DEF EndRequest, LicensedCreate

LEMMA LicenseServe == ASSUME TypeInv, LicenseInv, Serve PROVE LicenseInv'
<1>1. CASE WaitForPipeClient
  BY <1>1, LicenseUntouched
     DEF WaitForPipeClient, LicensedCreate, LicensedDevices
<1>2. CASE Respond
  BY <1>2, LicenseUntouched, EndRequestDone
     DEF Respond, ResetSucceeds, LicensedDevices
<1>3. ASSUME NEW c \in Clients, AcceptCreate(c) PROVE LicenseInv'
  BY <1>3, LicenseUntouched
     DEF AcceptCreate, ResetSucceeds, LicensedCreate, LicensedDevices
<1>4. CASE AuthorizeLicensed
  BY <1>4, LicenseUntouched, EndRequestDone DEF AuthorizeLicensed, LicensedDevices
<1>5. CASE AuthorizeEvaluation
  <2>1. ~LicensedCreate'
    BY <1>5, EndRequestDone
       DEF AuthorizeEvaluation, LicensedCreate, TypeInv, TypeOK, Requests
  <2> QED
    BY <1>5, <2>1, LicenseUntouched, EndRequestDone
       DEF AuthorizeEvaluation, LicensedDevices
<1>6. CASE EvaluationNotSaved
  BY <1>6, LicenseUntouched, EndRequestDone DEF EvaluationNotSaved, LicensedDevices
<1>7. CASE LicenseRequired
  BY <1>7, LicenseUntouched, EndRequestDone DEF LicenseRequired, LicensedDevices
<1>8. CASE DriverCreates
  <2>1. request'.evaluation = request.evaluation
    BY <1>8 DEF DriverCreates, TypeInv, TypeOK, Requests
  <2> QED
    BY <1>8, <2>1, LicenseUntouched
       DEF DriverCreates, LicensedDevices, LicensedCreate
<1>9. CASE DriverFailsToCreate
  BY <1>9, LicenseUntouched, EndRequestDone
     DEF DriverFailsToCreate, LicensedDevices
<1>10. CASE RecordDevice
  <2>1. LicensedDevices' # {} => LicensedDevices # {} \/ LicensedCreate
    <3> DEFINE r == [owner |-> request.owner, token |-> request.token,
                     evaluation |-> request.evaluation,
                     confirmed |-> request.confirmed]
    <3>1. r.evaluation = request.evaluation
      OBVIOUS
    <3>2. ledger' = Emplace(ledger, request.id, r) /\ pipe = "record"
      BY <1>10 DEF RecordDevice
    <3> HIDE DEF r
    <3>3. /\ DOMAIN ledger' = DOMAIN ledger \cup {request.id}
          /\ \A x \in DOMAIN ledger : ledger'[x] = ledger[x]
          /\ request.id \notin DOMAIN ledger => ledger'[request.id] = r
      BY <3>2 DEF Emplace
    <3> QED
      BY <3>1, <3>2, <3>3 DEF LicensedDevices, LicensedCreate
  <2> QED
    BY <1>10, <2>1, LicenseUntouched, EndRequestDone DEF RecordDevice
<1>11. ASSUME NEW d \in DeviceIds, DestroyRequest(d) PROVE LicenseInv'
  BY <1>11, LicenseUntouched, EndRequestDone, LicensedWithout DEF DestroyRequest
<1>12. ASSUME NEW kind \in LicenseRequests, LicenseRequest(kind) PROVE LicenseInv'
  <2>1. /\ op'["pipe"].step = "lock" /\ op'["validator"] = op["validator"]
        /\ pipe' = "license"
    BY <1>12 DEF LicenseRequest, TypeInv, TypeOK
  <2>2. OneOperation' /\ CommitIsSaved' /\ ValidatesALicense'
    BY <1>12, <2>1 DEF LicenseRequest, LicenseInv, OneOperation, CommitIsSaved,
                       ValidatesALicense, Holds
  <2>3. PipeOperates' /\ DownIsEmpty' /\ RevocationPending' /\ ValidationScheduled'
    BY <1>12, <2>1 DEF LicenseRequest, LicenseInv, PipeOperates, DownIsEmpty,
       RevocationPending, ValidationScheduled, LicensedDevices, LicensedCreate
  <2> QED
    BY <2>2, <2>3 DEF LicenseInv
<1> QED
  BY <1>1, <1>2, <1>3, <1>4, <1>5, <1>6, <1>7, <1>8, <1>9, <1>10, <1>11, <1>12
     DEF Serve

LEMMA GotoStep ==
  ASSUME TypeInv, NEW t \in Threads, NEW step, Goto(t, step)
  PROVE  /\ op'[t].step = step /\ op'[t].kind = op[t].kind
         /\ \A u \in Threads \ {t} : op'[u] = op[u]
BY DEF TypeInv, TypeOK, Goto, Operations

LEMMA ReturnStatusStep ==
  ASSUME TypeInv, NEW t \in Threads, NEW ok, ReturnStatus(t, ok)
  PROVE  /\ op'[t].step = "schedule" /\ op'[t].kind = op[t].kind
         /\ \A u \in Threads \ {t} : op'[u] = op[u]
BY DEF TypeInv, TypeOK, ReturnStatus, Operations

LEMMA FinishStep ==
  ASSUME TypeInv, NEW t \in Threads, Finish(t)
  PROVE  /\ op'[t].step = "idle"
         /\ \A u \in Threads \ {t} : op'[u] = op[u]
BY DEF TypeInv, TypeOK, Finish, Idle

\* An operation that ends, or returns to its caller, releases the mutex.
Released(t) ==
  /\ op'[t].step \in {"schedule", "idle"}
  /\ \A u \in Threads \ {t} : op'[u] = op[u]
  /\ \/ UNCHANGED pipeVars
     \/ t = "pipe" /\ op'[t].step = "idle" /\ EndRequest
  /\ t = "validator" => UNCHANGED pipeVars

LEMMA ReturnStatusReleases ==
  ASSUME TypeInv, NEW t \in Threads, NEW ok, ReturnStatus(t, ok), UNCHANGED pipeVars
  PROVE  Released(t)
BY ReturnStatusStep DEF Released

LEMMA FinishReleases ==
  ASSUME TypeInv, NEW t \in Threads, Finish(t)
  PROVE  Released(t)
BY FinishStep DEF Released, Finish

\* The invariants about the mutex and the files, for a step of t that either
\* goes on with its operation or releases the mutex.
LEMMA MutexKept ==
  ASSUME TypeInv, LicenseInv, NEW t \in Threads, op[t].step # "idle",
         \A u \in Threads \ {t} : op'[u] = op[u],
         \/ Released(t)
         \/ /\ UNCHANGED pipeVars
            /\ Holds(t) \/ ~Holds(OtherThread(t)),
         op'[t].step = "commit" =>
           disk'.plan # "none" /\ op'[t].kind # "deactivate",
         disk' = disk \/ Holds(t)
  PROVE  OneOperation' /\ CommitIsSaved' /\ PipeOperates' /\ pipe' # "down"
<1> USE DEF LicenseInv
<1>1. pipe # "down"
  BY DEF DownIsEmpty
<1>2. pipe' # "down"
  BY <1>1 DEF Released, EndRequest
<1>3. CASE t = "pipe"
  <2>1. op'["validator"] = op["validator"]
    BY <1>3
  <2>2. OneOperation'
    BY <1>3, <2>1 DEF OneOperation, Holds, Released, OtherThread
  <2>3. CommitIsSaved'
    BY <1>3, <2>1 DEF CommitIsSaved, Holds, OneOperation
  <2>4. PipeOperates'
    BY <1>3 DEF PipeOperates, Released
  <2> QED
    BY <1>2, <2>2, <2>3, <2>4
<1>4. CASE t = "validator"
  <2>1. op'["pipe"] = op["pipe"]
    BY <1>4
  <2>2. OneOperation'
    BY <1>4, <2>1 DEF OneOperation, Holds, Released, OtherThread
  <2>3. CommitIsSaved'
    BY <1>4, <2>1 DEF CommitIsSaved, Holds, OneOperation
  <2>4. PipeOperates'
    BY <1>4, <2>1 DEF PipeOperates, Released
  <2> QED
    BY <1>2, <2>2, <2>3, <2>4
<1> QED
  BY <1>3, <1>4

\* Nothing is created during a license operation of the pipe thread, and an
\* operation of the validator leaves the pipe thread alone.
LEMMA CreateKept ==
  ASSUME NEW t \in Threads, UNCHANGED ledger,
         UNCHANGED pipeVars \/ EndRequest
  PROVE  LicensedDevices' = LicensedDevices /\ (LicensedCreate' => LicensedCreate)
BY DEF LicensedDevices, LicensedCreate, EndRequest

LEMMA OutageKeepsSchedule ==
  ASSUME ValidationScheduled, UNCHANGED <<license, next>>,
         MarkUnavailable \/ UNCHANGED <<online, outage>>
  PROVE  ValidationScheduled'
<1>1. CASE license.plan = "none"
  <2>1. ~online' /\ outage' = NoTime
    <3>1. CASE UNCHANGED <<online, outage>>
      BY <1>1, <3>1 DEF ValidationScheduled
    <3>2. CASE MarkUnavailable
      <4>1. ~online'
        BY <1>1, <3>2, Zenon DEF ValidationScheduled, MarkUnavailable
      <4>2. outage' = NoTime
        BY <1>1, <3>2 DEF ValidationScheduled, MarkUnavailable
      <4> QED
        BY <4>1, <4>2
    <3> QED
      BY <3>1, <3>2
  <2> QED
    BY <1>1, <2>1 DEF ValidationScheduled
<1>2. CASE license.plan # "none"
  BY <1>2 DEF ValidationScheduled
<1> QED
  BY <1>1, <1>2

LEMMA LicenseLicense ==
  ASSUME TypeInv, LicenseInv, NEW t \in Threads, LicenseStep(t)
  PROVE  LicenseInv'
<1> DEFINE Mutex == OneOperation' /\ CommitIsSaved' /\ PipeOperates' /\ pipe' # "down"
<1> USE DEF LicenseInv
<1>0. \A u \in Threads : u # t => u = OtherThread(t)
  BY DEF OtherThread
<1>1. CASE AcquireOperation(t)
  <2>1. /\ op'[t].step = "http" /\ op'[t].kind = op[t].kind
        /\ \A u \in Threads \ {t} : op'[u] = op[u]
    BY <1>1, GotoStep DEF AcquireOperation
  <2>2. Mutex
    BY <1>1, <2>1, MutexKept DEF AcquireOperation
  <2>3. ValidatesALicense'
    BY <1>1, <2>1 DEF AcquireOperation, ValidatesALicense, Holds
  <2>4. RevocationPending' /\ ValidationScheduled'
    BY <1>1, CreateKept DEF AcquireOperation, RevocationPending, ValidationScheduled
  <2> QED
    BY <2>2, <2>3, <2>4 DEF DownIsEmpty
<1>2. CASE NothingToOperateOn(t)
  <2>1. Released(t)
    BY <1>2, ReturnStatusReleases, FinishReleases DEF NothingToOperateOn
  <2>2. Mutex
    BY <1>2, <2>1, MutexKept DEF NothingToOperateOn, Released
  <2>3. ValidatesALicense'
    BY <1>2, <2>1 DEF NothingToOperateOn, ValidatesALicense, Holds, Released
  <2>4. RevocationPending' /\ ValidationScheduled'
    BY <1>2, <2>1, CreateKept
       DEF NothingToOperateOn, RevocationPending, ValidationScheduled, Released
  <2> QED
    BY <2>2, <2>3, <2>4 DEF DownIsEmpty
<1>3. CASE ServiceUnavailable(t)
  <2>1. Released(t)
    BY <1>3, ReturnStatusReleases, FinishReleases DEF ServiceUnavailable
  <2>2. Mutex
    BY <1>3, <2>1, MutexKept DEF ServiceUnavailable, Released
  <2>3. ValidatesALicense'
    BY <1>3, <2>1 DEF ServiceUnavailable, ValidatesALicense, Holds, Released
  <2>4. RevocationPending'
    BY <1>3, <2>1, CreateKept
       DEF ServiceUnavailable, RevocationPending, Released
  <2>5. ValidationScheduled'
    BY <1>3, OutageKeepsSchedule DEF ServiceUnavailable
  <2> QED
    BY <2>2, <2>3, <2>4, <2>5 DEF DownIsEmpty
<1>4. CASE ServiceInvalidates(t)
  <2>1. /\ op'[t].step = "delete" /\ op'[t].kind = op[t].kind
        /\ \A u \in Threads \ {t} : op'[u] = op[u]
    BY <1>4, GotoStep DEF ServiceInvalidates
  <2>2. Mutex
    BY <1>4, <2>1, MutexKept DEF ServiceInvalidates, Holds
  <2>3. ValidatesALicense'
    BY <1>0, <1>4, <2>1 DEF ServiceInvalidates, ValidatesALicense, Holds, OneOperation
  <2>4. RevocationPending' /\ ValidationScheduled'
    BY <1>4 DEF ServiceInvalidates, ForgetLicense, RevocationPending,
       ValidationScheduled, NoLicense
  <2> QED
    BY <2>2, <2>3, <2>4 DEF DownIsEmpty
<1>5. CASE ServiceDeactivates(t)
  <2>1. /\ op'[t].step = "forget" /\ op'[t].kind = op[t].kind
        /\ \A u \in Threads \ {t} : op'[u] = op[u]
    BY <1>5, GotoStep DEF ServiceDeactivates
  <2>2. Mutex
    BY <1>5, <2>1, MutexKept DEF ServiceDeactivates, Holds
  <2>3. ValidatesALicense'
    BY <1>5, <2>1 DEF ServiceDeactivates, ValidatesALicense, Holds
  <2>4. RevocationPending' /\ ValidationScheduled'
    BY <1>5, CreateKept DEF ServiceDeactivates, RevocationPending, ValidationScheduled
  <2> QED
    BY <2>2, <2>3, <2>4 DEF DownIsEmpty
<1>6. ASSUME NEW plan \in Plans, ServiceGrants(t, plan) PROVE LicenseInv'
  <2>1. /\ op'[t].step = "commit" /\ op'[t].kind = op[t].kind
        /\ \A u \in Threads \ {t} : op'[u] = op[u]
    BY <1>6, GotoStep DEF ServiceGrants
  <2>2. disk'.plan # "none"
    BY <1>6, PlansAssumption DEF ServiceGrants
  <2>3. Mutex
    BY <1>6, <2>1, <2>2, MutexKept DEF ServiceGrants, Holds
  <2>4. ValidatesALicense'
    BY <1>6, <2>1 DEF ServiceGrants, ValidatesALicense, Holds
  <2>5. RevocationPending' /\ ValidationScheduled'
    BY <1>6, CreateKept DEF ServiceGrants, RevocationPending, ValidationScheduled
  <2> QED
    BY <2>3, <2>4, <2>5 DEF DownIsEmpty
<1>7. ASSUME NEW plan \in Plans, SaveFails(t, plan) PROVE LicenseInv'
  <2>1. Released(t)
    BY <1>7, ReturnStatusReleases, FinishReleases DEF SaveFails
  <2>2. Mutex
    BY <1>7, <2>1, MutexKept DEF SaveFails, Released, Holds
  <2>3. ValidatesALicense'
    BY <1>7, <2>1 DEF SaveFails, ValidatesALicense, Holds, Released
  <2>4. RevocationPending'
    BY <1>7, <2>1, CreateKept DEF SaveFails, RevocationPending, Released
  <2>5. ValidationScheduled'
    BY <1>7, OutageKeepsSchedule DEF SaveFails
  <2> QED
    BY <2>2, <2>3, <2>4, <2>5 DEF DownIsEmpty
<1>8. CASE CommitLicense(t)
  <2>1. Released(t)
    BY <1>8, ReturnStatusReleases, FinishReleases DEF CommitLicense
  <2>2. Mutex
    BY <1>8, <2>1, MutexKept DEF CommitLicense, Released
  <2>3. license'.plan # "none"
    BY <1>8 DEF CommitLicense, CommitIsSaved
  <2>4. ValidatesALicense' /\ RevocationPending'
    BY <2>3 DEF ValidatesALicense, RevocationPending
  <2>5. ValidationScheduled'
    <3>1. next' # NoTime
      <4>1. CASE op[t].kind = "activate"
        BY <1>8, <4>1, TimesAssumption DEF CommitLicense
      <4>2. CASE op[t].kind = "validate"
        BY <1>8, <4>2 DEF CommitLicense, ValidatesALicense, Holds, ValidationScheduled
      <4> QED
        BY <1>8, <4>1, <4>2
           DEF CommitLicense, CommitIsSaved, TypeInv, TypeOK, Operations
    <3> QED
      BY <2>3, <3>1 DEF ValidationScheduled
  <2> QED
    BY <2>2, <2>4, <2>5 DEF DownIsEmpty
<1>9. CASE DeleteInvalidated(t)
  <2>1. Released(t)
    BY <1>9, ReturnStatusReleases, FinishReleases DEF DeleteInvalidated
  <2>2. Mutex
    BY <1>9, <2>1, MutexKept DEF DeleteInvalidated, Released, Holds
  <2>3. ValidatesALicense'
    BY <1>9, <2>1 DEF DeleteInvalidated, ValidatesALicense, Holds, Released
  <2>4. RevocationPending' /\ ValidationScheduled'
    BY <1>9, <2>1, CreateKept
       DEF DeleteInvalidated, RevocationPending, ValidationScheduled, Released
  <2> QED
    BY <2>2, <2>3, <2>4 DEF DownIsEmpty
<1>10. CASE ForgetDeactivated(t)
  <2>1. Released(t)
    BY <1>10, FinishReleases DEF ForgetDeactivated
  <2>2. Mutex
    BY <1>10, <2>1, MutexKept DEF ForgetDeactivated, Released
  <2>3. ValidatesALicense'
    BY <1>0, <1>10, <2>1
       DEF ForgetDeactivated, ValidatesALicense, Holds, Released, OneOperation
  <2>4. RevocationPending' /\ ValidationScheduled'
    BY <1>10 DEF ForgetDeactivated, ForgetLicense, RevocationPending,
       ValidationScheduled, NoLicense
  <2> QED
    BY <2>2, <2>3, <2>4 DEF DownIsEmpty
<1>11. CASE ScheduleNext(t)
  <2>1. Released(t)
    BY <1>11, FinishReleases DEF ScheduleNext
  <2>2. Mutex
    BY <1>11, <2>1, MutexKept DEF ScheduleNext, Released
  <2>3. ValidatesALicense'
    BY <1>11, <2>1 DEF ScheduleNext, ValidatesALicense, Holds, Released
  <2>4. RevocationPending'
    BY <1>11, <2>1, CreateKept DEF ScheduleNext, RevocationPending, Released
  <2>5. ValidationScheduled'
    BY <1>11, TimesAssumption DEF ScheduleNext, ValidationScheduled
  <2> QED
    BY <2>2, <2>3, <2>4, <2>5 DEF DownIsEmpty
<1> QED
  BY <1>1, <1>2, <1>3, <1>4, <1>5, <1>6, <1>7, <1>8, <1>9, <1>10, <1>11
     DEF LicenseStep

LEMMA LicenseValidationDue == ASSUME TypeInv, LicenseInv, ValidationDue PROVE LicenseInv'
<1> USE DEF LicenseInv
<1>1. /\ op'["validator"].step = "lock" /\ op'["pipe"] = op["pipe"]
  BY DEF ValidationDue, TypeInv, TypeOK
<1>2. OneOperation' /\ CommitIsSaved' /\ ValidatesALicense' /\ PipeOperates'
  BY <1>1 DEF ValidationDue, OneOperation, CommitIsSaved, ValidatesALicense,
              PipeOperates, Holds
<1>3. DownIsEmpty' /\ RevocationPending'
  BY DEF ValidationDue, DownIsEmpty, RevocationPending, LicensedDevices,
         LicensedCreate
<1>4. ValidationScheduled'
  BY TimesAssumption DEF ValidationDue, ValidationScheduled
<1> QED
  BY <1>2, <1>3, <1>4

\* Steps that leave the broker alone.
LEMMA LicenseElsewhere ==
  ASSUME LicenseInv, UNCHANGED <<pipe, request, op, licenseVars, revoke, ledger, window>>
  PROVE  LicenseInv'
BY DEF LicenseInv, OneOperation, CommitIsSaved, ValidatesALicense, PipeOperates,
       DownIsEmpty, RevocationPending, ValidationScheduled, Holds,
       LicensedDevices, LicensedCreate

LEMMA LicenseGone == ASSUME ProcessGone PROVE LicenseInv'
BY DEF ProcessGone, LicenseInv, OneOperation, CommitIsSaved, ValidatesALicense,
       PipeOperates, DownIsEmpty, RevocationPending, ValidationScheduled, Holds,
       LicensedDevices, LicensedCreate, Idle, NoLicense

LEMMA LicenseEnvironment ==
  ASSUME TypeInv, LicenseInv, Environment
  PROVE  LicenseInv'
<1>1. ASSUME NEW c \in Clients,
             OpenControl(c) \/ CloseControl(c) \/ Exit(c) \/ FileCleanup(c)
      PROVE  LicenseInv'
  BY <1>1, LicenseElsewhere DEF OpenControl, CloseControl, Exit, FileCleanup
<1>2. CASE DriverRestart
  BY <1>2, LicenseElsewhere DEF DriverRestart
<1>3. CASE Crash \/ Reboot
  BY <1>3, LicenseGone DEF Crash, Reboot
<1>4. CASE Start
  <2>1. LicensedDevices' = {} /\ ~LicensedCreate' /\ pipe' = "sweep"
    BY <1>4 DEF Start, ResetSucceeds, LicenseInv, DownIsEmpty, LicensedDevices,
                LicensedCreate
  <2>2. \A u \in Threads : op'[u].step = "idle"
    BY <1>4 DEF Start, LicenseInv, DownIsEmpty
  <2>3. ValidationScheduled'
    BY <1>4 DEF Start, LicenseInv, DownIsEmpty, ValidationScheduled
  <2> QED
    BY <2>1, <2>2, <2>3
       DEF LicenseInv, OneOperation, CommitIsSaved, ValidatesALicense,
           PipeOperates, DownIsEmpty, RevocationPending, Holds
<1>5. CASE Tick
  <2>1. license'.plan = license.plan /\ disk'.plan = disk.plan
    BY <1>5, AgedType DEF Tick, TypeInv, TypeOK
  <2>2. window = NoTime => window' = NoTime
    BY <1>5 DEF Tick, Older
  <2>3. /\ outage = NoTime => outage' = NoTime
        /\ next = NoTime => next' = NoTime
        /\ next # NoTime => next' # NoTime
    BY <1>5, TimesAssumption DEF Tick, Older, TypeInv, TypeOK
  <2>4. UNCHANGED <<pipe, request, op, online, revoke, ledger>>
    BY <1>5 DEF Tick
  <2> QED
    BY <2>1, <2>2, <2>3, <2>4
       DEF LicenseInv, OneOperation, CommitIsSaved, ValidatesALicense,
           PipeOperates, DownIsEmpty, RevocationPending, ValidationScheduled,
           Holds, LicensedDevices, LicensedCreate
<1>6. CASE SetWallClock
  <2>1. window = NoTime => window' = NoTime
    BY <1>6 DEF SetWallClock
  <2> QED
    BY <1>6, <2>1
       DEF SetWallClock, LicenseInv, OneOperation, CommitIsSaved,
           ValidatesALicense, PipeOperates, DownIsEmpty, RevocationPending,
           ValidationScheduled, Holds, LicensedDevices, LicensedCreate
<1> QED
  BY <1>1, <1>2, <1>3, <1>4, <1>5, <1>6 DEF Environment

LEMMA LicenseNext == TypeInv /\ LicenseInv /\ [Next]_vars => LicenseInv'
<1>1. TypeInv /\ LicenseInv /\ UNCHANGED vars => LicenseInv'
  BY LicenseElsewhere DEF vars
<1> QED
  BY <1>1, LicenseSweep, LicenseServe, LicenseLicense, LicenseValidationDue,
     LicenseEnvironment DEF Next

LEMMA LicenseInvariant == Spec => [](TypeInv /\ LicenseInv)
BY TypeInit, TypeNext, LicenseInit, LicenseNext, PTL DEF Spec

\* However license operations on the two threads, sweeps and creates overlap,
\* and wherever the service dies, the gamepads of a license that is gone stay
\* due for removal (revoke_licensed_devices_) until none is left.
THEOREM RevocationIsPending == Spec => []RevocationPending
<1>1. LicenseInv => RevocationPending
  BY DEF LicenseInv
<1> QED
  BY LicenseInvariant, <1>1, PTL

\* The two threads never leave a license in use without a next validation, nor
\* an outage or a confirmation behind for a license that is gone, although one
\* of the writers of the schedule runs outside license_operation_mutex_.
THEOREM ValidationIsScheduled == Spec => []ValidationScheduled
<1>1. LicenseInv => ValidationScheduled
  BY DEF LicenseInv
<1> QED
  BY LicenseInvariant, <1>1, PTL
-----------------------------------------------------------------------------
(* The cap on unconfirmed gamepads *)

UnconfirmedCreate == LicensedCreate /\ ~request.confirmed

LEMMA CapKept ==
  ASSUME UnconfirmedCap, Unconfirmed' \subseteq Unconfirmed,
         UnconfirmedCreate' => UnconfirmedCreate
  PROVE  UnconfirmedCap'
BY DEF UnconfirmedCap, UnconfirmedCreate

LEMMA UnconfirmedSame ==
  ASSUME UNCHANGED ledger
  PROVE  Unconfirmed' = Unconfirmed /\ LicensedDevices' = LicensedDevices
BY DEF Unconfirmed, LicensedDevices

LEMMA UnconfirmedNone ==
  ASSUME ledger' = [d \in {} |-> NoRequest]
  PROVE  Unconfirmed' = {}
BY DEF Unconfirmed, LicensedDevices

LEMMA UnconfirmedWithout ==
  ASSUME NEW d, ledger' = Without(ledger, d)
  PROVE  Unconfirmed' \subseteq Unconfirmed
<1>1. DOMAIN ledger' = DOMAIN ledger \ {d}
  BY WithoutRest
<1>2. \A x \in DOMAIN ledger \ {d} : ledger'[x] = ledger[x]
  BY WithoutRest
<1> QED
  BY <1>1, <1>2 DEF Unconfirmed, LicensedDevices

LEMMA CreateOver == EndRequest => ~UnconfirmedCreate'
BY DEF EndRequest, UnconfirmedCreate, LicensedCreate

LEMMA CreateSame == UNCHANGED pipeVars => UnconfirmedCreate' = UnconfirmedCreate
BY DEF UnconfirmedCreate, LicensedCreate

LEMMA CapSweep == ASSUME TypeInv, UnconfirmedCap, Sweep PROVE UnconfirmedCap'
<1>1. CASE SweepReconciles
  BY <1>1, CapKept, CreateSame, UnconfirmedNone DEF SweepReconciles, ResetSucceeds
<1>2. CASE SweepFailsToReconcile
  BY <1>2, CapKept, UnconfirmedSame
     DEF SweepFailsToReconcile, UnconfirmedCreate, LicensedCreate, TypeInv, TypeOK
<1>3. CASE SweepDecides
  BY <1>3, CapKept, UnconfirmedSame
     DEF SweepDecides, UnconfirmedCreate, LicensedCreate
<1>4. ASSUME NEW d \in DeviceIds, SweepDestroys(d) PROVE UnconfirmedCap'
  BY <1>4, CapKept, UnconfirmedWithout
     DEF SweepDestroys, NextDoomed, UnconfirmedCreate, LicensedCreate
<1>5. ASSUME NEW d \in DeviceIds, SweepFailsToDestroy(d) PROVE UnconfirmedCap'
  BY <1>5, CapKept, UnconfirmedSame
     DEF SweepFailsToDestroy, NextDoomed, UnconfirmedCreate, LicensedCreate
<1>6. CASE SweepSettles
  BY <1>6, CapKept, UnconfirmedSame
     DEF SweepSettles, UnconfirmedCreate, LicensedCreate, TypeInv, TypeOK
<1> QED
  BY <1>1, <1>2, <1>3, <1>4, <1>5, <1>6 DEF Sweep

LEMMA CapServe == ASSUME TypeInv, UnconfirmedCap, Serve PROVE UnconfirmedCap'
<1>1. CASE WaitForPipeClient
  BY <1>1, CapKept, UnconfirmedSame
     DEF WaitForPipeClient, UnconfirmedCreate, LicensedCreate
<1>2. CASE Respond
  BY <1>2, CapKept, UnconfirmedSame, UnconfirmedNone, CreateOver
     DEF Respond, ResetSucceeds
<1>3. ASSUME NEW c \in Clients, AcceptCreate(c) PROVE UnconfirmedCap'
  BY <1>3, CapKept, UnconfirmedSame, UnconfirmedNone
     DEF AcceptCreate, ResetSucceeds, UnconfirmedCreate, LicensedCreate
<1>4. CASE AuthorizeLicensed
  <2>1. CASE online \/ ~Current(license) \/ LicensedDevices # {}
    <3>1. ~UnconfirmedCreate'
      BY <1>4, <2>1, CreateOver
         DEF AuthorizeLicensed, UnconfirmedCreate, TypeInv, TypeOK, Requests
    <3> QED
      BY <1>4, <3>1, CapKept, UnconfirmedSame DEF AuthorizeLicensed
  <2>2. CASE LicensedDevices = {}
    <3>1. Unconfirmed' = {}
      BY <1>4, <2>2, UnconfirmedSame DEF AuthorizeLicensed, Unconfirmed
    <3> QED
      BY <3>1 DEF UnconfirmedCap
  <2> QED
    BY <2>1, <2>2
<1>5. CASE AuthorizeEvaluation
  <2>1. ~UnconfirmedCreate'
    BY <1>5, CreateOver
       DEF AuthorizeEvaluation, UnconfirmedCreate, LicensedCreate, TypeInv,
           TypeOK, Requests
  <2> QED
    BY <1>5, <2>1, CapKept, UnconfirmedSame DEF AuthorizeEvaluation
<1>6. CASE EvaluationNotSaved
  BY <1>6, CapKept, UnconfirmedSame, CreateOver DEF EvaluationNotSaved
<1>7. CASE LicenseRequired
  BY <1>7, CapKept, UnconfirmedSame, CreateOver DEF LicenseRequired
<1>8. CASE DriverCreates
  <2>1. UnconfirmedCreate' => UnconfirmedCreate
    BY <1>8 DEF DriverCreates, UnconfirmedCreate, LicensedCreate, TypeInv,
                TypeOK, Requests
  <2> QED
    BY <1>8, <2>1, CapKept, UnconfirmedSame DEF DriverCreates
<1>9. CASE DriverFailsToCreate
  BY <1>9, CapKept, UnconfirmedSame, CreateOver DEF DriverFailsToCreate
<1>10. CASE RecordDevice
  <2> DEFINE r == [owner |-> request.owner, token |-> request.token,
                   evaluation |-> request.evaluation,
                   confirmed |-> request.confirmed]
  <2>1. r.evaluation = request.evaluation /\ r.confirmed = request.confirmed
    OBVIOUS
  <2>2. ledger' = Emplace(ledger, request.id, r) /\ pipe = "record"
    BY <1>10 DEF RecordDevice
  <2> HIDE DEF r
  <2>3. /\ DOMAIN ledger' = DOMAIN ledger \cup {request.id}
        /\ \A x \in DOMAIN ledger : ledger'[x] = ledger[x]
        /\ request.id \notin DOMAIN ledger => ledger'[request.id] = r
    BY <2>2 DEF Emplace
  <2>4. ~UnconfirmedCreate'
    BY <1>10, CreateOver DEF RecordDevice
  <2>5. CASE ~UnconfirmedCreate
    <3>1. Unconfirmed' \subseteq Unconfirmed
      BY <2>1, <2>2, <2>3, <2>5
         DEF Unconfirmed, LicensedDevices, UnconfirmedCreate, LicensedCreate
    <3> QED
      BY <2>4, <3>1, CapKept
  <2>6. CASE UnconfirmedCreate
    <3>1. Unconfirmed' \subseteq {request.id}
      BY <2>3, <2>6 DEF Unconfirmed, LicensedDevices, UnconfirmedCap, UnconfirmedCreate
    <3> QED
      BY <2>4, <3>1 DEF UnconfirmedCap, UnconfirmedCreate
  <2> QED
    BY <2>5, <2>6
<1>11. ASSUME NEW d \in DeviceIds, DestroyRequest(d) PROVE UnconfirmedCap'
  BY <1>11, CapKept, UnconfirmedWithout, CreateOver DEF DestroyRequest
<1>12. ASSUME NEW kind \in LicenseRequests, LicenseRequest(kind) PROVE UnconfirmedCap'
  BY <1>12, CapKept, UnconfirmedSame
     DEF LicenseRequest, UnconfirmedCreate, LicensedCreate
<1> QED
  BY <1>1, <1>2, <1>3, <1>4, <1>5, <1>6, <1>7, <1>8, <1>9, <1>10, <1>11, <1>12
     DEF Serve

LEMMA LicenseStepDevices ==
  ASSUME NEW t \in Threads, LicenseStep(t)
  PROVE  /\ UNCHANGED <<reconciled, ledger, driverVars, client>>
         /\ UNCHANGED pipeVars \/ (t = "pipe" /\ EndRequest)
BY DEF LicenseStep, AcquireOperation, NothingToOperateOn, ServiceUnavailable,
       ServiceInvalidates, ServiceDeactivates, ServiceGrants, SaveFails,
       CommitLicense, DeleteInvalidated, ForgetDeactivated, ScheduleNext, Finish,
       ForgetLicense

LEMMA CapNext == TypeInv /\ UnconfirmedCap /\ [Next]_vars => UnconfirmedCap'
<1> SUFFICES ASSUME TypeInv, UnconfirmedCap, [Next]_vars PROVE UnconfirmedCap'
  OBVIOUS
<1>1. ASSUME NEW t \in Threads, LicenseStep(t) PROVE UnconfirmedCap'
  BY <1>1, LicenseStepDevices, CapKept, UnconfirmedSame, CreateOver, CreateSame
<1>2. CASE ValidationDue
  BY <1>2, CapKept, UnconfirmedSame, CreateSame DEF ValidationDue
<1>3. CASE Environment
  <2>1. CASE Crash \/ Reboot
    BY <2>1, CapKept, UnconfirmedNone
       DEF Crash, Reboot, ProcessGone, UnconfirmedCreate, LicensedCreate
  <2>2. CASE Start
    BY <2>2, CapKept, UnconfirmedNone, UnconfirmedSame
       DEF Start, ResetSucceeds, UnconfirmedCreate, LicensedCreate
  <2>3. CASE Environment /\ UNCHANGED <<ledger, pipeVars>>
    BY <2>3, CapKept, UnconfirmedSame, CreateSame
  <2> QED
    BY <1>3, <2>1, <2>2, <2>3
       DEF Environment, OpenControl, CloseControl, Exit, FileCleanup,
           DriverRestart, Tick, SetWallClock
<1>4. CASE UNCHANGED vars
  BY <1>4, CapKept, UnconfirmedSame, CreateSame DEF vars
<1> QED
  BY <1>1, <1>2, <1>3, <1>4, CapSweep, CapServe DEF Next

\* At no time was more than one licensed gamepad authorized without an online
\* confirmation, although handle_create counts the ledger, then calls the driver
\* without a lock, and records the gamepad only afterwards.
THEOREM UnconfirmedIsCapped == Spec => []UnconfirmedCap
<1>1. Init => UnconfirmedCap
  BY DEF Init, UnconfirmedCap, Unconfirmed, LicensedDevices, LicensedCreate
<1>2. Spec => []TypeInv
  BY TypeInit, TypeNext, PTL DEF Spec
<1> QED
  BY <1>1, <1>2, CapNext, PTL DEF Spec

-----------------------------------------------------------------------------
(* The ledger and the driver.  Ids are not reused while the driver lives,    *)
(* so the entry made for a new gamepad is never one that is already there.   *)

KnownIds ==
  /\ \A d \in DOMAIN driver \cup DOMAIN ledger : d < nextId
  /\ pipe = "record" =>
       /\ request.id < nextId
       /\ request.id \notin DOMAIN ledger
       /\ request.id \in DOMAIN driver =>
            /\ driver[request.id].owner = request.owner
            /\ driver[request.id].token = request.token

ServedReconciled ==
  pipe \in {"destroy", "authorize", "create", "record"} => reconciled

DownForgets == pipe = "down" => DOMAIN ledger = {}

Tracked(d) ==
  \/ /\ d \in DOMAIN ledger
     /\ ledger[d].owner = driver[d].owner
     /\ ledger[d].token = driver[d].token
  \/ pipe = "record" /\ request.id = d

LedgerInv ==
  /\ ServedReconciled
  /\ DownForgets
  /\ epoch = 0 => KnownIds
  /\ epoch = 0 /\ reconciled => \A d \in DOMAIN driver : Tracked(d)

LEMMA TrackedAll ==
  NoOrphanGamepad <=> (reconciled /\ epoch = 0 => \A d \in DOMAIN driver : Tracked(d))
BY DEF NoOrphanGamepad, Tracked

LEMMA LedgerInit == Init => LedgerInv
BY DEF Init, LedgerInv, ServedReconciled, KnownIds, Tracked, DownForgets

LEMMA EndRequestSweeps == EndRequest => pipe' = "sweep"
BY DEF EndRequest

\* Steps of another part: the pipe thread moves between steps that concern no
\* gamepad, and the driver may lose some.
LEMMA LedgerKept ==
  ASSUME LedgerInv, UNCHANGED <<reconciled, ledger, nextId, epoch>>,
         DOMAIN driver' \subseteq DOMAIN driver,
         \A d \in DOMAIN driver' : driver'[d] = driver[d],
         \/ UNCHANGED pipeVars
         \/ /\ pipe # "record" /\ pipe' # "record" /\ pipe' # "down"
            /\ pipe' \in {"destroy", "authorize", "create"} => reconciled
  PROVE  LedgerInv'
BY DEF LedgerInv, ServedReconciled, KnownIds, Tracked, DownForgets

\* A gamepad is destroyed in the driver and then in the ledger.
LEMMA LedgerWithout ==
  ASSUME TypeInv, LedgerInv, NEW d, pipe # "record", pipe' \notin {"record", "down"},
         pipe' \in {"destroy", "authorize", "create"} => reconciled,
         driver' = Without(driver, d), ledger' = Without(ledger, d),
         UNCHANGED <<reconciled, nextId, epoch>>
  PROVE  LedgerInv'
<1>1. /\ DOMAIN ledger' = DOMAIN ledger \ {d}
      /\ \A x \in DOMAIN ledger \ {d} : ledger'[x] = ledger[x]
  BY WithoutRest
<1>2. /\ DOMAIN driver' = DOMAIN driver \ {d}
      /\ \A x \in DOMAIN driver \ {d} : driver'[x] = driver[x]
  BY WithoutRest
<1> QED
  BY <1>1, <1>2 DEF LedgerInv, ServedReconciled, KnownIds, Tracked, DownForgets

LEMMA LedgerReset ==
  ASSUME LedgerInv, ResetSucceeds, pipe' # "record"
  PROVE  LedgerInv'
BY DEF ResetSucceeds, LedgerInv, ServedReconciled, KnownIds, Tracked, DownForgets

LEMMA LedgerSweep == ASSUME TypeInv, LedgerInv, Sweep PROVE LedgerInv'
<1>1. CASE SweepReconciles
  BY <1>1, LedgerReset DEF SweepReconciles
<1>2. CASE SweepFailsToReconcile
  BY <1>2, LedgerKept DEF SweepFailsToReconcile, ChannelCallFails, TypeInv, TypeOK
<1>3. CASE SweepDecides
  BY <1>3, LedgerKept DEF SweepDecides
<1>4. ASSUME NEW d \in DeviceIds, SweepDestroys(d) PROVE LedgerInv'
  BY <1>4, LedgerWithout
     DEF SweepDestroys, NextDoomed, DriverDestroys, LedgerInv, ServedReconciled
<1>5. ASSUME NEW d \in DeviceIds, SweepFailsToDestroy(d) PROVE LedgerInv'
  BY <1>5, LedgerKept
     DEF SweepFailsToDestroy, NextDoomed, ChannelCallFails, LedgerInv, ServedReconciled
<1>6. CASE SweepSettles
  BY <1>6, LedgerKept DEF SweepSettles, TypeInv, TypeOK
<1> QED
  BY <1>1, <1>2, <1>3, <1>4, <1>5, <1>6 DEF Sweep

LEMMA LedgerServe == ASSUME TypeInv, LedgerInv, Serve PROVE LedgerInv'
<1>1. CASE WaitForPipeClient
  BY <1>1, LedgerKept DEF WaitForPipeClient
<1>2. CASE Respond
  BY <1>2, LedgerKept, LedgerReset, EndRequestSweeps DEF Respond, ChannelCallFails
<1>3. ASSUME NEW c \in Clients, AcceptCreate(c) PROVE LedgerInv'
  BY <1>3, LedgerKept, LedgerReset DEF AcceptCreate
<1>4. CASE AuthorizeLicensed
  BY <1>4, LedgerKept, EndRequestSweeps
     DEF AuthorizeLicensed, LedgerInv, ServedReconciled
<1>5. CASE AuthorizeEvaluation
  BY <1>5, LedgerKept, EndRequestSweeps
     DEF AuthorizeEvaluation, LedgerInv, ServedReconciled
<1>6. CASE EvaluationNotSaved
  BY <1>6, LedgerKept, EndRequestSweeps DEF EvaluationNotSaved
<1>7. CASE LicenseRequired
  BY <1>7, LedgerKept, EndRequestSweeps DEF LicenseRequired
<1>8. CASE DriverCreates
  <2>1. /\ nextId \in DeviceIds /\ nextId' = nextId + 1 /\ pipe = "create"
        /\ UNCHANGED <<reconciled, ledger, epoch>> /\ pipe' = "record"
    BY <1>8 DEF DriverCreates
  <2>2. /\ request'.id = nextId /\ request'.owner = request.owner
        /\ request'.token = request.token
    BY <1>8 DEF DriverCreates, TypeInv, TypeOK, Requests
  <2>3. /\ DOMAIN driver' = DOMAIN driver \cup {nextId}
        /\ \A x \in DOMAIN driver : x # nextId => driver'[x] = driver[x]
        /\ driver'[nextId].owner = request.owner
        /\ driver'[nextId].token = request.token
    BY <1>8 DEF DriverCreates
  <2>4. DOMAIN driver \cup DOMAIN ledger \subseteq Nat /\ nextId \in Nat
    BY BoundsAssumption DEF TypeInv, TypeOK
  <2>5. ServedReconciled' /\ DownForgets'
    BY <2>1 DEF LedgerInv, ServedReconciled, DownForgets
  <2>6. ASSUME epoch' = 0 PROVE KnownIds'
    BY <2>1, <2>2, <2>3, <2>4, <2>6 DEF LedgerInv, KnownIds
  <2>7. ASSUME epoch' = 0, reconciled', NEW d \in DOMAIN driver' PROVE Tracked(d)'
    BY <2>1, <2>2, <2>3, <2>7 DEF LedgerInv, Tracked
  <2> QED
    BY <2>5, <2>6, <2>7 DEF LedgerInv
<1>9. CASE DriverFailsToCreate
  <2>1. nextId \in Int /\ nextId' \in {nextId, nextId + 1}
    BY <1>9 DEF DriverFailsToCreate, TypeInv, TypeOK
  <2>2. DOMAIN driver \cup DOMAIN ledger \subseteq Nat
    BY BoundsAssumption DEF TypeInv, TypeOK
  <2> QED
    BY <1>9, <2>1, <2>2, EndRequestSweeps
       DEF DriverFailsToCreate, LedgerInv, ServedReconciled, KnownIds, Tracked, DownForgets
<1>10. CASE RecordDevice
  <2> DEFINE r == [owner |-> request.owner, token |-> request.token,
                   evaluation |-> request.evaluation,
                   confirmed |-> request.confirmed]
  <2>1. r.owner = request.owner /\ r.token = request.token
    OBVIOUS
  <2>2. /\ ledger' = Emplace(ledger, request.id, r) /\ pipe = "record"
        /\ UNCHANGED <<driver, nextId, epoch, reconciled>> /\ pipe' = "sweep"
    BY <1>10, EndRequestSweeps DEF RecordDevice
  <2> HIDE DEF r
  <2>3. /\ DOMAIN ledger' = DOMAIN ledger \cup {request.id}
        /\ \A x \in DOMAIN ledger : ledger'[x] = ledger[x]
        /\ request.id \notin DOMAIN ledger => ledger'[request.id] = r
    BY <2>2 DEF Emplace
  <2> QED
    BY <2>1, <2>2, <2>3
       DEF LedgerInv, ServedReconciled, KnownIds, Tracked, DownForgets
<1>11. ASSUME NEW d \in DeviceIds, DestroyRequest(d) PROVE LedgerInv'
  BY <1>11, LedgerWithout, EndRequestSweeps DEF DestroyRequest, DriverDestroys
<1>12. ASSUME NEW kind \in LicenseRequests, LicenseRequest(kind) PROVE LedgerInv'
  BY <1>12, LedgerKept DEF LicenseRequest
<1> QED
  BY <1>1, <1>2, <1>3, <1>4, <1>5, <1>6, <1>7, <1>8, <1>9, <1>10, <1>11, <1>12
     DEF Serve

\* The pipe thread does nothing else during its license operation, so the end
\* of one never drops a gamepad that is about to be recorded.
LEMMA LicenseStepNotInRecord ==
  ASSUME LicenseInv, NEW t \in Threads, LicenseStep(t)
  PROVE  UNCHANGED pipeVars \/ (pipe = "license" /\ EndRequest)
<1>1. op[t].step # "idle"
  BY DEF LicenseStep, AcquireOperation, NothingToOperateOn, ServiceUnavailable,
         ServiceInvalidates, ServiceDeactivates, ServiceGrants, SaveFails,
         CommitLicense, DeleteInvalidated, ForgetDeactivated, ScheduleNext
<1> QED
  BY <1>1, LicenseStepDevices DEF LicenseInv, PipeOperates

LEMMA LedgerEnvironment ==
  ASSUME TypeInv, LicenseInv, LedgerInv, Environment
  PROVE  LedgerInv'
<1>1. ASSUME NEW c \in Clients,
             OpenControl(c) \/ CloseControl(c) \/ Exit(c)
      PROVE  LedgerInv'
  BY <1>1, LedgerKept DEF OpenControl, CloseControl, Exit
<1>2. ASSUME NEW c \in Clients, FileCleanup(c) PROVE LedgerInv'
  BY <1>2, LedgerKept DEF FileCleanup
<1>3. CASE DriverRestart
  <2>1. epoch' # 0 /\ UNCHANGED <<pipe, reconciled, ledger>>
    BY <1>3, BoundsAssumption DEF DriverRestart, TypeInv, TypeOK
  <2> QED
    BY <2>1 DEF LedgerInv, ServedReconciled, DownForgets
<1>4. CASE Crash
  <2>1. /\ pipe' = "down" /\ DOMAIN ledger' = {} /\ ~reconciled'
        /\ UNCHANGED <<driver, nextId, epoch>>
    BY <1>4 DEF Crash, ProcessGone
  <2> QED
    BY <2>1 DEF LedgerInv, ServedReconciled, KnownIds, Tracked, DownForgets
<1>5. CASE Start
  BY <1>5, LedgerReset, LedgerKept DEF Start, ChannelCallFails
<1>6. CASE Reboot
  <2>1. /\ pipe' = "down" /\ DOMAIN ledger' = {} /\ ~reconciled'
        /\ DOMAIN driver' = {}
    BY <1>6 DEF Reboot, ProcessGone
  <2> QED
    BY <2>1 DEF LedgerInv, ServedReconciled, KnownIds, Tracked, DownForgets
<1>7. CASE Tick \/ SetWallClock
  BY <1>7, LedgerKept DEF Tick, SetWallClock
<1> QED
  BY <1>1, <1>2, <1>3, <1>4, <1>5, <1>6, <1>7 DEF Environment

LEMMA LedgerNext ==
  TypeInv /\ LicenseInv /\ LedgerInv /\ [Next]_vars => LedgerInv'
<1> SUFFICES ASSUME TypeInv, LicenseInv, LedgerInv, [Next]_vars PROVE LedgerInv'
  OBVIOUS
<1>1. ASSUME NEW t \in Threads, LicenseStep(t) PROVE LedgerInv'
  BY <1>1, LicenseStepDevices, LicenseStepNotInRecord, LedgerKept, EndRequestSweeps
<1>2. CASE ValidationDue
  BY <1>2, LedgerKept DEF ValidationDue
<1>3. CASE UNCHANGED vars
  BY <1>3, LedgerKept DEF vars
<1> QED
  BY <1>1, <1>2, <1>3, LedgerSweep, LedgerServe, LedgerEnvironment DEF Next

\* Until the driver host restarts, no gamepad exists that the reconciled broker
\* does not know with its owner and session token: not after a service restart,
\* not after failed or concurrent destroys, and not between the driver call of
\* a create and its record.
THEOREM NoGamepadIsOrphaned == Spec => []NoOrphanGamepad
<1>1. LedgerInv => NoOrphanGamepad
  BY TrackedAll DEF LedgerInv
<1> QED
  BY <1>1, LicenseInvariant, LedgerInit, LedgerNext, PTL DEF Spec

-----------------------------------------------------------------------------
(* The evaluation window *)

EvaluationCreate ==
  pipe \in {"authorize", "create", "record"} /\ request.evaluation

EvaluationDevices == {d \in DOMAIN ledger : ledger[d].evaluation}

EvaluationInv ==
  /\ window # NoTime => windowFile # NoTime
  /\ EvaluationDevices # {} \/ EvaluationCreate => window # NoTime

LEMMA EvaluationKept ==
  ASSUME EvaluationInv,
         window # NoTime => window' # NoTime,
         window' # NoTime => windowFile' # NoTime,
         EvaluationDevices' \subseteq EvaluationDevices,
         EvaluationCreate' => EvaluationCreate
  PROVE  EvaluationInv'
BY DEF EvaluationInv

LEMMA EvaluationSame ==
  ASSUME EvaluationInv, UNCHANGED windowVars,
         EvaluationDevices' \subseteq EvaluationDevices,
         EvaluationCreate' => EvaluationCreate
  PROVE  EvaluationInv'
BY DEF EvaluationInv, EvaluationDevices, EvaluationCreate

LEMMA DevicesSame == UNCHANGED ledger => EvaluationDevices' = EvaluationDevices
BY DEF EvaluationDevices

LEMMA DevicesNone ==
  ledger' = [d \in {} |-> NoRequest] => EvaluationDevices' = {}
BY DEF EvaluationDevices

LEMMA DevicesWithout ==
  ASSUME NEW d, ledger' = Without(ledger, d)
  PROVE  EvaluationDevices' \subseteq EvaluationDevices
<1>1. DOMAIN ledger' = DOMAIN ledger \ {d}
  BY WithoutRest
<1>2. \A x \in DOMAIN ledger \ {d} : ledger'[x] = ledger[x]
  BY WithoutRest
<1> QED
  BY <1>1, <1>2 DEF EvaluationDevices

LEMMA EvaluationOver ==
  /\ EndRequest => ~EvaluationCreate'
  /\ UNCHANGED pipeVars => EvaluationCreate' = EvaluationCreate
BY DEF EndRequest, EvaluationCreate

LEMMA EvaluationSweep == ASSUME TypeInv, EvaluationInv, Sweep PROVE EvaluationInv'
<1>1. /\ UNCHANGED windowVars
      /\ EvaluationCreate' => EvaluationCreate
  BY DEF Sweep, SweepReconciles, SweepFailsToReconcile, SweepDecides,
         SweepDestroys, SweepFailsToDestroy, NextDoomed, SweepSettles,
         EvaluationCreate, TypeInv, TypeOK
<1>2. \/ UNCHANGED ledger
      \/ ledger' = [d \in {} |-> NoRequest]
      \/ \E d \in DeviceIds : ledger' = Without(ledger, d)
  BY DEF Sweep, SweepReconciles, SweepFailsToReconcile, SweepDecides,
         SweepDestroys, SweepFailsToDestroy, NextDoomed, SweepSettles,
         ResetSucceeds
<1> QED
  BY <1>1, <1>2, EvaluationSame, DevicesSame, DevicesNone, DevicesWithout

LEMMA EvaluationServe == ASSUME TypeInv, EvaluationInv, Serve PROVE EvaluationInv'
<1>1. CASE WaitForPipeClient
  BY <1>1, EvaluationSame, DevicesSame DEF WaitForPipeClient, EvaluationCreate
<1>2. CASE Respond
  BY <1>2, EvaluationSame, DevicesSame, DevicesNone, EvaluationOver
     DEF Respond, ResetSucceeds
<1>3. ASSUME NEW c \in Clients, AcceptCreate(c) PROVE EvaluationInv'
  BY <1>3, EvaluationSame, DevicesSame, DevicesNone
     DEF AcceptCreate, ResetSucceeds, EvaluationCreate, NoRequest
<1>4. CASE AuthorizeLicensed
  <2>1. EvaluationCreate' => EvaluationCreate
    BY <1>4, EvaluationOver
       DEF AuthorizeLicensed, EvaluationCreate, TypeInv, TypeOK, Requests
  <2> QED
    BY <1>4, <2>1, EvaluationSame, DevicesSame DEF AuthorizeLicensed
<1>5. CASE AuthorizeEvaluation
  <2>1. window' # NoTime /\ (EvaluationInv => windowFile' # NoTime)
    BY <1>5 DEF AuthorizeEvaluation, EvaluationInv
  <2> QED
    BY <2>1 DEF EvaluationInv
<1>6. CASE EvaluationNotSaved
  <2>1. window = NoTime /\ window' = NoTime
    BY <1>6 DEF EvaluationNotSaved
  <2> QED
    BY <1>6, <2>1, EvaluationKept, DevicesSame, EvaluationOver DEF EvaluationNotSaved
<1>7. CASE LicenseRequired
  BY <1>7, EvaluationSame, DevicesSame, EvaluationOver DEF LicenseRequired
<1>8. CASE DriverCreates
  <2>1. EvaluationCreate' => EvaluationCreate
    BY <1>8 DEF DriverCreates, EvaluationCreate, TypeInv, TypeOK, Requests
  <2> QED
    BY <1>8, <2>1, EvaluationSame, DevicesSame DEF DriverCreates
<1>9. CASE DriverFailsToCreate
  BY <1>9, EvaluationSame, DevicesSame, EvaluationOver DEF DriverFailsToCreate
<1>10. CASE RecordDevice
  <2> DEFINE r == [owner |-> request.owner, token |-> request.token,
                   evaluation |-> request.evaluation,
                   confirmed |-> request.confirmed]
  <2>1. r.evaluation = request.evaluation
    OBVIOUS
  <2>2. /\ ledger' = Emplace(ledger, request.id, r) /\ pipe = "record"
        /\ UNCHANGED windowVars
    BY <1>10 DEF RecordDevice
  <2> HIDE DEF r
  <2>3. /\ DOMAIN ledger' = DOMAIN ledger \cup {request.id}
        /\ \A x \in DOMAIN ledger : ledger'[x] = ledger[x]
        /\ request.id \notin DOMAIN ledger => ledger'[request.id] = r
    BY <2>2 DEF Emplace
  <2>4. EvaluationDevices' # {} => EvaluationDevices # {} \/ EvaluationCreate
    BY <2>1, <2>2, <2>3 DEF EvaluationDevices, EvaluationCreate
  <2>5. ~EvaluationCreate'
    BY <1>10, EvaluationOver DEF RecordDevice
  <2> QED
    BY <2>2, <2>4, <2>5 DEF EvaluationInv
<1>11. ASSUME NEW d \in DeviceIds, DestroyRequest(d) PROVE EvaluationInv'
  BY <1>11, EvaluationSame, DevicesWithout, EvaluationOver DEF DestroyRequest
<1>12. ASSUME NEW kind \in LicenseRequests, LicenseRequest(kind) PROVE EvaluationInv'
  BY <1>12, EvaluationSame, DevicesSame DEF LicenseRequest, EvaluationCreate
<1> QED
  BY <1>1, <1>2, <1>3, <1>4, <1>5, <1>6, <1>7, <1>8, <1>9, <1>10, <1>11, <1>12
     DEF Serve

LEMMA EvaluationEnvironment ==
  ASSUME TypeInv, LicenseInv, EvaluationInv, Environment
  PROVE  EvaluationInv'
<1>1. CASE Crash \/ Reboot
  BY <1>1, DevicesNone DEF Crash, Reboot, ProcessGone, EvaluationInv, EvaluationCreate
<1>2. CASE Start
  <2>1. EvaluationDevices' = {} /\ ~EvaluationCreate'
    BY <1>2, DevicesNone DEF Start, ResetSucceeds, EvaluationDevices,
       EvaluationCreate, LicenseInv, DownIsEmpty
  <2>2. window' # NoTime => windowFile' # NoTime
    BY <1>2 DEF Start
  <2> QED
    BY <2>1, <2>2 DEF EvaluationInv
<1>3. CASE Tick
  <2>1. /\ window # NoTime <=> window' # NoTime
        /\ windowFile # NoTime <=> windowFile' # NoTime
    BY <1>3, TimesAssumption DEF Tick, Older, TypeInv, TypeOK
  <2> QED
    BY <1>3, <2>1, EvaluationKept, DevicesSame, EvaluationOver
       DEF Tick, EvaluationInv
<1>4. CASE SetWallClock
  <2>1. windowFile' # NoTime /\ (window # NoTime => window' # NoTime)
    BY <1>4, TimesAssumption DEF SetWallClock
  <2> QED
    BY <1>4, <2>1, EvaluationKept, DevicesSame, EvaluationOver DEF SetWallClock
<1>5. CASE Environment /\ UNCHANGED <<windowVars, ledger, pipeVars>>
  BY <1>5, EvaluationSame, DevicesSame, EvaluationOver
<1> QED
  BY <1>1, <1>2, <1>3, <1>4, <1>5
     DEF Environment, OpenControl, CloseControl, Exit, FileCleanup, DriverRestart

LEMMA LicenseStepWindow ==
  ASSUME NEW t \in Threads, LicenseStep(t)
  PROVE  UNCHANGED windowVars
BY DEF LicenseStep, AcquireOperation, NothingToOperateOn, ServiceUnavailable,
       ServiceInvalidates, ServiceDeactivates, ServiceGrants, SaveFails,
       CommitLicense, DeleteInvalidated, ForgetDeactivated, ScheduleNext

LEMMA EvaluationNext ==
  TypeInv /\ LicenseInv /\ EvaluationInv /\ [Next]_vars => EvaluationInv'
<1> SUFFICES ASSUME TypeInv, LicenseInv, EvaluationInv, [Next]_vars
             PROVE  EvaluationInv'
  OBVIOUS
<1>1. ASSUME NEW t \in Threads, LicenseStep(t) PROVE EvaluationInv'
  BY <1>1, LicenseStepWindow, LicenseStepDevices, EvaluationSame, DevicesSame,
     EvaluationOver
<1>2. CASE ValidationDue
  BY <1>2, EvaluationSame, DevicesSame, EvaluationOver DEF ValidationDue
<1>3. CASE UNCHANGED vars
  BY <1>3, EvaluationSame, DevicesSame, EvaluationOver DEF vars
<1> QED
  BY <1>1, <1>2, <1>3, EvaluationSweep, EvaluationServe, EvaluationEnvironment DEF Next

\* No evaluation gamepad is authorized before its window is in the state file,
\* whatever saves fail and wherever the service dies, so that no restart can
\* open a second window.
THEOREM EvaluationWindowIsDurable == Spec => []EvaluationIsDurable
<1>1. Init => EvaluationInv
  BY DEF Init, EvaluationInv, EvaluationDevices, EvaluationCreate
<1>2. EvaluationInv => EvaluationIsDurable
  BY DEF EvaluationInv, EvaluationIsDurable, EvaluationDevices, EvaluationCreate
<1> QED
  BY <1>1, <1>2, EvaluationNext, LicenseInvariant, PTL DEF Spec

-----------------------------------------------------------------------------
(* The gamepad an outage leaves *)

LEMMA Least ==
  ASSUME NEW S \in SUBSET Nat, S # {}
  PROVE  \E x \in S : \A y \in S : ~ (y < x)
<1>1. PICK x \in S : \A y \in S : ~ (<<y, x>> \in OpToRel(<, Nat))
  BY WFMin, NatLessThanWellFounded
<1> QED BY <1>1 DEF OpToRel

(* The first licensed gamepad in id order whose owner lives: no licensed one *)
(* before it stays, so that the limit does not reach it.                     *)
LEMMA FirstStays ==
  ASSUME TypeInv, SweepDecides, ~revoke',
         NEW d \in LicensedDevices, client[ledger[d].owner] # "exited"
  PROVE  LicensedDevices \ doomed' # {}
<1> DEFINE Living == {e \in LicensedDevices : client[ledger[e].owner] # "exited"}
<1>1. Living \in SUBSET Nat /\ Living # {}
  BY BoundsAssumption DEF TypeInv, TypeOK, LicensedDevices
<1> HIDE DEF Living
<1>2. PICK e \in Living : \A f \in Living : ~ (f < e)
  BY <1>1, Least
<1>3. e \in LicensedDevices /\ client[ledger[e].owner] # "exited"
  BY <1>2 DEF Living
<1>4. \A f \in LicensedDevices : ~ShouldGo(f, revoke') => f \in Living
  BY DEF ShouldGo, Living
<1>5. ~ShouldGo(e, revoke')
  BY <1>3 DEF ShouldGo, LicensedDevices
<1>6. ~OverOutageLimit(e, revoke')
  BY <1>2, <1>4 DEF OverOutageLimit
<1>7. e \notin doomed'
  BY <1>5, <1>6 DEF SweepDecides
<1> QED BY <1>3, <1>7

\* While an outage trims the licensed gamepads, a sweep lets one of those whose
\* owner lives stay, however many there are and whichever processes have gone.
THEOREM LastGamepadStays == Spec => OutageKeepsOne
<1>1. TypeInv /\ [Next]_vars =>
        [SweepDecides /\ ~revoke'
           /\ (\E d \in LicensedDevices : client[ledger[d].owner] # "exited")
         => LicensedDevices \ doomed' # {}]_vars
  BY FirstStays
<1> QED
  BY <1>1, TypeInit, TypeNext, PTL DEF Spec, OutageKeepsOne
=============================================================================
