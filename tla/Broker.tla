------------------------------- MODULE Broker -------------------------------
(***************************************************************************)
(* The Windows broker service                                              *)
(* (src/platform/windows/broker/libvirtualhid_broker.cpp): one process     *)
(* with two threads.  The pipe thread sweeps the device ledger and serves  *)
(* one client request at a time; the validator thread re-validates the     *)
(* machine license.  Both run license operations, serialized by            *)
(* license_operation_mutex_; the rest of the state is under mutex_, and    *)
(* every action below is one critical section of mutex_ or one unlocked    *)
(* call between two of them (a driver IOCTL, a file write, an HTTP call).  *)
(*                                                                         *)
(* Times are kept as ages and countdowns, in ticks, saturated at the       *)
(* largest interval the code compares them with.                           *)
(***************************************************************************)
EXTENDS Integers, FiniteSets

CONSTANTS
  Clients,            \* processes that use the library
  NoClient,           \* "no request in progress"
  LicenseRequests,    \* bound: the license operations clients ask for
  Plans,              \* the allow-listed license benefits that can be granted
  MaxDevices,         \* bound: gamepads created per driver life
  MaxDriverRestarts,  \* bound: times the driver host restarts under a running broker
  RetryInterval,      \* license_validation_retry_interval
  ValidationInterval, \* license_validation_interval
  OutageRetention,    \* license_outage_device_retention
  EvaluationWindow,   \* github_actions_evaluation::duration
  GitHubActions       \* the service runs with the GITHUB_ACTIONS marker

ASSUME ClientsAssumption == NoClient \notin Clients
ASSUME PlansAssumption == Plans \subseteq {"lifetime", "yearly"}
ASSUME BoundsAssumption ==
  /\ LicenseRequests \subseteq {"validate", "activate", "deactivate"}
  /\ MaxDevices \in Nat \ {0}
  /\ MaxDriverRestarts \in Nat
ASSUME TimesAssumption ==
  /\ RetryInterval \in Nat \ {0}
  /\ OutageRetention \in Nat \ {0}
  /\ ValidationInterval \in Nat \ {0}
  /\ EvaluationWindow \in Nat \ {0}
  /\ RetryInterval < ValidationInterval
ASSUME GitHubActionsAssumption == GitHubActions \in BOOLEAN

SubscriptionMaxAge == ValidationInterval + OutageRetention
NoTime == -1
DeviceIds == 1..MaxDevices
Threads == {"pipe", "validator"}
OtherThread(t) == IF t = "pipe" THEN "validator" ELSE "pipe"

NoLicense == [plan |-> "none", anchored |-> FALSE, age |-> 0]
NoRequest == [owner |-> NoClient, token |-> 0, evaluation |-> FALSE,
              confirmed |-> FALSE, id |-> 0]
Idle == [kind |-> "validate", step |-> "idle", ok |-> FALSE]

VARIABLES
  pipe,        \* where the pipe thread is
  after,       \* where it continues after cleanup_devices
  doomed,      \* cleanup_requests not handled yet
  request,     \* the create request being served
  op,          \* the license operation of each thread
  license,     \* license_state_
  online,      \* license_online_confirmed_
  outage,      \* time since license_validation_unavailable_since_
  next,        \* time until next_license_validation_attempt_
  disk,        \* license.dat
  revoke,      \* revoke_licensed_devices_
  reconciled,  \* driver_state_reconciled_
  ledger,      \* devices_
  window,      \* time since github_actions_evaluation_state_->started_at
  windowFile,  \* the same in the evaluation state file
  driver,      \* the gamepads that exist in the driver
  nextId,      \* next_driver_device_id of the driver
  epoch,       \* driver lives; session tokens of different lives differ
  channel,     \* DriverChannel::handle_
  client       \* each client process and its control handle

pipeVars == <<pipe, after, doomed, request>>
licenseVars == <<license, online, outage, next, disk>>
deviceVars == <<revoke, reconciled, ledger>>
windowVars == <<window, windowFile>>
driverVars == <<driver, nextId, epoch, channel>>
vars == <<pipeVars, op, licenseVars, deviceVars, windowVars, driverVars, client>>

-----------------------------------------------------------------------------
(* Helpers *)

Without(f, d) == [x \in DOMAIN f \ {d} |-> f[x]]

\* std::map::try_emplace: an entry already there stays.
Emplace(f, d, r) ==
  [x \in DOMAIN f \cup {d} |-> IF x \in DOMAIN f THEN f[x] ELSE r]

LicensedDevices == {d \in DOMAIN ledger : ~ledger[d].evaluation}

\* license_authorization_is_current_locked
Current(l) ==
  \/ l.plan = "lifetime"
  \/ l.plan = "yearly" /\ l.anchored /\ l.age < SubscriptionMaxAge

\* subscription_validation_has_elapsed_locked
SubscriptionElapsed(l) ==
  l.plan = "yearly" /\ l.anchored /\ l.age >= SubscriptionMaxAge

\* github_actions_evaluation::active; EvaluationWindow stands for every wall
\* clock outside the window, before its start as well as after its end.
WindowActive(w) == w # NoTime /\ w < EvaluationWindow

\* Does the broker hold a duplicate of c's control handle?
HoldsHandle(c) ==
  pipe \in {"authorize", "create", "record"} /\ request.owner = c

Older(age, limit) == IF age = NoTime \/ age = limit THEN age ELSE age + 1
\* Only a subscription anchored in this boot session has an age.
Aged(l) == IF l.plan = "yearly" /\ l.anchored
             THEN [l EXCEPT !.age = Older(l.age, SubscriptionMaxAge)]
             ELSE l

-----------------------------------------------------------------------------
(* States *)

LicenseStates ==
  [plan : Plans \cup {"none"}, anchored : BOOLEAN, age : 0..SubscriptionMaxAge]

Requests ==
  [owner : Clients \cup {NoClient}, token : Nat, evaluation : BOOLEAN,
   confirmed : BOOLEAN, id : 0..MaxDevices]

Operations ==
  [kind : {"validate", "activate", "deactivate"},
   step : {"idle", "lock", "http", "delete", "forget", "commit", "schedule"},
   ok : BOOLEAN]

Gamepads == [owner : Clients, token : Nat]

DeviceRecords ==
  [owner : Clients, token : Nat, evaluation : BOOLEAN, confirmed : BOOLEAN]

TypeOK ==
  /\ pipe \in {"down", "wait", "sweep", "destroy", "read", "authorize",
               "create", "record", "license"}
  /\ after \in {"wait", "read"}
  /\ doomed \subseteq DeviceIds
  /\ request \in Requests
  /\ op \in [Threads -> Operations]
  /\ license \in LicenseStates
  /\ disk \in LicenseStates
  /\ online \in BOOLEAN
  /\ outage \in 0..OutageRetention \cup {NoTime}
  /\ next \in 0..ValidationInterval \cup {NoTime}
  /\ revoke \in BOOLEAN
  /\ reconciled \in BOOLEAN
  /\ DOMAIN ledger \subseteq DeviceIds
  /\ ledger \in [DOMAIN ledger -> DeviceRecords]
  /\ window \in 0..EvaluationWindow \cup {NoTime}
  /\ windowFile \in 0..EvaluationWindow \cup {NoTime}
  /\ DOMAIN driver \subseteq DeviceIds
  /\ driver \in [DOMAIN driver -> Gamepads]
  /\ nextId \in 1..(MaxDevices + 1)
  /\ epoch \in 0..MaxDriverRestarts
  /\ channel \in {"closed", "open", "stale"}
  /\ client \in [Clients -> {"attached", "detached", "exited"}]

\* A machine on which the service has never run.
Init ==
  /\ pipe = "down" /\ after = "wait" /\ doomed = {} /\ request = NoRequest
  /\ op = [t \in Threads |-> Idle]
  /\ license = NoLicense /\ disk = NoLicense
  /\ online = FALSE /\ outage = NoTime /\ next = NoTime
  /\ revoke = FALSE /\ reconciled = FALSE
  /\ ledger = [d \in {} |-> NoRequest]
  /\ window = NoTime /\ windowFile = NoTime
  /\ driver = [d \in {} |-> NoRequest]
  /\ nextId = 1 /\ epoch = 0 /\ channel = "closed"
  /\ client = [c \in Clients |-> "detached"]

-----------------------------------------------------------------------------
(* The driver, as the broker's calls see it *)

\* handle_reset_devices_request through a handle that still works.
ResetSucceeds ==
  /\ channel # "stale"
  /\ channel' = "open"
  /\ driver' = [d \in {} |-> NoRequest]
  /\ ledger' = [d \in {} |-> NoRequest]
  /\ reconciled' = TRUE
  /\ UNCHANGED <<nextId, epoch, revoke>>

\* A failed call may still have opened the control device.
ChannelCallFails ==
  /\ channel' \in {channel} \cup (IF channel = "closed" THEN {"open"} ELSE {})
  /\ UNCHANGED <<driver, nextId, epoch>>

\* handle_destroy_device_request: a missing device counts as destroyed, a
\* wrong session token is refused.
DriverDestroys(d, token) ==
  /\ channel # "stale"
  /\ d \in DOMAIN driver => driver[d].token = token
  /\ channel' = "open"
  /\ driver' = Without(driver, d)
  /\ UNCHANGED <<nextId, epoch>>

\* The driver host dies and comes back: its gamepads are gone, ids start over,
\* and every control handle opened before is dead.
DriverRestart ==
  /\ epoch < MaxDriverRestarts
  /\ epoch' = epoch + 1
  /\ driver' = [d \in {} |-> NoRequest]
  /\ nextId' = 1
  /\ channel' = IF channel = "open" THEN "stale" ELSE channel
  /\ client' = [c \in Clients |->
                  IF client[c] = "attached" THEN "detached" ELSE client[c]]
  /\ UNCHANGED <<pipeVars, op, licenseVars, deviceVars, windowVars>>

-----------------------------------------------------------------------------
(* Client processes *)

OpenControl(c) ==
  /\ client[c] = "detached"
  /\ ~HoldsHandle(c)
  /\ \A d \in DOMAIN driver : driver[d].owner # c
  /\ client' = [client EXCEPT ![c] = "attached"]
  /\ UNCHANGED <<pipeVars, op, licenseVars, deviceVars, windowVars, driverVars>>

CloseControl(c) ==
  /\ client[c] = "attached"
  /\ client' = [client EXCEPT ![c] = "detached"]
  /\ UNCHANGED <<pipeVars, op, licenseVars, deviceVars, windowVars, driverVars>>

Exit(c) ==
  /\ client[c] # "exited"
  /\ client' = [client EXCEPT ![c] = "exited"]
  /\ UNCHANGED <<pipeVars, op, licenseVars, deviceVars, windowVars, driverVars>>

\* LvhEvtFileCleanup: the last handle of c's control file is closed.
FileCleanup(c) ==
  /\ client[c] # "attached"
  /\ ~HoldsHandle(c)
  /\ \E d \in DOMAIN driver : driver[d].owner = c
  /\ driver' = [d \in {e \in DOMAIN driver : driver[e].owner # c} |-> driver[d]]
  /\ UNCHANGED <<pipeVars, op, licenseVars, deviceVars, windowVars,
                 nextId, epoch, channel, client>>

-----------------------------------------------------------------------------
(* The pipe thread: run_broker_loop and cleanup_devices *)

\* The request is answered; the loop starts over with a sweep.
EndRequest ==
  /\ pipe' = "sweep"
  /\ after' = "wait"
  /\ doomed' = {}
  /\ request' = NoRequest

\* wait_for_pipe_client times out or accepts a client; both sweep again.
WaitForPipeClient ==
  /\ pipe = "wait"
  /\ pipe' = "sweep"
  /\ after' \in {"wait", "read"}
  /\ UNCHANGED <<doomed, request, op, licenseVars, deviceVars, windowVars,
                 driverVars, client>>

SweepReconciles ==
  /\ pipe = "sweep"
  /\ ~reconciled
  /\ ResetSucceeds
  /\ UNCHANGED <<pipeVars, op, licenseVars, windowVars, client>>

SweepFailsToReconcile ==
  /\ pipe = "sweep"
  /\ ~reconciled
  /\ ChannelCallFails
  /\ pipe' = after
  /\ UNCHANGED <<after, doomed, request, op, licenseVars, deviceVars,
                 windowVars, client>>

EvaluationExpired ==
  /\ GitHubActions
  /\ window # NoTime
  /\ ~Current(license)
  /\ ~WindowActive(window)

\* Mutant: the end of the evaluation window is not enforced on what exists.
ShouldGoIgnoringWindow(d, revoking) ==
  \/ client[ledger[d].owner] = "exited"
  \/ revoking /\ ~ledger[d].evaluation

\* broker_device_should_be_revoked, or the owner process is gone
ShouldGo(d, revoking) ==
  \/ client[ledger[d].owner] = "exited"
  \/ EvaluationExpired /\ ledger[d].evaluation
  \/ revoking /\ ~ledger[d].evaluation

\* Mutant: a gamepad counts itself among the kept ones.
OverOutageLimitCountingSelf(d, revoking) ==
  /\ outage = OutageRetention
  /\ ~ledger[d].evaluation
  /\ \E e \in LicensedDevices : e <= d /\ ~ShouldGo(e, revoking)

\* Mutant: two gamepads are kept.
OverOutageLimitOfTwo(d, revoking) ==
  /\ outage = OutageRetention
  /\ ~ledger[d].evaluation
  /\ Cardinality({e \in LicensedDevices : e < d /\ ~ShouldGo(e, revoking)}) > 1

\* license_outage_gamepad_should_be_revoked, over the map in id order: every
\* licensed gamepad behind the first one that stays.
OverOutageLimit(d, revoking) ==
  /\ outage = OutageRetention
  /\ ~ledger[d].evaluation
  /\ \E e \in LicensedDevices : e < d /\ ~ShouldGo(e, revoking)

\* Mutant: an elapsed subscription revokes nothing that exists.
SweepDecidesIgnoringAge ==
  /\ pipe = "sweep"
  /\ reconciled
  /\ doomed' = {d \in DOMAIN ledger :
                  ShouldGo(d, revoke) \/ OverOutageLimit(d, revoke)}
  /\ pipe' = "destroy"
  /\ UNCHANGED <<after, request, op, licenseVars, deviceVars, windowVars,
                 driverVars, client>>

SweepDecides ==
  /\ pipe = "sweep"
  /\ reconciled
  /\ revoke' = (revoke \/ SubscriptionElapsed(license))
  /\ doomed' = {d \in DOMAIN ledger :
                  ShouldGo(d, revoke') \/ OverOutageLimit(d, revoke')}
  /\ pipe' = "destroy"
  /\ UNCHANGED <<after, request, op, licenseVars, reconciled, ledger,
                 windowVars, driverVars, client>>

NextDoomed(d) ==
  /\ pipe = "destroy"
  /\ d \in doomed
  /\ \A e \in doomed : d <= e
  /\ doomed' = doomed \ {d}
  /\ UNCHANGED <<pipe, after, request, op, licenseVars, revoke, reconciled,
                 windowVars, client>>

\* destroy_cleanup_candidates: only a destroyed gamepad is forgotten.
SweepDestroys(d) ==
  /\ NextDoomed(d)
  /\ DriverDestroys(d, ledger[d].token)
  /\ ledger' = Without(ledger, d)

\* Mutant: a gamepad is forgotten although its destruction failed.
SweepForgetsUndestroyed(d) ==
  /\ NextDoomed(d)
  /\ ChannelCallFails
  /\ ledger' = Without(ledger, d)

SweepFailsToDestroy(d) ==
  /\ NextDoomed(d)
  /\ ChannelCallFails
  /\ UNCHANGED ledger

\* Mutant: every sweep ends the revocation.
SweepSettlesAlways ==
  /\ pipe = "destroy"
  /\ doomed = {}
  /\ revoke' = FALSE
  /\ pipe' = after
  /\ UNCHANGED <<after, doomed, request, op, licenseVars, reconciled, ledger,
                 windowVars, driverVars, client>>

SweepSettles ==
  /\ pipe = "destroy"
  /\ doomed = {}
  /\ revoke' = (revoke /\ LicensedDevices # {})
  /\ pipe' = after
  /\ UNCHANGED <<after, doomed, request, op, licenseVars, reconciled, ledger,
                 windowVars, driverVars, client>>

-----------------------------------------------------------------------------
(* The pipe thread: handle_pipe_client *)

\* Every answer without an effect on gamepads or license: status, a malformed or
\* refused request, a destroy of an unknown device, a driver call that failed, a
\* create whose client is gone before its handle is duplicated.
Respond ==
  /\ pipe = "read"
  /\ EndRequest
  /\ \/ UNCHANGED <<deviceVars, driverVars>>
     \/ ChannelCallFails /\ UNCHANGED deviceVars
     \/ ~reconciled /\ ResetSucceeds
  /\ UNCHANGED <<op, licenseVars, windowVars, client>>

\* handle_create up to the duplicated control handle.
AcceptCreate(c) ==
  /\ pipe = "read"
  /\ client[c] = "attached"
  /\ \/ reconciled /\ UNCHANGED <<deviceVars, driverVars>>
     \/ ~reconciled /\ ResetSucceeds
  /\ pipe' = "authorize"
  /\ request' = [NoRequest EXCEPT !.owner = c, !.token = epoch]
  /\ UNCHANGED <<after, doomed, op, licenseVars, windowVars, client>>

\* Mutant: the unvalidated limit is one too high.
AuthorizeLicensedOffByOne ==
  /\ pipe = "authorize"
  /\ license.plan # "none"
  /\ IF Current(license) /\ (online \/ Cardinality(LicensedDevices) <= 1)
       THEN /\ pipe' = "create"
            /\ request' = [request EXCEPT !.confirmed = online]
            /\ UNCHANGED <<after, doomed>>
       ELSE EndRequest
  /\ UNCHANGED <<op, licenseVars, deviceVars, windowVars, driverVars, client>>

\* authorize_gamepad_create under a license: confirmed online, or the one
\* unvalidated gamepad.
AuthorizeLicensed ==
  /\ pipe = "authorize"
  /\ license.plan # "none"
  /\ IF Current(license) /\ (online \/ LicensedDevices = {})
       THEN /\ pipe' = "create"
            /\ request' = [request EXCEPT !.confirmed = online]
            /\ UNCHANGED <<after, doomed>>
       ELSE EndRequest
  /\ UNCHANGED <<op, licenseVars, deviceVars, windowVars, driverVars, client>>

\* authorize_gamepad_create without a license: the first attempt of a CI
\* service starts, and saves, the evaluation window.
AuthorizeEvaluation ==
  /\ pipe = "authorize"
  /\ license.plan = "none"
  /\ GitHubActions
  /\ \/ window = NoTime /\ window' = 0 /\ windowFile' = 0
     \/ window # NoTime /\ UNCHANGED windowVars
  /\ IF WindowActive(window')
       THEN /\ pipe' = "create"
            /\ request' = [request EXCEPT !.evaluation = TRUE]
            /\ UNCHANGED <<after, doomed>>
       ELSE EndRequest
  /\ UNCHANGED <<op, licenseVars, deviceVars, driverVars, client>>

\* Mutant: the create goes on although the window is not saved.
EvaluationNotSavedButStarted ==
  /\ pipe = "authorize"
  /\ license.plan = "none"
  /\ GitHubActions
  /\ window = NoTime
  /\ windowFile' \in {windowFile, NoTime, 0}
  /\ window' = 0
  /\ pipe' = "create"
  /\ request' = [request EXCEPT !.evaluation = TRUE]
  /\ UNCHANGED <<after, doomed, op, licenseVars, deviceVars, driverVars, client>>

\* The evaluation state is not saved: the file may be old, truncated or new.
EvaluationNotSaved ==
  /\ pipe = "authorize"
  /\ license.plan = "none"
  /\ GitHubActions
  /\ window = NoTime
  /\ windowFile' \in {windowFile, NoTime, 0}
  /\ EndRequest
  /\ UNCHANGED <<op, licenseVars, deviceVars, window, driverVars, client>>

LicenseRequired ==
  /\ pipe = "authorize"
  /\ license.plan = "none"
  /\ ~GitHubActions
  /\ EndRequest
  /\ UNCHANGED <<op, licenseVars, deviceVars, windowVars, driverVars, client>>

\* The create IOCTL, sent through the client's control handle.
DriverCreates ==
  /\ pipe = "create"
  /\ request.token = epoch
  /\ nextId \in DeviceIds
  /\ driver' = [d \in DOMAIN driver \cup {nextId} |->
                  IF d = nextId
                    THEN [owner |-> request.owner, token |-> epoch]
                    ELSE driver[d]]
  /\ nextId' = nextId + 1
  /\ request' = [request EXCEPT !.id = nextId]
  /\ pipe' = "record"
  /\ UNCHANGED <<after, doomed, op, licenseVars, deviceVars, windowVars,
                 epoch, channel, client>>

DriverFailsToCreate ==
  /\ pipe = "create"
  /\ EndRequest
  /\ nextId' \in {nextId, IF nextId \in DeviceIds THEN nextId + 1 ELSE nextId}
  /\ UNCHANGED <<op, licenseVars, deviceVars, windowVars, driver, epoch,
                 channel, client>>

\* Mutant: the request is released before its device is recorded.
RecordDeviceAfterRelease ==
  /\ pipe = "record"
  /\ EndRequest
  /\ ledger' = Emplace(ledger, request'.id,
                 [owner |-> request'.owner, token |-> request'.token,
                  evaluation |-> request'.evaluation,
                  confirmed |-> request'.confirmed])
  /\ UNCHANGED <<op, licenseVars, revoke, reconciled, windowVars, driverVars,
                 client>>

RecordDevice ==
  /\ pipe = "record"
  /\ ledger' = Emplace(ledger, request.id,
                 [owner |-> request.owner, token |-> request.token,
                  evaluation |-> request.evaluation,
                  confirmed |-> request.confirmed])
  /\ EndRequest
  /\ UNCHANGED <<op, licenseVars, revoke, reconciled, windowVars, driverVars,
                 client>>

\* handle_destroy of a device in the ledger, with its session token.
DestroyRequest(d) ==
  /\ pipe = "read"
  /\ d \in DOMAIN ledger
  /\ DriverDestroys(d, ledger[d].token)
  /\ ledger' = Without(ledger, d)
  /\ EndRequest
  /\ UNCHANGED <<op, licenseVars, revoke, reconciled, windowVars, client>>

LicenseRequest(kind) ==
  /\ pipe = "read"
  /\ pipe' = "license"
  /\ op' = [op EXCEPT !["pipe"] = [kind |-> kind, step |-> "lock", ok |-> FALSE]]
  /\ UNCHANGED <<after, doomed, request, licenseVars, deviceVars, windowVars,
                 driverVars, client>>

-----------------------------------------------------------------------------
(* License operations, on either thread *)

Goto(t, step) == op' = [op EXCEPT ![t].step = step]

Finish(t) ==
  /\ op' = [op EXCEPT ![t] = Idle]
  /\ IF t = "pipe" THEN EndRequest ELSE UNCHANGED pipeVars

\* validate_saved_license returns; license_operation_mutex_ is released and
\* the caller still has to schedule the next attempt.
ReturnStatus(t, ok) == op' = [op EXCEPT ![t].step = "schedule", ![t].ok = ok]

\* license_operation_mutex_ is held from the first step after "lock" on.
Holds(t) == op[t].step \in {"http", "delete", "forget", "commit"}

AcquireOperation(t) ==
  /\ op[t].step = "lock"
  /\ ~Holds(OtherThread(t))
  /\ op[t].kind = "activate" \/ license.plan # "none"
  /\ Goto(t, "http")
  /\ UNCHANGED <<pipeVars, licenseVars, deviceVars, windowVars, driverVars,
                 client>>

NothingToOperateOn(t) ==
  /\ op[t].step = "lock"
  /\ ~Holds(OtherThread(t))
  /\ op[t].kind # "activate"
  /\ license.plan = "none"
  /\ IF op[t].kind = "validate"
       THEN ReturnStatus(t, FALSE) /\ UNCHANGED pipeVars
       ELSE Finish(t)
  /\ UNCHANGED <<licenseVars, deviceVars, windowVars, driverVars, client>>

MarkUnavailable ==
  /\ online' = (online /\ license.plan = "none")
  /\ outage' = IF outage = NoTime /\ license.plan # "none" THEN 0 ELSE outage

\* invalidate_license and the locked part of handle_deactivate_license.
ForgetLicense ==
  /\ license' = NoLicense
  /\ online' = FALSE
  /\ outage' = NoTime
  /\ next' = NoTime
  /\ revoke' = TRUE

\* No transport, an HTTP error that decides nothing, an unusable answer.
ServiceUnavailable(t) ==
  /\ op[t].step = "http"
  /\ IF op[t].kind = "validate"
       THEN MarkUnavailable /\ ReturnStatus(t, FALSE) /\ UNCHANGED pipeVars
       ELSE Finish(t) /\ UNCHANGED <<online, outage>>
  /\ UNCHANGED <<license, next, disk, deviceVars, windowVars, driverVars,
                 client>>

\* Validate: missing, mismatched, not granted or not allowed.  Deactivate: the
\* activation was already absent.
ServiceInvalidates(t) ==
  /\ op[t].step = "http"
  /\ op[t].kind \in {"validate", "deactivate"}
  /\ ForgetLicense
  /\ Goto(t, "delete")
  /\ UNCHANGED <<pipeVars, disk, reconciled, ledger, windowVars, driverVars,
                 client>>

\* Activate or validate: granted for an allowed benefit, and saved.
ServiceGrants(t, plan) ==
  /\ op[t].step = "http"
  /\ op[t].kind \in {"validate", "activate"}
  /\ disk' = [plan |-> plan, anchored |-> TRUE, age |-> 0]
  /\ Goto(t, "commit")
  /\ UNCHANGED <<pipeVars, license, online, outage, next, deviceVars,
                 windowVars, driverVars, client>>

\* Granted but not saved: the file may be old, truncated or new.
SaveFails(t, plan) ==
  /\ op[t].step = "http"
  /\ op[t].kind \in {"validate", "activate"}
  /\ disk' \in {disk, NoLicense, [plan |-> plan, anchored |-> TRUE, age |-> 0]}
  /\ IF op[t].kind = "validate"
       THEN MarkUnavailable /\ ReturnStatus(t, FALSE) /\ UNCHANGED pipeVars
       ELSE Finish(t) /\ UNCHANGED <<online, outage>>
  /\ UNCHANGED <<license, next, deviceVars, windowVars, driverVars, client>>

\* Mutant: activation does not schedule the first validation.
CommitLicenseUnscheduled(t) ==
  /\ op[t].step = "commit"
  /\ license' = disk
  /\ online' = TRUE
  /\ outage' = NoTime
  /\ UNCHANGED next
  /\ IF op[t].kind = "activate"
       THEN Finish(t)
       ELSE ReturnStatus(t, TRUE) /\ UNCHANGED pipeVars
  /\ UNCHANGED <<disk, deviceVars, windowVars, driverVars, client>>

\* The saved authorization becomes the one in use.  Activation also schedules
\* the next validation, in the same critical section.
CommitLicense(t) ==
  /\ op[t].step = "commit"
  /\ license' = disk
  /\ online' = TRUE
  /\ outage' = NoTime
  /\ IF op[t].kind = "activate"
       THEN next' = ValidationInterval /\ Finish(t)
       ELSE UNCHANGED next /\ ReturnStatus(t, TRUE) /\ UNCHANGED pipeVars
  /\ UNCHANGED <<disk, deviceVars, windowVars, driverVars, client>>

\* delete_license_state after invalidate_license; remove() may fail silently.
DeleteInvalidated(t) ==
  /\ op[t].step = "delete"
  /\ disk' \in {disk, NoLicense}
  /\ IF op[t].kind = "validate"
       THEN ReturnStatus(t, FALSE) /\ UNCHANGED pipeVars
       ELSE Finish(t)
  /\ UNCHANGED <<license, online, outage, next, deviceVars, windowVars,
                 driverVars, client>>

\* Deactivation deletes the file first and then forgets the license.
ServiceDeactivates(t) ==
  /\ op[t].step = "http"
  /\ op[t].kind = "deactivate"
  /\ disk' \in {disk, NoLicense}
  /\ Goto(t, "forget")
  /\ UNCHANGED <<pipeVars, license, online, outage, next, deviceVars,
                 windowVars, driverVars, client>>

ForgetDeactivated(t) ==
  /\ op[t].step = "forget"
  /\ ForgetLicense
  /\ Finish(t)
  /\ UNCHANGED <<disk, reconciled, ledger, windowVars, driverVars, client>>

\* schedule_after_license_validation
ScheduleNext(t) ==
  /\ op[t].step = "schedule"
  /\ next' = IF license.plan = "none" THEN NoTime
             ELSE IF op[t].ok THEN ValidationInterval ELSE RetryInterval
  /\ Finish(t)
  /\ UNCHANGED <<license, online, outage, disk, deviceVars, windowVars,
                 driverVars, client>>

\* license_validation_loop finds a validation due.
ValidationDue ==
  /\ pipe # "down"
  /\ op["validator"].step = "idle"
  /\ license.plan # "none"
  /\ next = 0
  /\ next' = RetryInterval
  /\ op' = [op EXCEPT !["validator"] =
              [kind |-> "validate", step |-> "lock", ok |-> FALSE]]
  /\ UNCHANGED <<pipeVars, license, online, outage, disk, deviceVars,
                 windowVars, driverVars, client>>

-----------------------------------------------------------------------------
(* The process and the machine *)

ProcessGone ==
  /\ pipe' = "down" /\ after' = "wait" /\ doomed' = {} /\ request' = NoRequest
  /\ op' = [t \in Threads |-> Idle]
  /\ license' = NoLicense /\ online' = FALSE /\ outage' = NoTime /\ next' = NoTime
  /\ revoke' = FALSE /\ reconciled' = FALSE /\ ledger' = [d \in {} |-> NoRequest]
  /\ window' = NoTime
  /\ channel' = "closed"

\* The service stops or dies, at any point.  (Dying in the middle of a save is
\* SaveFails or EvaluationNotSaved followed by this step.)
Crash ==
  /\ pipe # "down"
  /\ ProcessGone
  /\ UNCHANGED <<disk, windowFile, driver, nextId, epoch, client>>

\* BrokerState::BrokerState: reset the driver (the result is ignored), load
\* the saved states, and make a saved license due for validation at once.
Start ==
  /\ pipe = "down"
  /\ pipe' = "sweep"
  /\ \/ ResetSucceeds
     \/ ChannelCallFails /\ UNCHANGED deviceVars
  /\ license' = disk
  /\ next' = IF disk.plan = "none" THEN NoTime ELSE 0
  /\ window' = IF GitHubActions THEN windowFile ELSE NoTime
  /\ UNCHANGED <<after, doomed, request, op, online, outage, disk, windowFile,
                 client>>

\* Windows restarts: the boot marker changes and every process is gone.
Reboot ==
  /\ ProcessGone
  /\ disk' = [disk EXCEPT !.anchored = FALSE, !.age = 0]
  /\ driver' = [d \in {} |-> NoRequest]
  /\ nextId' = 1
  /\ client' = [c \in Clients |-> "detached"]
  /\ UNCHANGED <<windowFile, epoch>>

Tick ==
  /\ outage' = Older(outage, OutageRetention)
  /\ next' = IF next > 0 THEN next - 1 ELSE next
  /\ license' = Aged(license)
  /\ disk' = Aged(disk)
  /\ window' = Older(window, EvaluationWindow)
  /\ windowFile' = Older(windowFile, EvaluationWindow)
  /\ UNCHANGED <<pipeVars, op, online, deviceVars, driverVars, client>>

\* The wall clock, which only the evaluation window uses, is set.
SetWallClock ==
  /\ GitHubActions
  /\ windowFile # NoTime
  /\ windowFile' \in 0..EvaluationWindow
  /\ window' = IF window = NoTime THEN NoTime ELSE windowFile'
  /\ UNCHANGED <<pipeVars, op, licenseVars, deviceVars, driverVars, client>>

-----------------------------------------------------------------------------
LicenseStep(t) ==
  \/ AcquireOperation(t)
  \/ NothingToOperateOn(t)
  \/ ServiceUnavailable(t)
  \/ ServiceInvalidates(t)
  \/ ServiceDeactivates(t)
  \/ \E plan \in Plans : ServiceGrants(t, plan) \/ SaveFails(t, plan)
  \/ CommitLicense(t)
  \/ DeleteInvalidated(t)
  \/ ForgetDeactivated(t)
  \/ ScheduleNext(t)

Sweep ==
  \/ SweepReconciles
  \/ SweepFailsToReconcile
  \/ SweepDecides
  \/ \E d \in DeviceIds : SweepDestroys(d) \/ SweepFailsToDestroy(d)
  \/ SweepSettles

Serve ==
  \/ WaitForPipeClient
  \/ Respond
  \/ \E c \in Clients : AcceptCreate(c)
  \/ AuthorizeLicensed
  \/ AuthorizeEvaluation
  \/ EvaluationNotSaved
  \/ LicenseRequired
  \/ DriverCreates
  \/ DriverFailsToCreate
  \/ RecordDevice
  \/ \E d \in DeviceIds : DestroyRequest(d)
  \/ \E kind \in LicenseRequests : LicenseRequest(kind)

Environment ==
  \/ \E c \in Clients :
       OpenControl(c) \/ CloseControl(c) \/ Exit(c) \/ FileCleanup(c)
  \/ DriverRestart
  \/ Crash
  \/ Start
  \/ Reboot
  \/ Tick
  \/ SetWallClock

Next ==
  \/ Sweep
  \/ Serve
  \/ \E t \in Threads : LicenseStep(t)
  \/ ValidationDue
  \/ Environment

Spec == Init /\ [][Next]_vars

-----------------------------------------------------------------------------
(* Safety *)

\* The gamepads of a licensed create, from its authorization on.
LicensedCreate == pipe \in {"create", "record"} /\ ~request.evaluation

\* A licensed gamepad without a license is always due for removal: whenever
\* the license is gone while licensed gamepads are in the ledger, or one is
\* being created, revoke_licensed_devices_ is set and stays set until none is
\* left.  About invalidation on the validator thread between the authorization
\* of a create and its record, and between the steps of a sweep.
RevocationPending ==
  license.plan = "none" /\ (LicensedDevices # {} \/ LicensedCreate) => revoke

\* Every gamepad that exists is known to the running broker: in the ledger
\* with its owner and session token, or in the create being served.  About the
\* reset after a restart, failed destroys that must stay in the ledger, and
\* the order of driver call and ledger update.
NoOrphanGamepad ==
  reconciled /\ epoch = 0 =>
    \A d \in DOMAIN driver :
      \/ /\ d \in DOMAIN ledger
         /\ ledger[d].owner = driver[d].owner
         /\ ledger[d].token = driver[d].token
      \/ pipe = "record" /\ request.id = d

Unconfirmed == {d \in LicensedDevices : ~ledger[d].confirmed}

\* At most one licensed gamepad was authorized without an online confirmation,
\* counting the one being created.  About the count taken at authorization
\* and the ledger entry made only after an unlocked driver call.
UnconfirmedCap ==
  /\ \A d, e \in Unconfirmed : d = e
  /\ LicensedCreate /\ ~request.confirmed => Unconfirmed = {}

\* A license in use always has a next validation, and without one there is
\* neither an online confirmation nor an outage.  About three writers of the
\* schedule (activation, the validator, an explicit validation) that run on two
\* threads, one of them outside the operation mutex.
ValidationScheduled ==
  IF license.plan = "none"
    THEN next = NoTime /\ outage = NoTime /\ ~online
    ELSE next # NoTime

\* Evaluation gamepads exist only under a window that is already on disk, so a
\* restart of the service cannot grant a second window.
EvaluationIsDurable ==
  (\E d \in DOMAIN ledger : ledger[d].evaluation)
    \/ (pipe \in {"create", "record"} /\ request.evaluation)
  => windowFile # NoTime

\* Every gamepad is tracked under the process that created it.
OwnerTracked ==
  reconciled =>
    \A d \in DOMAIN driver :
      \/ d \in DOMAIN ledger /\ ledger[d].owner = driver[d].owner
      \/ pipe = "record" /\ request.id = d

\* While an outage trims the licensed gamepads, one with a living owner stays.
\* About the running count of cleanup_devices over the map.
OutageKeepsOne ==
  [][SweepDecides /\ ~revoke'
       /\ (\E d \in LicensedDevices : client[ledger[d].owner] # "exited")
     => LicensedDevices \ doomed' # {}]_vars

\* While validation is unavailable and no attempt is running, the next one is
\* at most a retry interval away.
RetryCadence ==
  outage # NoTime /\ (\A t \in Threads : op[t].step = "idle")
    => next \in 0..RetryInterval

-----------------------------------------------------------------------------
(* Liveness *)

PipeStep == Sweep \/ Serve

\* Both threads keep running and every wait in them has a timeout; the validator
\* sleeps between attempts, so a pipe thread waiting for the operation mutex
\* gets it.  A driver call that is retried for ever succeeds once.  The service
\* manager starts the service, and the clock advances.
Fairness ==
  /\ WF_vars(PipeStep)
  /\ WF_vars(ValidationDue)
  /\ \A t \in Threads : WF_vars(LicenseStep(t)) /\ SF_vars(AcquireOperation(t))
  /\ SF_vars(SweepReconciles)
  /\ \A d \in DeviceIds : SF_vars(SweepDestroys(d))
  /\ \A c \in Clients : WF_vars(FileCleanup(c))
  /\ WF_vars(Start)
  /\ WF_vars(Tick)

FairSpec == Spec /\ Fairness

Up == pipe # "down"

\* On a machine without a license every gamepad goes away, also those that a
\* previous broker process left behind or whose destruction failed before.
UnlicensedDrains ==
  (Up /\ license.plan = "none") ~>
    (DOMAIN driver = {} \/ license.plan # "none" \/ ~Up)

Overdue(d) ==
  \/ /\ d \in DOMAIN driver
     /\ license.plan = "none"
     /\ d \in DOMAIN ledger => ~ledger[d].evaluation
  \/ d \in LicensedDevices /\ SubscriptionElapsed(license)
  \/ d \in DOMAIN ledger /\ client[ledger[d].owner] = "exited"
  \/ d \in DOMAIN ledger /\ ledger[d].evaluation /\ EvaluationExpired

\* No gamepad stays for ever without a license, with a subscription that could
\* not be validated in time, without the process that created it, or after the
\* end of its evaluation; a record that stays would count against the
\* unvalidated limit.  About cleanup_devices, whose destroys may fail, and the
\* paths that lead to it: refused validations, deactivation, crashes, restarts.
OverdueGo == \A d \in DeviceIds : (Up /\ Overdue(d)) ~> (~Up \/ ~Overdue(d))

\* An outage that outlasts the retention leaves at most one licensed gamepad.
OutageTrims ==
  (outage = OutageRetention) ~>
    ((\A d, e \in LicensedDevices : d = e) \/ outage # OutageRetention)
=============================================================================
