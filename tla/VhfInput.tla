------------------------------ MODULE VhfInput ------------------------------
(***************************************************************************)
(* Input reports of one gamepad in the Windows driver                      *)
(* (src/platform/windows/driver/libvirtualhid_umdf.cpp with the queue of   *)
(* src/platform/windows/shared/vhf_input_report_queue.hpp).  Requests of a *)
(* parallel IO queue and callbacks of the Virtual HID Framework (VHF) push *)
(* reports; whoever finds VHF ready submits the next one; a destroy, reset *)
(* or closed control file removes the gamepad meanwhile.  Every action is  *)
(* one critical section of DeviceRecord::mutex or one call made without it.*)
(***************************************************************************)
EXTENDS Integers, Sequences, FiniteSets

CONSTANTS
  Workers,       \* threads serving submit requests of the parallel IO queue
  ReadyThreads,  \* threads on which VHF reports that it is ready
  WriteThreads,  \* threads on which VHF passes output reports to the driver
  Discrete,      \* the states that same_discrete_state tells apart
  MaxPending,    \* vhf_max_pending_input_reports
  MaxReports,    \* bound: reports pushed
  NoReport

ASSUME ThreadsAssumption ==
  /\ Workers \cap ReadyThreads = {}
  /\ Workers \cap WriteThreads = {}
  /\ ReadyThreads \cap WriteThreads = {}
  /\ IsFiniteSet(Workers \cup ReadyThreads \cup WriteThreads)
ASSUME BoundsAssumption == MaxPending \in Nat \ {0} /\ MaxReports \in Nat

Threads == Workers \cup ReadyThreads \cup WriteThreads
Kinds == {"protocol", "state"}
Reports == [id : 1..MaxReports, kind : Kinds, discrete : Discrete]

ASSUME NoReportAssumption == NoReport \notin Reports

VARIABLES
  registered,    \* the record is in DriverState::devices
  shutting_down, \* set together with vhf_handle = nullptr
  ready,         \* vhf_ready_for_input_report
  in_flight,     \* in_flight_input_report
  active,        \* active_input_submissions
  protocol,      \* VhfInputReportQueue::protocol_reports_
  states,        \* VhfInputReportQueue::reports_
  thread,        \* where each thread is, and the report it submits
  remover,       \* progress of delete_vhf_device
  vhf,           \* the VHF device: does it exist, the buffer it references,
                 \* does it owe a ready callback, has it refused a report
  pushed,        \* reports pushed so far; numbers them
  newest,        \* history: number of the newest state report
  delivered      \* number of the last report of each class VHF accepted

queueVars == <<protocol, states, pushed, newest>>
recordVars == <<shutting_down, ready, in_flight, active>>
vars == <<registered, recordVars, queueVars, thread, remover, vhf, delivered>>

IdleThread == [at |-> "idle", report |-> NoReport]
At(t, step) == [thread EXCEPT ![t].at = step]
Leave(t) == [thread EXCEPT ![t] = IdleThread]

Pending == Len(protocol) + Len(states)

TypeOK ==
  /\ registered \in BOOLEAN
  /\ shutting_down \in BOOLEAN
  /\ ready \in BOOLEAN
  /\ in_flight \in Reports \cup {NoReport}
  /\ active \in Nat
  /\ protocol \in Seq(Reports)
  /\ states \in Seq(Reports)
  /\ Pending <= MaxPending
  /\ thread \in [Threads -> [at : {"idle", "found", "ready", "prepare",
                                   "submit", "finish", "failed"},
                             report : Reports \cup {NoReport}]]
  /\ remover \in {"none", "shutdown", "drain", "delete", "release", "done"}
  /\ vhf \in [exists : BOOLEAN, held : Reports \cup {NoReport},
              due : BOOLEAN, refused : BOOLEAN]
  /\ pushed \in 0..MaxReports
  /\ newest \in 0..pushed
  /\ delivered \in [Kinds -> 0..MaxReports]

\* VhfCreate has succeeded and VhfStart is about to return; VHF calls ready
\* for the first time.
Init ==
  /\ registered = FALSE
  /\ shutting_down = FALSE
  /\ ready = FALSE
  /\ in_flight = NoReport
  /\ active = 0
  /\ protocol = <<>>
  /\ states = <<>>
  /\ thread = [t \in Threads |-> IdleThread]
  /\ remover = "none"
  /\ vhf = [exists |-> TRUE, held |-> NoReport, due |-> TRUE, refused |-> FALSE]
  /\ pushed = 0
  /\ newest = 0
  /\ delivered = [k \in Kinds |-> 0]

-----------------------------------------------------------------------------
(* VhfInputReportQueue *)

\* Mutant: one report too many fits.
FullOffByOne == Pending > MaxPending

Full == Pending >= MaxPending

\* make_room: what is left of the queues when one more report must fit.
ProtocolWithRoom ==
  IF Full /\ states = <<>> THEN Tail(protocol) ELSE protocol
StatesWithRoom ==
  IF Full /\ states # <<>> THEN Tail(states) ELSE states

PushProtocol(r) ==
  /\ protocol' = Append(ProtocolWithRoom, r)
  /\ states' = StatesWithRoom

\* Mutant: any newer state replaces the newest pending one.
PushStateAlwaysCoalescing(r) ==
  IF states # <<>>
    THEN /\ states' = [states EXCEPT ![Len(states)] = r]
         /\ UNCHANGED protocol
    ELSE /\ protocol' = ProtocolWithRoom
         /\ states' = Append(StatesWithRoom, r)

\* Mutant: a full queue refuses the new report instead of the oldest one.
PushStateDroppingNewest(r) ==
  IF states # <<>> /\ states[Len(states)].discrete = r.discrete
    THEN /\ states' = [states EXCEPT ![Len(states)] = r]
         /\ UNCHANGED protocol
    ELSE /\ UNCHANGED protocol
         /\ states' = IF Pending < MaxPending THEN Append(states, r) ELSE states

\* push of a state report: it replaces the newest one with the same discrete
\* state.
PushState(r) ==
  IF states # <<>> /\ states[Len(states)].discrete = r.discrete
    THEN /\ states' = [states EXCEPT ![Len(states)] = r]
         /\ UNCHANGED protocol
    ELSE /\ protocol' = ProtocolWithRoom
         /\ states' = Append(StatesWithRoom, r)

-----------------------------------------------------------------------------
(* Submission *)

\* handle_submit_input_report_request finds the device.
FindDevice(t) ==
  /\ t \in Workers
  /\ thread[t].at = "idle"
  /\ registered
  /\ thread' = At(t, "found")
  /\ UNCHANGED <<registered, recordVars, queueVars, remover, vhf, delivered>>

\* LvhEvtVhfWriteReport: the output report asks for a protocol reply.
WriteReport(t) ==
  /\ t \in WriteThreads
  /\ thread[t].at = "idle"
  /\ vhf.exists
  /\ thread' = At(t, "found")
  /\ UNCHANGED <<registered, recordVars, queueVars, remover, vhf, delivered>>

\* queue_vhf_input_report up to the unlock.  make_vhf_input_payload admits only
\* state reports from clients; protocol replies come from write callbacks.
QueueReport(t, d) ==
  /\ thread[t].at = "found"
  /\ ~shutting_down
  /\ pushed < MaxReports
  /\ pushed' = pushed + 1
  /\ LET kind == IF t \in WriteThreads THEN "protocol" ELSE "state"
         r == [id |-> pushed', kind |-> kind, discrete |-> d]
     IN IF kind = "protocol"
          THEN PushProtocol(r) /\ UNCHANGED newest
          ELSE PushState(r) /\ newest' = pushed'
  /\ thread' = At(t, "prepare")
  /\ UNCHANGED <<registered, recordVars, remover, vhf, delivered>>

\* The device is being removed: STATUS_OBJECT_NAME_NOT_FOUND.
QueueNothing(t) ==
  /\ thread[t].at = "found"
  /\ shutting_down
  /\ thread' = Leave(t)
  /\ UNCHANGED <<registered, recordVars, queueVars, remover, vhf, delivered>>

CanSubmit == ~shutting_down /\ ready /\ Pending > 0

\* Mutant: the permission to submit is not used up.
PrepareKeepingReady(t) ==
  /\ thread[t].at = "prepare"
  /\ CanSubmit
  /\ LET r == IF protocol # <<>> THEN Head(protocol) ELSE Head(states)
     IN /\ in_flight' = r
        /\ thread' = [thread EXCEPT ![t] = [at |-> "submit", report |-> r]]
  /\ protocol' = IF protocol # <<>> THEN Tail(protocol) ELSE protocol
  /\ states' = IF protocol # <<>> THEN states ELSE Tail(states)
  /\ active' = active + 1
  /\ UNCHANGED <<registered, ready, shutting_down, pushed, newest, remover, vhf,
                 delivered>>

\* prepare_vhf_input_submission takes the next report and the permission.
Prepare(t) ==
  /\ thread[t].at = "prepare"
  /\ CanSubmit
  /\ LET r == IF protocol # <<>> THEN Head(protocol) ELSE Head(states)
     IN /\ in_flight' = r
        /\ thread' = [thread EXCEPT ![t] = [at |-> "submit", report |-> r]]
  /\ protocol' = IF protocol # <<>> THEN Tail(protocol) ELSE protocol
  /\ states' = IF protocol # <<>> THEN states ELSE Tail(states)
  /\ ready' = FALSE
  /\ active' = active + 1
  /\ UNCHANGED <<registered, shutting_down, pushed, newest, remover, vhf,
                 delivered>>

NothingToSubmit(t) ==
  /\ thread[t].at = "prepare"
  /\ ~CanSubmit
  /\ thread' = Leave(t)
  /\ UNCHANGED <<registered, recordVars, queueVars, remover, vhf, delivered>>

\* VhfReadReportSubmit takes the report; VHF references the buffer from now on.
VhfAccepts(t) ==
  /\ thread[t].at = "submit"
  /\ vhf' = [vhf EXCEPT !.held = thread[t].report]
  /\ delivered' = [delivered EXCEPT ![thread[t].report.kind] = thread[t].report.id]
  /\ thread' = At(t, "finish")
  /\ UNCHANGED <<registered, recordVars, queueVars, remover>>

\* VhfReadReportSubmit fails; VHF may or may not call ready again.
VhfRefuses(t) ==
  /\ thread[t].at = "submit"
  /\ vhf' \in {[vhf EXCEPT !.refused = TRUE],
               [vhf EXCEPT !.refused = TRUE, !.due = TRUE]}
  /\ thread' = At(t, "failed")
  /\ UNCHANGED <<registered, recordVars, queueVars, remover, delivered>>

\* Mutant: the buffer is released as soon as the submission returns.
FinishReleasingBuffer(t) ==
  /\ thread[t].at \in {"finish", "failed"}
  /\ active' = active - 1
  /\ in_flight' = IF in_flight = thread[t].report THEN NoReport ELSE in_flight
  /\ thread' = Leave(t)
  /\ UNCHANGED <<registered, shutting_down, ready, queueVars, remover, vhf,
                 delivered>>

\* The rest of submit_next_vhf_input_report.
Finish(t) ==
  /\ thread[t].at \in {"finish", "failed"}
  /\ active' = active - 1
  /\ in_flight' = IF thread[t].at = "failed" /\ in_flight = thread[t].report
                    THEN NoReport ELSE in_flight
  /\ thread' = Leave(t)
  /\ UNCHANGED <<registered, shutting_down, ready, queueVars, remover, vhf,
                 delivered>>

-----------------------------------------------------------------------------
(* VHF *)

\* The host reads the report: VHF is done with the buffer.
VhfConsumes ==
  /\ vhf.held # NoReport
  /\ vhf' = [vhf EXCEPT !.held = NoReport, !.due = TRUE]
  /\ UNCHANGED <<registered, recordVars, queueVars, thread, remover, delivered>>

VhfCallsReady(t) ==
  /\ t \in ReadyThreads
  /\ thread[t].at = "idle"
  /\ vhf.exists
  /\ vhf.due
  /\ vhf' = [vhf EXCEPT !.due = FALSE]
  /\ thread' = At(t, "ready")
  /\ UNCHANGED <<registered, recordVars, queueVars, remover, delivered>>

\* Mutant: what was queued meanwhile waits for the next push.
ReadyWithoutSubmission(t) ==
  /\ thread[t].at = "ready"
  /\ ~shutting_down
  /\ in_flight' = NoReport
  /\ ready' = TRUE
  /\ thread' = Leave(t)
  /\ UNCHANGED <<registered, shutting_down, active, queueVars, remover, vhf,
                 delivered>>

\* LvhEvtVhfReadyForNextReadReport
ReadyForNextReadReport(t) ==
  /\ thread[t].at = "ready"
  /\ ~shutting_down
  /\ in_flight' = NoReport
  /\ ready' = TRUE
  /\ thread' = At(t, "prepare")
  /\ UNCHANGED <<registered, shutting_down, active, queueVars, remover, vhf,
                 delivered>>

ReadyTooLate(t) ==
  /\ thread[t].at = "ready"
  /\ shutting_down
  /\ thread' = Leave(t)
  /\ UNCHANGED <<registered, recordVars, queueVars, remover, vhf, delivered>>

-----------------------------------------------------------------------------
(* Creation and removal *)

\* VhfStart succeeds and the record enters the device map.
StartSucceeds ==
  /\ remover = "none"
  /\ ~registered
  /\ registered' = TRUE
  /\ UNCHANGED <<recordVars, queueVars, thread, remover, vhf, delivered>>

\* VhfStart fails, or a destroy, reset or file cleanup takes the record out of
\* the map.
Remove ==
  /\ remover = "none"
  /\ registered' = FALSE
  /\ remover' = "shutdown"
  /\ UNCHANGED <<recordVars, queueVars, thread, vhf, delivered>>

\* delete_vhf_device up to the wait.
ShutDown ==
  /\ remover = "shutdown"
  /\ shutting_down' = TRUE
  /\ ready' = FALSE
  /\ protocol' = <<>>
  /\ states' = <<>>
  /\ remover' = "drain"
  /\ UNCHANGED <<registered, in_flight, active, pushed, newest, thread, vhf,
                 delivered>>

\* Mutant: submissions in progress are not waited for.
NotDrained ==
  /\ remover = "drain"
  /\ remover' = "delete"
  /\ UNCHANGED <<registered, recordVars, queueVars, thread, vhf, delivered>>

Drained ==
  /\ remover = "drain"
  /\ active = 0
  /\ remover' = "delete"
  /\ UNCHANGED <<registered, recordVars, queueVars, thread, vhf, delivered>>

\* VhfDelete waits for the callbacks in progress.
VhfDeleted ==
  /\ remover = "delete"
  /\ \A t \in ReadyThreads \cup WriteThreads : thread[t].at = "idle"
  /\ vhf' = [vhf EXCEPT !.exists = FALSE, !.held = NoReport, !.due = FALSE]
  /\ remover' = "release"
  /\ UNCHANGED <<registered, recordVars, queueVars, thread, delivered>>

ReleaseBuffer ==
  /\ remover = "release"
  /\ in_flight' = NoReport
  /\ remover' = "done"
  /\ UNCHANGED <<registered, shutting_down, ready, active, queueVars, thread,
                 vhf, delivered>>

-----------------------------------------------------------------------------
Submission(t) ==
  \/ \E d \in Discrete : QueueReport(t, d)
  \/ QueueNothing(t)
  \/ Prepare(t)
  \/ NothingToSubmit(t)
  \/ VhfAccepts(t)
  \/ VhfRefuses(t)
  \/ Finish(t)
  \/ ReadyForNextReadReport(t)
  \/ ReadyTooLate(t)

Removal == ShutDown \/ Drained \/ VhfDeleted \/ ReleaseBuffer

Next ==
  \/ \E t \in Threads :
       FindDevice(t) \/ WriteReport(t) \/ VhfCallsReady(t) \/ Submission(t)
  \/ VhfConsumes
  \/ StartSucceeds
  \/ Remove
  \/ Removal

Spec == Init /\ [][Next]_vars

-----------------------------------------------------------------------------
(* Safety *)

\* VHF is never called with a handle that was deleted, and never deleted under
\* a call.  About submit_next_vhf_input_report, which calls VHF without the
\* lock, against delete_vhf_device, which counts those calls.
NoSubmissionAfterDelete ==
  remover \in {"delete", "release", "done"} =>
    \A t \in Threads : thread[t].at \notin {"submit", "finish", "failed"}

\* VHF gets one report per ready callback: while it has one, or one is being
\* handed over, no other is submitted.  About several threads that find the
\* same permission.
OneReportAtATime ==
  /\ \A t, u \in Threads :
       thread[t].at = "submit" /\ thread[u].at = "submit" => t = u
  /\ (\E t \in Threads : thread[t].at = "submit") => vhf.held = NoReport

\* The buffer VHF references is alive.  About a ready callback that runs before
\* the submission it answers has returned, and about removal.
BufferAlive ==
  vhf.held # NoReport =>
    \/ in_flight = vhf.held
    \/ \E t \in Threads : thread[t].at = "finish" /\ thread[t].report = vhf.held

\* No report is left waiting while VHF is ready: some thread is about to submit
\* it.  About the window between pushing a report and looking at the
\* permission, and between getting the permission and looking at the queue.
NothingStranded ==
  ready /\ Pending > 0 => \E t \in Threads : thread[t].at = "prepare"

\* The locked, multi-threaded driver implements the sequential stream.
Submitting == {t \in Threads : thread[t].at = "submit"}
Elements(s) == {s[i] : i \in 1..Len(s)}
Waiting == Elements(protocol) \cup Elements(states)
Taken ==
  IF Submitting = {} THEN NoReport
  ELSE thread[CHOOSE t \in Submitting : TRUE].report
Stream == INSTANCE InputStream WITH
  accepted <- pushed, waiting <- Waiting, taken <- Taken, closed <- shutting_down
\* Every step of the threads is a step of the stream or none at all.  About the
\* order of reports, about what may be dropped or replaced, and about replies
\* that go first.
ImplementsStream == Stream!StreamSpec

-----------------------------------------------------------------------------
(* Liveness *)

\* Threads and callbacks go on, VHF answers, and the host reads.  VhfDelete
\* stops new callbacks, so it returns although callbacks came before.
Fairness ==
  /\ \A t \in Threads : WF_vars(Submission(t))
  /\ WF_vars(VhfConsumes)
  /\ WF_vars(\E t \in ReadyThreads : VhfCallsReady(t))
  /\ WF_vars(Removal)
  /\ SF_vars(VhfDeleted)

FairSpec == Spec /\ Fairness

\* The newest state report, or a newer one, reaches VHF unless the gamepad is
\* being removed: as long as VHF refuses no report and protocol replies alone do
\* not fill the queue, in which case they push out the last state report too.
NewestArrives ==
  [](~vhf.refused /\ Len(protocol) < MaxPending) =>
    []<>(delivered["state"] >= newest \/ shutting_down)

\* Removal ends: it waits only for submissions and callbacks that end.
RemovalEnds == (remover # "none") ~> (remover = "done")
=============================================================================
