--------------------------- MODULE VhfInputProofs ---------------------------
(***************************************************************************)
(* Proofs about the input reports of a driver device for every number of   *)
(* threads, every capacity of the queue and every number of reports.       *)
(***************************************************************************)
EXTENDS VhfInput, FiniteSetTheorems, FunctionTheorems, SequenceTheorems, TLAPS

Busy == {t \in Threads : thread[t].at \in {"submit", "finish", "failed"}}

-----------------------------------------------------------------------------
(* The queue *)

LEMMA TailFacts ==
  ASSUME NEW S, NEW s \in Seq(S), s # <<>>
  PROVE  /\ Tail(s) \in Seq(S)
         /\ Head(s) \in S
         /\ Head(s) = s[1]
         /\ Len(s) \in Nat \ {0}
         /\ Len(Tail(s)) = Len(s) - 1
         /\ \A i \in 1..(Len(s) - 1) : Tail(s)[i] = s[i + 1]
BY HeadTailProperties, EmptySeq

LEMMA AppendFacts ==
  ASSUME NEW S, NEW s \in Seq(S), NEW e \in S
  PROVE  /\ Append(s, e) \in Seq(S)
         /\ Len(Append(s, e)) = Len(s) + 1
         /\ \A i \in 1..Len(s) : Append(s, e)[i] = s[i]
         /\ Append(s, e)[Len(s) + 1] = e
BY AppendProperties

LEMMA ReplaceFacts ==
  ASSUME NEW S, NEW s \in Seq(S), s # <<>>, NEW e \in S
  PROVE  LET n == [s EXCEPT ![Len(s)] = e]
         IN  /\ n \in Seq(S)
             /\ Len(n) = Len(s)
             /\ \A i \in 1..Len(s) : n[i] = IF i = Len(s) THEN e ELSE s[i]
<1>1. Len(s) \in 1..Len(s)
  BY EmptySeq
<1> QED
  BY <1>1, ExceptSeq

LEMMA RoomFacts ==
  ASSUME protocol \in Seq(Reports), states \in Seq(Reports), Pending <= MaxPending
  PROVE  /\ \/ ProtocolWithRoom = protocol
            \/ protocol # <<>> /\ ProtocolWithRoom = Tail(protocol)
         /\ \/ StatesWithRoom = states
            \/ states # <<>> /\ StatesWithRoom = Tail(states)
         /\ Len(ProtocolWithRoom) + Len(StatesWithRoom) < MaxPending
<1>1. /\ Len(protocol) \in Nat /\ Len(states) \in Nat
      /\ MaxPending \in Nat /\ MaxPending > 0
      /\ Len(protocol) + Len(states) <= MaxPending
  BY BoundsAssumption DEF Pending
<1>2. CASE ~Full
  BY <1>1, <1>2 DEF Full, Pending, ProtocolWithRoom, StatesWithRoom
<1>3. CASE Full /\ states # <<>>
  <2>1. Len(Tail(states)) = Len(states) - 1
    BY <1>3, TailFacts
  <2>2. ProtocolWithRoom = protocol /\ StatesWithRoom = Tail(states)
    BY <1>3 DEF ProtocolWithRoom, StatesWithRoom
  <2>3. Len(ProtocolWithRoom) = Len(protocol)
    BY <2>2
  <2>4. Len(StatesWithRoom) = Len(states) - 1
    BY <2>1, <2>2
  <2>5. Len(protocol) + (Len(states) - 1) < MaxPending
    BY <1>1
  <2>6. Len(ProtocolWithRoom) + Len(StatesWithRoom) < MaxPending
    BY <2>3, <2>4, <2>5
  <2> QED
    BY <1>3, <2>2, <2>6
<1>4. CASE Full /\ states = <<>>
  <2>1. protocol # <<>>
    BY <1>1, <1>4 DEF Full, Pending
  <2>2. Len(Tail(protocol)) = Len(protocol) - 1
    BY <2>1, TailFacts
  <2>3. ProtocolWithRoom = Tail(protocol) /\ StatesWithRoom = states
    BY <1>4 DEF ProtocolWithRoom, StatesWithRoom
  <2>4. Len(ProtocolWithRoom) = Len(protocol) - 1 /\ Len(StatesWithRoom) = Len(states)
    BY <2>2, <2>3
  <2>5. (Len(protocol) - 1) + Len(states) < MaxPending
    BY <1>1
  <2>6. Len(ProtocolWithRoom) + Len(StatesWithRoom) < MaxPending
    BY <2>4, <2>5
  <2> QED
    BY <2>1, <2>3, <2>6
<1> QED
  BY <1>2, <1>3, <1>4

LEMMA PushType ==
  ASSUME TypeOK, NEW r \in Reports, PushProtocol(r) \/ PushState(r)
  PROVE  /\ protocol' \in Seq(Reports)
         /\ states' \in Seq(Reports)
         /\ Pending' <= MaxPending
<1>1. /\ protocol \in Seq(Reports) /\ states \in Seq(Reports)
      /\ Pending <= MaxPending
  BY DEF TypeOK
<1>2. /\ ProtocolWithRoom \in Seq(Reports) /\ StatesWithRoom \in Seq(Reports)
      /\ Len(ProtocolWithRoom) + Len(StatesWithRoom) < MaxPending
  BY <1>1, RoomFacts, TailFacts
<1>3. /\ Len(ProtocolWithRoom) \in Nat /\ Len(StatesWithRoom) \in Nat
      /\ MaxPending \in Nat
  BY <1>2, BoundsAssumption
<1>4. CASE protocol' = Append(ProtocolWithRoom, r) /\ states' = StatesWithRoom
  <2>1. protocol' \in Seq(Reports) /\ Len(protocol') = Len(ProtocolWithRoom) + 1
    BY <1>2, <1>4, AppendFacts
  <2>2. Pending' = (Len(ProtocolWithRoom) + 1) + Len(StatesWithRoom)
    BY <1>4, <2>1 DEF Pending
  <2> QED
    BY <1>2, <1>3, <1>4, <2>1, <2>2
<1>5. CASE protocol' = ProtocolWithRoom /\ states' = Append(StatesWithRoom, r)
  <2>1. states' \in Seq(Reports) /\ Len(states') = Len(StatesWithRoom) + 1
    BY <1>2, <1>5, AppendFacts
  <2>2. Pending' = Len(ProtocolWithRoom) + (Len(StatesWithRoom) + 1)
    BY <1>5, <2>1 DEF Pending
  <2> QED
    BY <1>2, <1>3, <1>5, <2>1, <2>2
<1>6. CASE /\ protocol' = protocol
           /\ states # <<>>
           /\ states' = [states EXCEPT ![Len(states)] = r]
  <2>1. states' \in Seq(Reports) /\ Len(states') = Len(states)
    BY <1>1, <1>6, ReplaceFacts
  <2>2. Pending' = Pending
    BY <1>6, <2>1 DEF Pending
  <2> QED
    BY <1>1, <1>6, <2>1, <2>2
<1> QED
  BY <1>4, <1>5, <1>6 DEF PushProtocol, PushState

\* What Prepare takes out of the queue, and what stays.
NextReport == IF protocol # <<>> THEN Head(protocol) ELSE Head(states)

LEMMA TakeType ==
  ASSUME TypeOK, NEW t \in Threads, Prepare(t)
  PROVE  /\ protocol' \in Seq(Reports)
         /\ states' \in Seq(Reports)
         /\ Pending' <= MaxPending
         /\ NextReport \in Reports
         /\ \/ /\ protocol # <<>> /\ protocol' = Tail(protocol)
               /\ states' = states /\ NextReport = Head(protocol)
            \/ /\ states # <<>> /\ states' = Tail(states)
               /\ protocol' = protocol /\ NextReport = Head(states)
<1>1. /\ protocol \in Seq(Reports) /\ states \in Seq(Reports)
      /\ Len(protocol) \in Nat /\ Len(states) \in Nat
      /\ MaxPending \in Nat
      /\ Len(protocol) + Len(states) <= MaxPending
      /\ Len(protocol) + Len(states) > 0
  BY BoundsAssumption DEF TypeOK, Pending, Prepare, CanSubmit
<1>2. CASE protocol # <<>>
  <2>1. protocol' = Tail(protocol) /\ states' = states /\ NextReport = Head(protocol)
    BY <1>2 DEF Prepare, NextReport
  <2>2. /\ Tail(protocol) \in Seq(Reports) /\ Head(protocol) \in Reports
        /\ Len(Tail(protocol)) = Len(protocol) - 1
    BY <1>1, <1>2, TailFacts
  <2>3. Pending' = (Len(protocol) - 1) + Len(states)
    BY <2>1, <2>2 DEF Pending
  <2>4. Pending' <= MaxPending
    BY <1>1, <2>3
  <2> QED
    BY <1>1, <1>2, <2>1, <2>2, <2>4
<1>3. CASE protocol = <<>>
  <2>1. states # <<>>
    BY <1>1, <1>3
  <2>2. protocol' = protocol /\ states' = Tail(states) /\ NextReport = Head(states)
    BY <1>3 DEF Prepare, NextReport
  <2>3. /\ Tail(states) \in Seq(Reports) /\ Head(states) \in Reports
        /\ Len(Tail(states)) = Len(states) - 1
    BY <1>1, <2>1, TailFacts
  <2>4. Pending' = Len(protocol) + (Len(states) - 1)
    BY <2>2, <2>3 DEF Pending
  <2>5. Pending' <= MaxPending
    BY <1>1, <2>4
  <2> QED
    BY <1>1, <2>1, <2>2, <2>3, <2>5
<1> QED
  BY <1>2, <1>3
-----------------------------------------------------------------------------
(* Type correctness.  That active stays a natural number is not a matter of  *)
(* types: it counts the threads inside a submission.                         *)

ThreadStates ==
  [Threads -> [at : {"idle", "found", "ready", "prepare", "submit", "finish",
                     "failed"},
               report : Reports \cup {NoReport}]]
Handed == \A t \in Busy : thread[t].report \in Reports
Counted == active = Cardinality(Busy)
TypeInv == TypeOK /\ Handed /\ Counted

LEMMA BusyFinite == IsFiniteSet(Busy) /\ Cardinality(Busy) \in Nat
<1>1. IsFiniteSet(Threads)
  BY ThreadsAssumption DEF Threads
<1>2. IsFiniteSet(Busy)
  BY <1>1, FS_Subset DEF Busy
<1> QED
  BY <1>2, FS_CardinalityType

LEMMA TypeInit == Init => TypeInv
<1> SUFFICES ASSUME Init PROVE TypeInv
  OBVIOUS
<1>1. Busy = {}
  BY DEF Init, Busy, IdleThread
<1>2. Handed /\ Counted
  BY <1>1, FS_EmptySet DEF Init, Handed, Counted
<1>3. /\ pushed \in 0..MaxReports /\ newest \in 0..pushed
      /\ delivered \in [Kinds -> 0..MaxReports]
  BY BoundsAssumption DEF Init
<1>4. Pending <= MaxPending
  BY BoundsAssumption DEF Init, Pending
<1>5. /\ protocol \in Seq(Reports) /\ states \in Seq(Reports)
  BY DEF Init
<1>6. thread \in ThreadStates
  BY DEF Init, IdleThread, ThreadStates
<1>7. vhf \in [exists : BOOLEAN, held : Reports \cup {NoReport},
               due : BOOLEAN, refused : BOOLEAN]
  BY DEF Init
<1> QED
  BY <1>2, <1>3, <1>4, <1>5, <1>6, <1>7 DEF Init, TypeInv, TypeOK, ThreadStates

LEMMA TypeStutter == TypeInv /\ UNCHANGED vars => TypeInv'
BY DEF vars, recordVars, queueVars, TypeInv, TypeOK, Handed, Counted, Busy, Pending

\* A thread that moves outside its submission changes no count.
LEMMA IdleMove ==
  ASSUME TypeInv, NEW t \in Threads, t \notin Busy,
         \/ thread' = At(t, "found")
         \/ thread' = At(t, "ready")
         \/ thread' = At(t, "prepare")
         \/ thread' = Leave(t)
  PROVE  /\ thread' \in ThreadStates
         /\ Busy' = Busy
         /\ \A u \in Busy : thread'[u] = thread[u]
<1>1. thread \in ThreadStates
  BY DEF TypeInv, TypeOK, ThreadStates
<1>2. ASSUME NEW step \in {"found", "ready", "prepare"}, thread' = At(t, step)
      PROVE  /\ thread' \in ThreadStates
             /\ Busy' = Busy
             /\ \A u \in Busy : thread'[u] = thread[u]
  BY <1>1, <1>2 DEF ThreadStates, Busy, At
<1>3. CASE thread' = Leave(t)
  BY <1>1, <1>3 DEF ThreadStates, Busy, Leave, IdleThread
<1> QED
  BY <1>2, <1>3

LEMMA TypeSubmission ==
  ASSUME TypeInv, NEW t \in Threads, Submission(t)
  PROVE  TypeInv'
<1> USE DEF TypeInv, ThreadStates
<1>0. TypeOK /\ Handed /\ Counted
  OBVIOUS
<1>1. ASSUME NEW d \in Discrete, QueueReport(t, d) PROVE TypeInv'
  <2> DEFINE kind == IF t \in WriteThreads THEN "protocol" ELSE "state"
             r == [id |-> pushed + 1, kind |-> kind, discrete |-> d]
  <2>1. pushed + 1 \in 1..MaxReports /\ pushed' = pushed + 1
    BY <1>1, BoundsAssumption DEF QueueReport, TypeOK
  <2>2. r \in Reports
    BY <2>1 DEF Reports, Kinds
  <2>3. PushProtocol(r) \/ PushState(r)
    BY <1>1, <2>1 DEF QueueReport
  <2>4. /\ protocol' \in Seq(Reports) /\ states' \in Seq(Reports)
        /\ Pending' <= MaxPending
    BY <2>2, <2>3, PushType
  <2>5. newest' \in 0..pushed' /\ pushed' \in 0..MaxReports
    <3>1. newest' = newest \/ newest' = pushed'
      BY <1>1 DEF QueueReport
    <3> QED
      BY <2>1, <3>1, BoundsAssumption DEF TypeOK
  <2>6. t \notin Busy /\ thread' = At(t, "prepare")
    BY <1>1 DEF QueueReport, Busy
  <2>7. /\ thread' \in ThreadStates
        /\ Busy' = Busy /\ \A u \in Busy : thread'[u] = thread[u]
    BY <2>6, IdleMove
  <2>8. UNCHANGED <<registered, recordVars, remover, vhf, delivered>>
    BY <1>1 DEF QueueReport
  <2>9. Handed' /\ Counted'
    BY <2>7, <2>8 DEF recordVars, Handed, Counted
  <2> QED
    BY <2>4, <2>5, <2>7, <2>8, <2>9 DEF recordVars, TypeOK
<1>2. CASE QueueNothing(t)
  <2>1. t \notin Busy
    BY <1>2 DEF QueueNothing, Busy
  <2> QED
    BY <1>2, <2>1, IdleMove
       DEF QueueNothing, recordVars, queueVars, TypeOK, Handed, Counted, Pending
<1>3. CASE Prepare(t)
  <2>1. /\ protocol' \in Seq(Reports) /\ states' \in Seq(Reports)
        /\ Pending' <= MaxPending /\ NextReport \in Reports
    BY <1>3, TakeType
  <2>2. thread' = [thread EXCEPT ![t] = [at |-> "submit", report |-> NextReport]]
    BY <1>3 DEF Prepare, NextReport
  <2>3. t \notin Busy /\ Busy' = Busy \cup {t}
    BY <1>3, <2>2 DEF Prepare, Busy, TypeOK
  <2>4. Cardinality(Busy') = Cardinality(Busy) + 1
    BY <2>3, BusyFinite, FS_AddElement
  <2>5. Counted' /\ active' \in Nat
    BY <1>3, <2>4, BusyFinite DEF Prepare, Counted
  <2>6. Handed'
    BY <2>1, <2>2, <2>3 DEF Handed, TypeOK, Busy
  <2>7. thread' \in ThreadStates
    BY <2>1, <2>2 DEF TypeOK
  <2>8. in_flight' = NextReport
    BY <1>3 DEF Prepare, NextReport
  <2> QED
    BY <1>3, <2>1, <2>5, <2>6, <2>7, <2>8 DEF Prepare, TypeOK
<1>4. CASE NothingToSubmit(t)
  <2>1. t \notin Busy
    BY <1>4 DEF NothingToSubmit, Busy
  <2> QED
    BY <1>4, <2>1, IdleMove
       DEF NothingToSubmit, recordVars, queueVars, TypeOK, Handed, Counted, Pending
<1>5. CASE VhfAccepts(t)
  <2>1. t \in Busy /\ thread[t].report \in Reports
    BY <1>5 DEF VhfAccepts, Busy, Handed
  <2>2. thread[t].report.kind \in Kinds /\ thread[t].report.id \in 0..MaxReports
    BY <2>1 DEF Reports
  <2>3. Busy' = Busy /\ \A u \in Busy : thread'[u].report = thread[u].report
    BY <1>5 DEF VhfAccepts, Busy, At, TypeOK
  <2>4. thread' \in ThreadStates
    BY <1>5 DEF VhfAccepts, At, TypeOK
  <2>5. Handed' /\ Counted'
    BY <1>5, <2>3 DEF VhfAccepts, recordVars, Handed, Counted
  <2> QED
    BY <1>5, <2>1, <2>2, <2>4, <2>5
       DEF VhfAccepts, recordVars, queueVars, TypeOK, Pending
<1>6. CASE VhfRefuses(t)
  <2>3. Busy' = Busy /\ \A u \in Busy : thread'[u].report = thread[u].report
    BY <1>6 DEF VhfRefuses, Busy, At, TypeOK
  <2>4. thread' \in ThreadStates
    BY <1>6 DEF VhfRefuses, At, TypeOK
  <2>5. Handed' /\ Counted'
    BY <1>6, <2>3 DEF VhfRefuses, recordVars, Handed, Counted
  <2> QED
    BY <1>6, <2>4, <2>5 DEF VhfRefuses, recordVars, queueVars, TypeOK, Pending
<1>7. CASE Finish(t)
  <2>1. t \in Busy /\ Busy' = Busy \ {t}
    BY <1>7 DEF Finish, Busy, Leave, IdleThread, TypeOK
  <2>2. Cardinality(Busy') = Cardinality(Busy) - 1
    BY <2>1, BusyFinite, FS_RemoveElement
  <2>3. IsFiniteSet(Busy') /\ Cardinality(Busy') \in Nat
    BY <2>1, BusyFinite, FS_Subset, FS_CardinalityType
  <2>4. Counted' /\ active' \in Nat
    BY <1>7, <2>2, <2>3 DEF Finish, Counted
  <2>5. Handed'
    BY <1>7, <2>1 DEF Finish, Handed, Leave, TypeOK, Busy
  <2>6. thread' \in ThreadStates
    BY <1>7 DEF Finish, Leave, IdleThread, TypeOK
  <2> QED
    BY <1>7, <2>4, <2>5, <2>6 DEF Finish, queueVars, TypeOK, Pending
<1>8. CASE ReadyForNextReadReport(t)
  <2>1. t \notin Busy /\ thread' = At(t, "prepare")
    BY <1>8 DEF ReadyForNextReadReport, Busy
  <2>2. /\ thread' \in ThreadStates
        /\ Busy' = Busy /\ \A u \in Busy : thread'[u] = thread[u]
    BY <2>1, IdleMove
  <2> QED
    BY <1>8, <2>2
       DEF ReadyForNextReadReport, queueVars, TypeOK, Handed, Counted, Pending
<1>9. CASE ReadyTooLate(t)
  <2>1. t \notin Busy
    BY <1>9 DEF ReadyTooLate, Busy
  <2> QED
    BY <1>9, <2>1, IdleMove
       DEF ReadyTooLate, recordVars, queueVars, TypeOK, Handed, Counted, Pending
<1> QED
  BY <1>1, <1>2, <1>3, <1>4, <1>5, <1>6, <1>7, <1>8, <1>9 DEF Submission

LEMMA TypeArrival ==
  ASSUME TypeInv, NEW t \in Threads,
         FindDevice(t) \/ WriteReport(t) \/ VhfCallsReady(t)
  PROVE  TypeInv'
<1> USE DEF TypeInv, ThreadStates
<1>1. CASE FindDevice(t)
  <2>1. t \notin Busy
    BY <1>1 DEF FindDevice, Busy
  <2> QED
    BY <1>1, <2>1, IdleMove
       DEF FindDevice, recordVars, queueVars, TypeOK, Handed, Counted, Pending
<1>2. CASE WriteReport(t)
  <2>1. t \notin Busy
    BY <1>2 DEF WriteReport, Busy
  <2> QED
    BY <1>2, <2>1, IdleMove
       DEF WriteReport, recordVars, queueVars, TypeOK, Handed, Counted, Pending
<1>3. CASE VhfCallsReady(t)
  <2>1. t \notin Busy
    BY <1>3 DEF VhfCallsReady, Busy
  <2> QED
    BY <1>3, <2>1, IdleMove
       DEF VhfCallsReady, recordVars, queueVars, TypeOK, Handed, Counted, Pending
<1> QED
  BY <1>1, <1>2, <1>3

\* The steps in which no thread moves.
LEMMA TypeElsewhere ==
  ASSUME TypeInv, VhfConsumes \/ StartSucceeds \/ Remove \/ Removal
  PROVE  TypeInv'
<1> USE DEF TypeInv
<1>1. UNCHANGED <<thread, active>>
  BY DEF VhfConsumes, StartSucceeds, Remove, Removal, ShutDown, Drained,
         VhfDeleted, ReleaseBuffer, recordVars
<1>2. Handed' /\ Counted'
  BY <1>1 DEF Handed, Counted, Busy
<1>3. CASE ShutDown
  <2>1. protocol' \in Seq(Reports) /\ states' \in Seq(Reports)
    BY <1>3 DEF ShutDown
  <2>2. Pending' <= MaxPending
    BY <1>3, BoundsAssumption DEF ShutDown, Pending
  <2> QED
    BY <1>2, <1>3, <2>1, <2>2 DEF ShutDown, TypeOK
<1>4. CASE VhfConsumes \/ VhfDeleted
  BY <1>2, <1>4 DEF VhfConsumes, VhfDeleted, recordVars, queueVars, TypeOK, Pending
<1>5. CASE StartSucceeds \/ Remove \/ Drained \/ ReleaseBuffer
  BY <1>2, <1>5 DEF StartSucceeds, Remove, Drained, ReleaseBuffer, recordVars,
                    queueVars, TypeOK, Pending
<1> QED
  BY <1>3, <1>4, <1>5 DEF Removal

LEMMA TypeStep == TypeInv /\ [Next]_vars => TypeInv'
BY TypeSubmission, TypeArrival, TypeElsewhere, TypeStutter DEF Next

\* Every variable keeps its type: the queues never hold more reports than the
\* limit, and active_input_submissions, decremented at the end of every
\* submission, never goes below zero.
THEOREM TypeCorrect == Spec => []TypeOK
<1>1. TypeInv => TypeOK
  BY DEF TypeInv
<1> QED
  BY <1>1, TypeInit, TypeStep, PTL DEF Spec

-----------------------------------------------------------------------------
(* Removal.  The wait for active_input_submissions = 0 is enough because no  *)
(* submission starts once shutting_down is set.                              *)

Stages ==
  /\ shutting_down <=> remover \notin {"none", "shutdown"}
  /\ shutting_down => ~ready /\ Pending = 0
RemovalInv == Stages /\ NoSubmissionAfterDelete /\ NothingStranded

LEMMA RemovalInit == Init => RemovalInv
BY DEF Init, RemovalInv, Stages, NoSubmissionAfterDelete, NothingStranded, Pending

LEMMA RemovalStutter == RemovalInv /\ UNCHANGED vars => RemovalInv'
BY DEF vars, recordVars, queueVars, RemovalInv, Stages, NoSubmissionAfterDelete,
       NothingStranded, Pending

LEMMA RemovalSubmission ==
  ASSUME TypeInv, RemovalInv, NEW t \in Threads, Submission(t)
  PROVE  RemovalInv'
<1> USE DEF RemovalInv
<1>0. thread \in ThreadStates
  BY DEF TypeInv, TypeOK, ThreadStates
<1>1. ASSUME NEW d \in Discrete, QueueReport(t, d) PROVE RemovalInv'
  <2>1. /\ ~shutting_down /\ ~shutting_down' /\ UNCHANGED <<remover, ready>>
        /\ thread' = At(t, "prepare")
    BY <1>1 DEF QueueReport, recordVars
  <2>2. Stages'
    BY <2>1 DEF Stages
  <2>3. NoSubmissionAfterDelete'
    BY <2>1 DEF NoSubmissionAfterDelete, Stages
  <2>4. NothingStranded'
    BY <1>0, <2>1 DEF NothingStranded, At, ThreadStates
  <2> QED
    BY <2>2, <2>3, <2>4
<1>2. CASE QueueNothing(t) \/ ReadyTooLate(t)
  <2>1. /\ shutting_down /\ UNCHANGED <<remover, shutting_down, ready, protocol, states>>
        /\ thread' = Leave(t)
    BY <1>2 DEF QueueNothing, ReadyTooLate, recordVars, queueVars
  <2>2. Stages' /\ NothingStranded'
    BY <2>1 DEF Stages, NothingStranded, Pending
  <2>3. NoSubmissionAfterDelete'
    BY <1>0, <2>1 DEF NoSubmissionAfterDelete, Leave, IdleThread, ThreadStates
  <2> QED
    BY <2>2, <2>3
<1>3. CASE Prepare(t)
  <2>1. /\ ~shutting_down /\ ~shutting_down' /\ UNCHANGED remover /\ ~ready'
    BY <1>3 DEF Prepare, CanSubmit
  <2> QED
    BY <2>1 DEF Stages, NoSubmissionAfterDelete, NothingStranded
<1>4. CASE NothingToSubmit(t)
  <2>1. /\ ~CanSubmit
        /\ UNCHANGED <<remover, shutting_down, ready, protocol, states>>
        /\ thread' = Leave(t)
    BY <1>4 DEF NothingToSubmit, recordVars, queueVars
  <2>2. Stages'
    BY <2>1 DEF Stages, Pending
  <2>3. NothingStranded'
    BY <2>1 DEF CanSubmit, Stages, NothingStranded, Pending
  <2>4. NoSubmissionAfterDelete'
    BY <1>0, <2>1 DEF NoSubmissionAfterDelete, Leave, IdleThread, ThreadStates
  <2> QED
    BY <2>2, <2>3, <2>4
<1>5. CASE VhfAccepts(t) \/ VhfRefuses(t) \/ Finish(t)
  <2>1. /\ thread[t].at \in {"submit", "finish", "failed"}
        /\ UNCHANGED <<remover, shutting_down, ready, protocol, states>>
        /\ \A u \in Threads \ {t} : thread'[u] = thread[u]
    BY <1>0, <1>5
       DEF VhfAccepts, VhfRefuses, Finish, recordVars, queueVars, At, Leave,
           ThreadStates
  <2>2. Stages'
    BY <2>1 DEF Stages, Pending
  <2>3. NothingStranded'
    BY <2>1 DEF NothingStranded, Pending
  <2>4. NoSubmissionAfterDelete'
    BY <2>1 DEF NoSubmissionAfterDelete
  <2> QED
    BY <2>2, <2>3, <2>4
<1>6. CASE ReadyForNextReadReport(t)
  <2>1. /\ ~shutting_down /\ ~shutting_down' /\ UNCHANGED remover
        /\ thread' = At(t, "prepare")
    BY <1>6 DEF ReadyForNextReadReport
  <2>2. NothingStranded'
    BY <1>0, <2>1 DEF NothingStranded, At, ThreadStates
  <2> QED
    BY <2>1, <2>2 DEF Stages, NoSubmissionAfterDelete
<1> QED
  BY <1>1, <1>2, <1>3, <1>4, <1>5, <1>6 DEF Submission

LEMMA RemovalArrival ==
  ASSUME TypeInv, RemovalInv, NEW t \in Threads,
         FindDevice(t) \/ WriteReport(t) \/ VhfCallsReady(t)
  PROVE  RemovalInv'
<1>1. thread \in ThreadStates
  BY DEF TypeInv, TypeOK, ThreadStates
<1>2. /\ thread[t].at = "idle" /\ thread'[t].at \in {"found", "ready"}
      /\ \A u \in Threads \ {t} : thread'[u] = thread[u]
      /\ UNCHANGED <<remover, shutting_down, ready, protocol, states>>
  BY <1>1 DEF FindDevice, WriteReport, VhfCallsReady, At, ThreadStates,
              recordVars, queueVars
<1>3. Stages' /\ NothingStranded'
  BY <1>2 DEF RemovalInv, Stages, NothingStranded, Pending
<1>4. NoSubmissionAfterDelete'
  BY <1>2 DEF RemovalInv, NoSubmissionAfterDelete
<1> QED
  BY <1>3, <1>4 DEF RemovalInv

LEMMA RemovalElsewhere ==
  ASSUME TypeInv, RemovalInv, VhfConsumes \/ StartSucceeds \/ Remove \/ Removal
  PROVE  RemovalInv'
<1> USE DEF RemovalInv
<1>1. CASE VhfConsumes \/ StartSucceeds
  BY <1>1 DEF VhfConsumes, StartSucceeds, recordVars, queueVars, Stages,
              NoSubmissionAfterDelete, NothingStranded, Pending
<1>2. CASE Remove
  BY <1>2 DEF Remove, recordVars, queueVars, Stages, NoSubmissionAfterDelete,
              NothingStranded, Pending
<1>3. CASE ShutDown
  <2>1. Pending' = 0
    BY <1>3 DEF ShutDown, Pending
  <2> QED
    BY <1>3, <2>1 DEF ShutDown, Stages, NoSubmissionAfterDelete, NothingStranded
<1>4. CASE Drained
  <2>1. Busy = {}
    BY <1>4, BusyFinite, FS_EmptySet DEF Drained, TypeInv, Counted
  <2>2. NoSubmissionAfterDelete'
    BY <1>4, <2>1 DEF Drained, NoSubmissionAfterDelete, Busy
  <2> QED
    BY <1>4, <2>2 DEF Drained, recordVars, queueVars, Stages, NothingStranded, Pending
<1>5. CASE VhfDeleted \/ ReleaseBuffer
  BY <1>5 DEF VhfDeleted, ReleaseBuffer, recordVars, queueVars, Stages,
              NoSubmissionAfterDelete, NothingStranded, Pending
<1> QED
  BY <1>1, <1>2, <1>3, <1>4, <1>5 DEF Removal

LEMMA RemovalStep == TypeInv /\ RemovalInv /\ [Next]_vars => RemovalInv'
BY RemovalSubmission, RemovalArrival, RemovalElsewhere, RemovalStutter DEF Next

\* No thread calls VHF with the handle of a gamepad once delete_vhf_device has
\* stopped waiting for submissions.
THEOREM DrainedBeforeDelete == Spec => []NoSubmissionAfterDelete
<1>1. Init => TypeInv /\ RemovalInv
  BY TypeInit, RemovalInit
<1>2. TypeInv /\ RemovalInv /\ [Next]_vars => (TypeInv /\ RemovalInv)'
  BY TypeStep, RemovalStep
<1>3. RemovalInv => NoSubmissionAfterDelete
  BY DEF RemovalInv
<1> QED
  BY <1>1, <1>2, <1>3, PTL DEF Spec

\* While VHF is ready and a report waits, some thread is about to look: pushing
\* and becoming ready are each followed by a look at the other.
THEOREM NoLostWakeup == Spec => []NothingStranded
<1>1. Init => TypeInv /\ RemovalInv
  BY TypeInit, RemovalInit
<1>2. TypeInv /\ RemovalInv /\ [Next]_vars => (TypeInv /\ RemovalInv)'
  BY TypeStep, RemovalStep
<1>3. RemovalInv => NothingStranded
  BY DEF RemovalInv
<1> QED
  BY <1>1, <1>2, <1>3, PTL DEF Spec

-----------------------------------------------------------------------------
(* One report at a time.  The permission to submit is a token: VHF owes a    *)
(* callback, a callback runs, vhf_ready_for_input_report is set, a report is *)
(* being submitted, or VHF holds one; never two of these.                    *)

Holders == {t \in Threads : thread[t].at \in {"ready", "submit"}}
Token ==
  /\ \A t, u \in Holders : t = u
  /\ Holders # {} => ~vhf.due /\ ~ready /\ vhf.held = NoReport
  /\ vhf.due \/ vhf.held # NoReport => ~ready
  /\ vhf.held # NoReport => ~vhf.due

LEMMA TokenInit == Init => Token
BY DEF Init, Token, Holders, IdleThread

LEMMA TokenStutter == Token /\ UNCHANGED vars => Token'
BY DEF vars, recordVars, Token, Holders

LEMMA TokenSubmission ==
  ASSUME TypeInv, Token, NEW t \in Threads, Submission(t)
  PROVE  Token'
<1>0. thread \in ThreadStates /\ Handed
  BY DEF TypeInv, TypeOK, ThreadStates
<1>v. vhf \in [exists : BOOLEAN, held : Reports \cup {NoReport},
               due : BOOLEAN, refused : BOOLEAN]
  BY DEF TypeInv, TypeOK
\* Threads that neither take nor give the token.
<1>1. CASE \/ \E d \in Discrete : QueueReport(t, d)
           \/ QueueNothing(t) \/ NothingToSubmit(t) \/ Finish(t)
  <2>1. t \notin Holders /\ UNCHANGED <<vhf, ready>>
    BY <1>1 DEF QueueReport, QueueNothing, NothingToSubmit, Finish, recordVars,
                Holders
  <2>2. thread' = At(t, "prepare") \/ thread' = Leave(t)
    BY <1>1 DEF QueueReport, QueueNothing, NothingToSubmit, Finish
  <2>3. thread'[t].at \notin {"ready", "submit"}
    BY <1>0, <2>2 DEF At, Leave, IdleThread, ThreadStates
  <2>4. \A u \in Threads \ {t} : thread'[u] = thread[u]
    BY <1>0, <2>2 DEF At, Leave, ThreadStates
  <2>5. Holders' = Holders
    BY <2>1, <2>3, <2>4 DEF Holders
  <2> QED
    BY <2>1, <2>5 DEF Token
<1>2. CASE Prepare(t)
  <2>1. ready /\ ~ready' /\ UNCHANGED vhf
    BY <1>2 DEF Prepare, CanSubmit
  <2>2. Holders = {} /\ ~vhf.due /\ vhf.held = NoReport
    BY <2>1 DEF Token
  <2>3. \A u \in Threads \ {t} : thread'[u] = thread[u]
    BY <1>0, <1>2 DEF Prepare, ThreadStates
  <2>4. Holders' \subseteq {t}
    BY <2>2, <2>3 DEF Holders
  <2> QED
    BY <2>1, <2>2, <2>4 DEF Token
<1>3. CASE VhfAccepts(t) \/ VhfRefuses(t)
  <2>1. t \in Holders /\ UNCHANGED ready
    BY <1>3 DEF VhfAccepts, VhfRefuses, Holders, recordVars
  <2>2. Holders = {t} /\ ~vhf.due /\ ~ready /\ vhf.held = NoReport
    BY <2>1 DEF Token
  <2>3. Holders' = {}
    BY <1>0, <1>3, <2>2 DEF VhfAccepts, VhfRefuses, Holders, At, ThreadStates
  <2>4. ~(vhf'.due /\ vhf'.held # NoReport)
    BY <1>3, <1>v, <2>2 DEF VhfAccepts, VhfRefuses
  <2> QED
    BY <2>1, <2>2, <2>3, <2>4 DEF Token
<1>4. CASE ReadyForNextReadReport(t) \/ ReadyTooLate(t)
  <2>1. t \in Holders /\ UNCHANGED vhf
    BY <1>4 DEF ReadyForNextReadReport, ReadyTooLate, Holders
  <2>2. Holders = {t} /\ ~vhf.due /\ vhf.held = NoReport
    BY <2>1 DEF Token
  <2>3. Holders' = {}
    BY <1>0, <1>4, <2>2 DEF ReadyForNextReadReport, ReadyTooLate, Holders, At,
                            Leave, IdleThread, ThreadStates
  <2> QED
    BY <2>1, <2>2, <2>3 DEF Token
<1> QED
  BY <1>1, <1>2, <1>3, <1>4 DEF Submission

LEMMA TokenArrival ==
  ASSUME TypeInv, Token, NEW t \in Threads,
         FindDevice(t) \/ WriteReport(t) \/ VhfCallsReady(t)
  PROVE  Token'
<1>0. thread \in ThreadStates
  BY DEF TypeInv, TypeOK, ThreadStates
<1>v. vhf \in [exists : BOOLEAN, held : Reports \cup {NoReport},
               due : BOOLEAN, refused : BOOLEAN]
  BY DEF TypeInv, TypeOK
<1>1. CASE FindDevice(t) \/ WriteReport(t)
  <2>1. Holders' = Holders
    BY <1>0, <1>1 DEF FindDevice, WriteReport, Holders, At, ThreadStates
  <2> QED
    BY <1>1, <2>1 DEF FindDevice, WriteReport, recordVars, Token
<1>2. CASE VhfCallsReady(t)
  <2>1. vhf.due /\ ~vhf'.due /\ vhf'.held = vhf.held /\ UNCHANGED ready
    BY <1>2, <1>v DEF VhfCallsReady, recordVars
  <2>2. Holders = {} /\ ~ready /\ vhf.held = NoReport
    BY <2>1 DEF Token
  <2>3. Holders' \subseteq {t}
    BY <1>0, <1>2, <2>2 DEF VhfCallsReady, Holders, At, ThreadStates
  <2> QED
    BY <2>1, <2>2, <2>3 DEF Token
<1> QED
  BY <1>1, <1>2

LEMMA TokenElsewhere ==
  ASSUME TypeInv, Token, VhfConsumes \/ StartSucceeds \/ Remove \/ Removal
  PROVE  Token'
<1>v. vhf \in [exists : BOOLEAN, held : Reports \cup {NoReport},
               due : BOOLEAN, refused : BOOLEAN]
  BY DEF TypeInv, TypeOK
<1>1. Holders' = Holders
  BY DEF VhfConsumes, StartSucceeds, Remove, Removal, ShutDown, Drained,
         VhfDeleted, ReleaseBuffer, Holders
<1>2. CASE VhfConsumes
  BY <1>v, <1>1, <1>2 DEF VhfConsumes, recordVars, Token
<1>3. CASE StartSucceeds \/ Remove \/ Drained \/ ReleaseBuffer
  BY <1>1, <1>3 DEF StartSucceeds, Remove, Drained, ReleaseBuffer, recordVars, Token
<1>4. CASE ShutDown
  BY <1>1, <1>4 DEF ShutDown, Token
<1>5. CASE VhfDeleted
  BY <1>v, <1>1, <1>5 DEF VhfDeleted, recordVars, Token
<1> QED
  BY <1>2, <1>3, <1>4, <1>5 DEF Removal

LEMMA TokenStep == TypeInv /\ Token /\ [Next]_vars => Token'
BY TokenSubmission, TokenArrival, TokenElsewhere, TokenStutter DEF Next

\* However many threads find the gamepad ready, VHF is handed one report and no
\* other until it asks again.
THEOREM OnePermission == Spec => []OneReportAtATime
<1>1. Init => TypeInv /\ Token
  BY TypeInit, TokenInit
<1>2. TypeInv /\ Token /\ [Next]_vars => (TypeInv /\ Token)'
  BY TypeStep, TokenStep
<1>3. Token => OneReportAtATime
  BY DEF Token, OneReportAtATime, Holders
<1> QED
  BY <1>1, <1>2, <1>3, PTL DEF Spec

-----------------------------------------------------------------------------
(* Reports are numbered in the order they are pushed, each queue keeps that  *)
(* order, and no report is in two places.                                    *)

Sorted(s) == \A i, j \in 1..Len(s) : i < j => s[i].id < s[j].id
OfClass(s, kind) == \A r \in Elements(s) : r.kind = kind /\ r.id <= pushed
Numbered ==
  /\ Sorted(protocol) /\ OfClass(protocol, "protocol")
  /\ Sorted(states) /\ OfClass(states, "state")
  /\ \A t \in Busy : thread[t].report.id <= pushed /\ thread[t].report \notin Waiting
  /\ \A t, u \in Busy : thread[t].report = thread[u].report => t = u

LEMMA ReportId ==
  ASSUME NEW s \in Seq(Reports), NEW i \in 1..Len(s)
  PROVE  s[i] \in Reports /\ s[i].id \in Nat /\ s[i] \in Elements(s)
<1>1. s[i] \in Reports
  BY ElementOfSeq
<1> QED
  BY <1>1, BoundsAssumption DEF Reports, Elements

LEMMA SortedTail ==
  ASSUME NEW s \in Seq(Reports), s # <<>>, Sorted(s)
  PROVE  /\ Sorted(Tail(s))
         /\ Elements(Tail(s)) = Elements(s) \ {Head(s)}
         /\ Head(s) \in Elements(s)
         /\ Stream!Oldest(Elements(s)) = {Head(s)}
<1>1. /\ Len(s) \in Nat \ {0} /\ Head(s) = s[1] /\ Head(s) \in Reports
      /\ Tail(s) \in Seq(Reports) /\ Len(Tail(s)) = Len(s) - 1
      /\ \A i \in 1..(Len(s) - 1) : Tail(s)[i] = s[i + 1]
  BY TailFacts
<1>2. \A i \in 1..Len(s) : s[i] \in Reports /\ s[i].id \in Nat
  BY ReportId
<1>3. Sorted(Tail(s))
  <2> SUFFICES ASSUME NEW i \in 1..(Len(s) - 1), NEW j \in 1..(Len(s) - 1), i < j
               PROVE  Tail(s)[i].id < Tail(s)[j].id
    BY <1>1 DEF Sorted
  <2>1. i + 1 \in 1..Len(s) /\ j + 1 \in 1..Len(s) /\ i + 1 < j + 1
    BY <1>1
  <2>2. s[i + 1].id < s[j + 1].id
    BY <2>1 DEF Sorted
  <2> QED
    BY <1>1, <2>2
<1>4. \A i \in 2..Len(s) : s[1].id < s[i].id
  BY <1>1 DEF Sorted
<1>5. ASSUME NEW r \in Elements(Tail(s)) PROVE r \in Elements(s) \ {Head(s)}
  <2>1. PICK i \in 1..(Len(s) - 1) : r = Tail(s)[i]
    BY <1>1 DEF Elements
  <2>2. i + 1 \in 2..Len(s) /\ r = s[i + 1]
    BY <1>1, <2>1
  <2>3. r \in Elements(s)
    BY <1>1, <2>2 DEF Elements
  <2>4. r # s[1]
    BY <1>1, <1>2, <1>4, <2>2
  <2> QED
    BY <1>1, <2>3, <2>4
<1>6. ASSUME NEW r \in Elements(s), r # Head(s) PROVE r \in Elements(Tail(s))
  <2>1. PICK i \in 1..Len(s) : r = s[i]
    BY DEF Elements
  <2>2. i # 1
    BY <1>1, <1>6, <2>1
  <2>3. i - 1 \in 1..(Len(s) - 1) /\ (i - 1) + 1 = i
    BY <1>1, <2>2
  <2>4. Tail(s)[i - 1] = r
    BY <1>1, <2>1, <2>3
  <2> QED
    BY <1>1, <2>3, <2>4 DEF Elements
<1>7. Head(s) \in Elements(s)
  BY <1>1 DEF Elements
<1>8. ASSUME NEW r \in Elements(s) PROVE s[1].id <= r.id
  <2>1. PICK i \in 1..Len(s) : r = s[i]
    BY DEF Elements
  <2> QED
    BY <1>1, <1>2, <1>4, <2>1
<1>9. ASSUME NEW r \in Stream!Oldest(Elements(s)) PROVE r = Head(s)
  <2>1. r \in Elements(s) /\ r.id <= s[1].id
    BY <1>1, <1>7 DEF Stream!Oldest
  <2>2. PICK i \in 1..Len(s) : r = s[i]
    BY <2>1 DEF Elements
  <2>3. i = 1
    BY <1>1, <1>2, <1>4, <2>1, <2>2
  <2> QED
    BY <1>1, <2>2, <2>3
<1>10. Head(s) \in Stream!Oldest(Elements(s))
  BY <1>1, <1>7, <1>8 DEF Stream!Oldest
<1> QED
  BY <1>3, <1>5, <1>6, <1>7, <1>9, <1>10

\* The newest report of a queue is its last one.
LEMMA SortedLast ==
  ASSUME NEW s \in Seq(Reports), s # <<>>, Sorted(s)
  PROVE  Stream!Newest(Elements(s)) = {s[Len(s)]}
<1>1. Len(s) \in Nat \ {0} /\ Len(s) \in 1..Len(s)
  BY TailFacts
<1>2. \A i \in 1..Len(s) : s[i].id \in Nat
  BY ReportId
<1>3. \A i \in 1..Len(s) : i # Len(s) => s[i].id < s[Len(s)].id
  BY <1>1 DEF Sorted
<1>4. s[Len(s)] \in Stream!Newest(Elements(s))
  BY <1>1, <1>2, <1>3 DEF Stream!Newest, Elements
<1>5. ASSUME NEW r \in Stream!Newest(Elements(s)) PROVE r = s[Len(s)]
  <2>1. r \in Elements(s) /\ s[Len(s)].id <= r.id
    BY <1>1 DEF Stream!Newest, Elements
  <2>2. PICK i \in 1..Len(s) : r = s[i]
    BY <2>1 DEF Elements
  <2>3. i = Len(s)
    BY <1>1, <1>2, <1>3, <2>1, <2>2
  <2> QED
    BY <2>2, <2>3
<1> QED
  BY <1>4, <1>5

LEMMA SortedAppend ==
  ASSUME NEW s \in Seq(Reports), NEW r \in Reports, Sorted(s),
         \A e \in Elements(s) : e.id < r.id
  PROVE  /\ Sorted(Append(s, r))
         /\ Elements(Append(s, r)) = Elements(s) \cup {r}
<1>1. /\ Append(s, r) \in Seq(Reports) /\ Len(Append(s, r)) = Len(s) + 1
      /\ Len(s) \in Nat
      /\ \A i \in 1..Len(s) : Append(s, r)[i] = s[i]
      /\ Append(s, r)[Len(s) + 1] = r
  BY AppendFacts
<1>2. 1..(Len(s) + 1) = 1..Len(s) \cup {Len(s) + 1}
  BY <1>1
<1>3. Elements(Append(s, r)) = Elements(s) \cup {r}
  BY <1>1, <1>2 DEF Elements
<1>4. Sorted(Append(s, r))
  <2> SUFFICES ASSUME NEW i \in 1..(Len(s) + 1), NEW j \in 1..(Len(s) + 1), i < j
               PROVE  Append(s, r)[i].id < Append(s, r)[j].id
    BY <1>1 DEF Sorted
  <2>1. i \in 1..Len(s) /\ Append(s, r)[i] = s[i] /\ s[i] \in Elements(s)
    BY <1>1 DEF Elements
  <2>2. CASE j \in 1..Len(s)
    BY <1>1, <2>1, <2>2 DEF Sorted
  <2>3. CASE j = Len(s) + 1
    BY <1>1, <2>1, <2>3
  <2> QED
    BY <1>2, <2>2, <2>3
<1> QED
  BY <1>3, <1>4

LEMMA SortedReplace ==
  ASSUME NEW s \in Seq(Reports), s # <<>>, NEW r \in Reports, Sorted(s),
         \A e \in Elements(s) : e.id < r.id
  PROVE  LET n == [s EXCEPT ![Len(s)] = r]
         IN  /\ Sorted(n)
             /\ Elements(n) = (Elements(s) \ {s[Len(s)]}) \cup {r}
<1> DEFINE n == [s EXCEPT ![Len(s)] = r]
<1>1. /\ n \in Seq(Reports) /\ Len(n) = Len(s)
      /\ \A i \in 1..Len(s) : n[i] = IF i = Len(s) THEN r ELSE s[i]
  BY ReplaceFacts
<1>2. Len(s) \in Nat \ {0} /\ Len(s) \in 1..Len(s)
  BY TailFacts
<1>3. \A i \in 1..Len(s) : s[i] \in Elements(s) /\ s[i].id \in Nat
  BY ReportId
<1>h. HIDE DEF n
<1>4. Sorted(n)
  <2> SUFFICES ASSUME NEW i \in 1..Len(s), NEW j \in 1..Len(s), i < j
               PROVE  n[i].id < n[j].id
    BY <1>1 DEF Sorted
  <2>1. i # Len(s) /\ n[i] = s[i]
    BY <1>1, <1>2
  <2>2. CASE j = Len(s)
    BY <1>1, <1>3, <2>1, <2>2
  <2>3. CASE j # Len(s)
    BY <1>1, <2>1, <2>3 DEF Sorted
  <2> QED
    BY <2>2, <2>3
<1>5. ASSUME NEW e \in Elements(n) PROVE e \in (Elements(s) \ {s[Len(s)]}) \cup {r}
  <2>1. PICK i \in 1..Len(s) : e = n[i]
    BY <1>1 DEF Elements
  <2>2. CASE i = Len(s)
    BY <1>1, <2>1, <2>2
  <2>3. CASE i # Len(s)
    <3>1. e = s[i] /\ e \in Elements(s)
      BY <1>1, <1>3, <2>1, <2>3
    <3>2. s[i].id < s[Len(s)].id
      BY <1>2, <2>3 DEF Sorted
    <3>3. e # s[Len(s)]
      BY <1>2, <1>3, <3>1, <3>2
    <3> QED
      BY <3>1, <3>3
  <2> QED
    BY <2>2, <2>3
<1>6. ASSUME NEW e \in Elements(s), e # s[Len(s)] PROVE e \in Elements(n)
  <2>1. PICK i \in 1..Len(s) : e = s[i]
    BY DEF Elements
  <2>2. i # Len(s) /\ n[i] = e
    BY <1>1, <1>6, <2>1
  <2> QED
    BY <1>1, <2>1, <2>2 DEF Elements
<1>7. r \in Elements(n)
  BY <1>1, <1>2 DEF Elements
<1>8. Elements(n) = (Elements(s) \ {s[Len(s)]}) \cup {r}
  BY <1>5, <1>6, <1>7
<1> QED
  BY <1>4, <1>8 DEF n

\* A queue holds as many different reports as it is long.
LEMMA SortedCount ==
  ASSUME NEW s \in Seq(Reports), Sorted(s)
  PROVE  IsFiniteSet(Elements(s)) /\ Cardinality(Elements(s)) = Len(s)
<1> DEFINE f == [i \in 1..Len(s) |-> s[i]]
<1>1. Len(s) \in Nat
  OBVIOUS
<1>2. IsFiniteSet(1..Len(s)) /\ Cardinality(1..Len(s)) = Len(s)
  BY <1>1, FS_Interval
<1>3. f \in [1..Len(s) -> Elements(s)]
  BY DEF Elements
<1>4. \A i \in 1..Len(s) : s[i].id \in Nat
  BY ReportId
<1>5. \A i, j \in 1..Len(s) : f[i] = f[j] => i = j
  BY <1>1, <1>4 DEF Sorted
<1>6. f \in Injection(1..Len(s), Elements(s))
  BY <1>3, <1>5, Fun_IsInj
<1>7. \A e \in Elements(s) : \E i \in 1..Len(s) : f[i] = e
  BY DEF Elements
<1>8. f \in Surjection(1..Len(s), Elements(s))
  BY <1>3, <1>7, Fun_IsSurj
<1>9. ExistsBijection(1..Len(s), Elements(s))
  BY <1>6, <1>8 DEF ExistsBijection, Bijection
<1> QED
  BY <1>2, <1>9, FS_Bijection

LEMMA NumberedInit == Init => Numbered
<1> SUFFICES ASSUME Init PROVE Numbered
  OBVIOUS
<1>1. Busy = {}
  BY DEF Init, Busy, IdleThread
<1>2. Sorted(<<>>) /\ Elements(<<>>) = {}
  BY DEF Sorted, Elements
<1> QED
  BY <1>1, <1>2 DEF Init, Numbered, OfClass

\* No step but a push or a Prepare moves a report between the queues and the
\* threads; a removal empties the queues.
LEMMA NumberedElsewhere ==
  ASSUME Numbered,
         UNCHANGED <<protocol, states>> \/ (protocol' = <<>> /\ states' = <<>>),
         pushed' = pushed,
         Busy' \subseteq Busy,
         \A t \in Busy' : thread'[t].report = thread[t].report
  PROVE  Numbered'
<1>1. Sorted(<<>>) /\ Elements(<<>>) = {}
  BY DEF Sorted, Elements
<1>2. CASE UNCHANGED <<protocol, states>>
  BY <1>2 DEF Numbered, OfClass, Waiting
<1>3. CASE protocol' = <<>> /\ states' = <<>>
  BY <1>1, <1>3 DEF Numbered, OfClass, Waiting
<1> QED
  BY <1>2, <1>3

\* What making room leaves of a queue keeps its order.
LEMMA RoomSorted ==
  ASSUME TypeInv, Numbered
  PROVE  /\ ProtocolWithRoom \in Seq(Reports) /\ Sorted(ProtocolWithRoom)
         /\ Elements(ProtocolWithRoom) \subseteq Elements(protocol)
         /\ StatesWithRoom \in Seq(Reports) /\ Sorted(StatesWithRoom)
         /\ Elements(StatesWithRoom) \subseteq Elements(states)
<1>1. /\ protocol \in Seq(Reports) /\ states \in Seq(Reports)
      /\ Pending <= MaxPending /\ Sorted(protocol) /\ Sorted(states)
  BY DEF TypeInv, TypeOK, Numbered
<1>2. /\ \/ ProtocolWithRoom = protocol
         \/ protocol # <<>> /\ ProtocolWithRoom = Tail(protocol)
      /\ \/ StatesWithRoom = states
         \/ states # <<>> /\ StatesWithRoom = Tail(states)
  BY <1>1, RoomFacts
<1>3. protocol # <<>> => /\ Tail(protocol) \in Seq(Reports)
                         /\ Sorted(Tail(protocol))
                         /\ Elements(Tail(protocol)) \subseteq Elements(protocol)
  BY <1>1, SortedTail, TailFacts
<1>4. states # <<>> => /\ Tail(states) \in Seq(Reports)
                       /\ Sorted(Tail(states))
                       /\ Elements(Tail(states)) \subseteq Elements(states)
  BY <1>1, SortedTail, TailFacts
<1> QED
  BY <1>1, <1>2, <1>3, <1>4

LEMMA PushSorted ==
  ASSUME TypeInv, Numbered, NEW r \in Reports, r.id = pushed + 1,
         \/ r.kind = "protocol" /\ PushProtocol(r)
         \/ r.kind = "state" /\ PushState(r)
  PROVE  /\ Sorted(protocol') /\ Sorted(states')
         /\ \A e \in Elements(protocol') :
              e \in Elements(protocol) \/ (e = r /\ r.kind = "protocol")
         /\ \A e \in Elements(states') :
              e \in Elements(states) \/ (e = r /\ r.kind = "state")
<1>1. /\ protocol \in Seq(Reports) /\ states \in Seq(Reports)
      /\ Sorted(protocol) /\ Sorted(states) /\ pushed \in Nat
  BY BoundsAssumption DEF TypeInv, TypeOK, Numbered
<1>2. \A e \in Elements(protocol) \cup Elements(states) : e.id < r.id
  <2> SUFFICES ASSUME NEW e \in Elements(protocol) \cup Elements(states)
               PROVE  e.id < r.id
    OBVIOUS
  <2>1. e.id <= pushed
    BY DEF Numbered, OfClass
  <2>2. e.id \in Nat
    BY <1>1, ReportId DEF Elements
  <2> QED
    BY <1>1, <2>1, <2>2
<1>3. /\ ProtocolWithRoom \in Seq(Reports) /\ Sorted(ProtocolWithRoom)
      /\ Elements(ProtocolWithRoom) \subseteq Elements(protocol)
      /\ StatesWithRoom \in Seq(Reports) /\ Sorted(StatesWithRoom)
      /\ Elements(StatesWithRoom) \subseteq Elements(states)
  BY RoomSorted
<1>4. CASE r.kind = "protocol" /\ PushProtocol(r)
  <2>1. protocol' = Append(ProtocolWithRoom, r) /\ states' = StatesWithRoom
    BY <1>4 DEF PushProtocol
  <2>2. /\ Sorted(Append(ProtocolWithRoom, r))
        /\ Elements(Append(ProtocolWithRoom, r)) = Elements(ProtocolWithRoom) \cup {r}
    BY <1>2, <1>3, SortedAppend
  <2> QED
    BY <1>3, <1>4, <2>1, <2>2
<1>5. CASE /\ r.kind = "state" /\ protocol' = ProtocolWithRoom
           /\ states' = Append(StatesWithRoom, r)
  <2>2. /\ Sorted(Append(StatesWithRoom, r))
        /\ Elements(Append(StatesWithRoom, r)) = Elements(StatesWithRoom) \cup {r}
    BY <1>2, <1>3, SortedAppend
  <2> QED
    BY <1>3, <1>5, <2>2
<1>6. CASE /\ r.kind = "state" /\ protocol' = protocol /\ states # <<>>
           /\ states' = [states EXCEPT ![Len(states)] = r]
  <2>2. /\ Sorted([states EXCEPT ![Len(states)] = r])
        /\ Elements([states EXCEPT ![Len(states)] = r])
             = (Elements(states) \ {states[Len(states)]}) \cup {r}
    BY <1>1, <1>2, <1>6, SortedReplace
  <2> QED
    BY <1>1, <1>6, <2>2
<1> QED
  BY <1>4, <1>5, <1>6 DEF PushState

\* The report that QueueReport pushes.
NewReport(t, d) ==
  [id |-> pushed + 1, kind |-> IF t \in WriteThreads THEN "protocol" ELSE "state",
   discrete |-> d]

LEMMA QueueReportPushes ==
  ASSUME TypeInv, NEW t \in Threads, NEW d \in Discrete, QueueReport(t, d)
  PROVE  LET r == NewReport(t, d)
         IN  /\ r \in Reports /\ r.id = pushed + 1 /\ pushed' = pushed + 1
             /\ \/ r.kind = "protocol" /\ PushProtocol(r)
                \/ r.kind = "state" /\ PushState(r)
             /\ t \notin Busy /\ thread' = At(t, "prepare")
             /\ Busy' = Busy /\ \A u \in Busy : thread'[u] = thread[u]
<1>1. pushed + 1 \in 1..MaxReports /\ pushed' = pushed + 1
  BY BoundsAssumption DEF QueueReport, TypeInv, TypeOK
<1>2. NewReport(t, d) \in Reports /\ NewReport(t, d).id = pushed + 1
  BY <1>1 DEF NewReport, Reports, Kinds
<1>3. \/ NewReport(t, d).kind = "protocol" /\ PushProtocol(NewReport(t, d))
      \/ NewReport(t, d).kind = "state" /\ PushState(NewReport(t, d))
  BY <1>1 DEF QueueReport, NewReport
<1>4. t \notin Busy /\ thread' = At(t, "prepare")
  BY DEF QueueReport, Busy
<1> QED
  BY <1>1, <1>2, <1>3, <1>4, IdleMove

LEMMA NumberedPush ==
  ASSUME TypeInv, Numbered, NEW t \in Threads, NEW d \in Discrete, QueueReport(t, d)
  PROVE  Numbered'
<1> DEFINE r == NewReport(t, d)
<1>1. /\ r \in Reports /\ r.id = pushed + 1 /\ pushed' = pushed + 1
      /\ \/ r.kind = "protocol" /\ PushProtocol(r)
         \/ r.kind = "state" /\ PushState(r)
      /\ Busy' = Busy /\ \A u \in Busy : thread'[u] = thread[u]
  BY QueueReportPushes
<1> HIDE DEF r
<1>2. /\ Sorted(protocol') /\ Sorted(states')
      /\ \A e \in Elements(protocol') :
           e \in Elements(protocol) \/ (e = r /\ r.kind = "protocol")
      /\ \A e \in Elements(states') :
           e \in Elements(states) \/ (e = r /\ r.kind = "state")
  BY <1>1, PushSorted
<1>3. pushed \in Nat /\ Handed
  BY BoundsAssumption DEF TypeInv, TypeOK
<1>4. \A e \in Elements(protocol) \cup Elements(states) :
        e.id \in Nat /\ e.id <= pushed
  BY <1>3, ReportId DEF Elements, TypeInv, TypeOK, Numbered, OfClass
<1>5. OfClass(protocol, "protocol")' /\ OfClass(states, "state")'
  BY <1>1, <1>2, <1>3, <1>4 DEF Numbered, OfClass
<1>6. ASSUME NEW u \in Busy
      PROVE  thread[u].report.id <= pushed' /\ thread[u].report \notin Waiting'
  <2>1. thread[u].report.id <= pushed /\ thread[u].report \notin Waiting
    BY DEF Numbered
  <2>2. thread[u].report.id \in Nat
    BY <1>3, BoundsAssumption DEF Handed, Reports
  <2>3. thread[u].report # r
    BY <1>1, <1>3, <2>1, <2>2
  <2> QED
    BY <1>1, <1>2, <1>3, <2>1, <2>2, <2>3 DEF Waiting
<1> QED
  BY <1>1, <1>2, <1>5, <1>6 DEF Numbered

LEMMA NumberedTake ==
  ASSUME TypeInv, Numbered, NEW t \in Threads, Prepare(t)
  PROVE  /\ Numbered'
         /\ NextReport \in Waiting /\ Waiting' = Waiting \ {NextReport}
         /\ thread' = [thread EXCEPT ![t] = [at |-> "submit", report |-> NextReport]]
         /\ Busy' = Busy \cup {t} /\ t \notin Busy
<1>1. /\ protocol \in Seq(Reports) /\ states \in Seq(Reports)
      /\ Sorted(protocol) /\ Sorted(states) /\ pushed' = pushed
      /\ OfClass(protocol, "protocol") /\ OfClass(states, "state")
  BY DEF TypeInv, TypeOK, Numbered, Prepare
<1>2. thread' = [thread EXCEPT ![t] = [at |-> "submit", report |-> NextReport]]
  BY DEF Prepare, NextReport
<1>3. t \notin Busy /\ Busy' = Busy \cup {t}
  BY <1>2 DEF Prepare, Busy, TypeInv, TypeOK
<1>4. \/ /\ protocol # <<>> /\ protocol' = Tail(protocol)
         /\ states' = states /\ NextReport = Head(protocol)
      \/ /\ states # <<>> /\ states' = Tail(states)
         /\ protocol' = protocol /\ NextReport = Head(states)
  BY TakeType DEF TypeInv
<1>5. protocol # <<>> => /\ Sorted(Tail(protocol)) /\ Head(protocol) \in Elements(protocol)
                         /\ Elements(Tail(protocol)) = Elements(protocol) \ {Head(protocol)}
  BY <1>1, SortedTail
<1>6. states # <<>> => /\ Sorted(Tail(states)) /\ Head(states) \in Elements(states)
                       /\ Elements(Tail(states)) = Elements(states) \ {Head(states)}
  BY <1>1, SortedTail
<1>7. Elements(protocol) \cap Elements(states) = {}
  BY <1>1 DEF OfClass
<1>8. NextReport \in Waiting /\ Waiting' = Waiting \ {NextReport}
  BY <1>4, <1>5, <1>6, <1>7 DEF Waiting
<1>9. /\ Sorted(protocol)' /\ Sorted(states)'
      /\ OfClass(protocol, "protocol")' /\ OfClass(states, "state")'
  BY <1>1, <1>4, <1>5, <1>6 DEF OfClass
<1>10. NextReport.id <= pushed
  BY <1>1, <1>8 DEF Waiting, OfClass
<1>11. \A u \in Busy : thread'[u] = thread[u] /\ thread[u].report # NextReport
  BY <1>2, <1>3, <1>8 DEF Numbered, TypeInv, TypeOK, Busy
<1>12. thread'[t].report = NextReport
  BY <1>2 DEF TypeInv, TypeOK
<1>13. \A u \in Busy' : thread'[u].report.id <= pushed' /\ thread'[u].report \notin Waiting'
  BY <1>1, <1>3, <1>8, <1>10, <1>11, <1>12 DEF Numbered
<1>14. \A u, w \in Busy' : thread'[u].report = thread'[w].report => u = w
  BY <1>3, <1>11, <1>12 DEF Numbered
<1> QED
  BY <1>2, <1>3, <1>8, <1>9, <1>13, <1>14 DEF Numbered

LEMMA NumberedStep == TypeInv /\ Numbered /\ [Next]_vars => Numbered'
<1> SUFFICES ASSUME TypeInv, Numbered, [Next]_vars PROVE Numbered'
  OBVIOUS
<1>1. ASSUME NEW t \in Threads, NEW d \in Discrete, QueueReport(t, d) PROVE Numbered'
  BY <1>1, NumberedPush
<1>2. ASSUME NEW t \in Threads, Prepare(t) PROVE Numbered'
  BY <1>2, NumberedTake
<1>3. ASSUME NEW t \in Threads,
             \/ QueueNothing(t) \/ NothingToSubmit(t) \/ ReadyForNextReadReport(t)
             \/ ReadyTooLate(t) \/ FindDevice(t) \/ WriteReport(t) \/ VhfCallsReady(t)
      PROVE  Numbered'
  <2>1. t \notin Busy
    BY <1>3 DEF QueueNothing, NothingToSubmit, ReadyForNextReadReport, ReadyTooLate,
                FindDevice, WriteReport, VhfCallsReady, Busy
  <2>2. \/ thread' = At(t, "found") \/ thread' = At(t, "ready")
        \/ thread' = At(t, "prepare") \/ thread' = Leave(t)
    BY <1>3 DEF QueueNothing, NothingToSubmit, ReadyForNextReadReport, ReadyTooLate,
                FindDevice, WriteReport, VhfCallsReady
  <2>3. Busy' = Busy /\ \A u \in Busy : thread'[u] = thread[u]
    BY <2>1, <2>2, IdleMove
  <2>4. UNCHANGED <<protocol, states, pushed>>
    BY <1>3 DEF QueueNothing, NothingToSubmit, ReadyForNextReadReport, ReadyTooLate,
                FindDevice, WriteReport, VhfCallsReady, queueVars
  <2> QED
    BY <2>3, <2>4, NumberedElsewhere
<1>4. ASSUME NEW t \in Threads, VhfAccepts(t) \/ VhfRefuses(t) \/ Finish(t)
      PROVE  Numbered'
  <2>0. /\ thread \in ThreadStates /\ t \in Busy
        /\ thread' \in {At(t, "finish"), At(t, "failed"), Leave(t)}
    BY <1>4 DEF VhfAccepts, VhfRefuses, Finish, Busy, TypeInv, TypeOK, ThreadStates
  <2>1. Busy' \subseteq Busy /\ \A u \in Busy' : thread'[u].report = thread[u].report
    BY <2>0 DEF Busy, At, Leave, IdleThread, ThreadStates
  <2>2. UNCHANGED <<protocol, states, pushed>>
    BY <1>4 DEF VhfAccepts, VhfRefuses, Finish, queueVars
  <2> QED
    BY <2>1, <2>2, NumberedElsewhere
<1>5. CASE VhfConsumes \/ StartSucceeds \/ Remove \/ Removal
  <2>1. /\ UNCHANGED <<thread, pushed>>
        /\ UNCHANGED <<protocol, states>> \/ (protocol' = <<>> /\ states' = <<>>)
    BY <1>5 DEF VhfConsumes, StartSucceeds, Remove, Removal, ShutDown, Drained,
                VhfDeleted, ReleaseBuffer, queueVars
  <2>2. Busy' = Busy
    BY <2>1 DEF Busy
  <2> QED
    BY <2>1, <2>2, NumberedElsewhere
<1>6. CASE UNCHANGED vars
  BY <1>6, NumberedElsewhere DEF vars, queueVars, Busy
<1> QED
  BY <1>1, <1>2, <1>3, <1>4, <1>5, <1>6 DEF Next, Submission

-----------------------------------------------------------------------------
(* The buffer.  in_flight_input_report points to the report that is being    *)
(* submitted or that VHF holds; a failed submission clears it only if it     *)
(* still is that submission's own report.                                    *)

Buffers ==
  /\ \A t \in Submitting : in_flight = thread[t].report
  /\ vhf.held # NoReport => in_flight = vhf.held
  /\ \A t \in Threads : thread[t].at = "failed" => thread[t].report # vhf.held
  /\ remover \in {"release", "done"} => vhf.held = NoReport

LEMMA BuffersInit == Init => Buffers
BY DEF Init, Buffers, Submitting, IdleThread

\* Threads that neither submit nor come back from a submission.
LEMMA BuffersElsewhere ==
  ASSUME TypeInv, Buffers, UNCHANGED <<in_flight, remover>>, vhf'.held = vhf.held,
         \A t \in Threads :
           \/ thread'[t] = thread[t]
           \/ thread'[t].at \notin {"submit", "failed"}
  PROVE  Buffers'
<1>1. Submitting' \subseteq Submitting /\ \A t \in Submitting' : thread'[t] = thread[t]
  BY DEF Submitting
<1> QED
  BY <1>1 DEF Buffers

LEMMA BuffersStep ==
  TypeInv /\ RemovalInv /\ Token /\ Numbered /\ Buffers /\ [Next]_vars => Buffers'
<1> SUFFICES ASSUME TypeInv, RemovalInv, Token, Numbered, Buffers, [Next]_vars
             PROVE  Buffers'
  OBVIOUS
<1>0. thread \in ThreadStates /\ Handed
  BY DEF TypeInv, TypeOK, ThreadStates
<1>v. /\ vhf \in [exists : BOOLEAN, held : Reports \cup {NoReport},
                  due : BOOLEAN, refused : BOOLEAN]
      /\ NoReport \notin Reports
  BY NoReportAssumption DEF TypeInv, TypeOK
<1>1. ASSUME NEW t \in Threads,
             \/ \E d \in Discrete : QueueReport(t, d)
             \/ QueueNothing(t) \/ NothingToSubmit(t) \/ ReadyTooLate(t)
             \/ FindDevice(t) \/ WriteReport(t) \/ VhfCallsReady(t)
      PROVE  Buffers'
  <2>1. \/ thread' = At(t, "found") \/ thread' = At(t, "ready")
        \/ thread' = At(t, "prepare") \/ thread' = Leave(t)
    BY <1>1 DEF QueueReport, QueueNothing, NothingToSubmit, ReadyTooLate,
                FindDevice, WriteReport, VhfCallsReady
  <2>2. \A u \in Threads :
          thread'[u] = thread[u] \/ thread'[u].at \notin {"submit", "failed"}
    BY <1>0, <2>1 DEF At, Leave, IdleThread, ThreadStates
  <2>3. UNCHANGED <<in_flight, remover>> /\ vhf'.held = vhf.held
    BY <1>1, <1>v DEF QueueReport, QueueNothing, NothingToSubmit, ReadyTooLate,
                FindDevice, WriteReport, VhfCallsReady, recordVars
  <2> QED
    BY <2>2, <2>3, BuffersElsewhere
<1>2. ASSUME NEW t \in Threads, ReadyForNextReadReport(t) PROVE Buffers'
  <2>1. t \in Holders /\ UNCHANGED <<vhf, remover>> /\ thread' = At(t, "prepare")
    BY <1>2 DEF ReadyForNextReadReport, Holders
  <2>2. vhf.held = NoReport /\ Submitting = {}
    BY <1>2, <2>1 DEF Token, Holders, Submitting, ReadyForNextReadReport
  <2>3. \A u \in Threads :
          thread'[u] = thread[u] \/ thread'[u].at \notin {"submit", "failed"}
    BY <1>0, <2>1 DEF At, ThreadStates
  <2>4. Submitting' = {}
    BY <2>2, <2>3 DEF Submitting
  <2> QED
    BY <2>1, <2>2, <2>3, <2>4 DEF Buffers
<1>3. ASSUME NEW t \in Threads, Prepare(t) PROVE Buffers'
  <2>1. ready /\ UNCHANGED <<vhf, remover>> /\ in_flight' = NextReport
    BY <1>3 DEF Prepare, CanSubmit, NextReport
  <2>2. Holders = {} /\ vhf.held = NoReport
    BY <2>1 DEF Token
  <2>3. thread' = [thread EXCEPT ![t] = [at |-> "submit", report |-> NextReport]]
    BY <1>3 DEF Prepare, NextReport
  <2>4. Submitting' = {t} /\ thread'[t].report = NextReport
    BY <1>0, <2>2, <2>3 DEF Holders, Submitting, ThreadStates
  <2>5. \A u \in Threads : thread'[u].at = "failed" => thread'[u] = thread[u]
    BY <1>0, <2>3 DEF ThreadStates
  <2> QED
    BY <2>1, <2>2, <2>4, <2>5 DEF Buffers
<1>4. ASSUME NEW t \in Threads, VhfAccepts(t) PROVE Buffers'
  <2>1. /\ t \in Submitting /\ t \in Busy /\ t \in Holders
        /\ UNCHANGED <<in_flight, remover>>
        /\ vhf'.held = thread[t].report /\ thread' = At(t, "finish")
    BY <1>4, <1>v DEF VhfAccepts, recordVars, Submitting, Busy, Holders
  <2>2. Holders = {t} /\ in_flight = thread[t].report
    BY <2>1 DEF Token, Buffers
  <2>3. \A u \in Threads : thread'[u] = thread[u] \/ thread'[u].at = "finish"
    BY <1>0, <2>1 DEF At, ThreadStates
  <2>4. Submitting' = {}
    BY <1>0, <2>1, <2>2, <2>3 DEF Submitting, Holders, At, ThreadStates
  <2>5. \A u \in Threads : thread'[u].at = "failed" =>
          thread'[u] = thread[u] /\ u \in Busy /\ u # t
    BY <1>0, <2>1, <2>3 DEF Busy, At, ThreadStates
  <2>6. \A u \in Threads : thread'[u].at = "failed" => thread'[u].report # vhf'.held
    BY <2>1, <2>5 DEF Numbered
  <2>7. remover' \notin {"release", "done"}
    BY <1>4, <2>1 DEF RemovalInv, NoSubmissionAfterDelete, VhfAccepts
  <2> QED
    BY <2>1, <2>2, <2>4, <2>6, <2>7 DEF Buffers
<1>5. ASSUME NEW t \in Threads, VhfRefuses(t) PROVE Buffers'
  <2>1. /\ t \in Holders /\ t \in Busy /\ UNCHANGED <<in_flight, remover>>
        /\ vhf'.held = vhf.held /\ thread' = At(t, "failed")
    BY <1>5, <1>v DEF VhfRefuses, recordVars, Busy, Holders
  <2>2. vhf.held = NoReport /\ Holders = {t} /\ thread[t].report \in Reports
    BY <1>0, <2>1 DEF Token, Handed
  <2>3. \A u \in Threads : u # t => thread'[u] = thread[u]
    BY <1>0, <2>1 DEF At, ThreadStates
  <2>4. thread'[t].report = thread[t].report /\ thread'[t].at = "failed"
    BY <1>0, <2>1 DEF At, ThreadStates
  <2>5. Submitting' = {}
    BY <2>2, <2>3, <2>4 DEF Submitting, Holders
  <2> QED
    BY <1>v, <2>1, <2>2, <2>3, <2>4, <2>5 DEF Buffers
<1>6. ASSUME NEW t \in Threads, Finish(t) PROVE Buffers'
  <2>1. /\ t \in Busy /\ UNCHANGED <<vhf, remover>> /\ thread' = Leave(t)
        /\ thread[t].at \in {"finish", "failed"}
        /\ in_flight' = IF thread[t].at = "failed" /\ in_flight = thread[t].report
                          THEN NoReport ELSE in_flight
    BY <1>6 DEF Finish, Busy
  <2>2. \A u \in Threads :
          thread'[u] = thread[u] \/ thread'[u].at \notin {"submit", "failed"}
    BY <1>0, <2>1 DEF Leave, IdleThread, ThreadStates
  <2>3. CASE in_flight' = in_flight
    BY <2>1, <2>2, <2>3, BuffersElsewhere
  <2>4. CASE thread[t].at = "failed" /\ in_flight = thread[t].report
    <3>1. vhf.held = NoReport
      BY <2>4 DEF Buffers
    <3>2. Submitting = {}
      <4> SUFFICES ASSUME NEW u \in Submitting PROVE FALSE
        OBVIOUS
      <4>1. u \in Busy /\ u # t /\ thread[u].report = thread[t].report
        BY <2>4 DEF Buffers, Submitting, Busy
      <4> QED
        BY <2>1, <4>1 DEF Numbered
    <3>3. Submitting' = {}
      BY <2>2, <3>2 DEF Submitting
    <3> QED
      BY <2>1, <2>2, <3>1, <3>3 DEF Buffers
  <2> QED
    BY <2>1, <2>3, <2>4
<1>7. CASE VhfConsumes
  <2>1. vhf'.held = NoReport /\ UNCHANGED <<in_flight, remover, thread>>
    BY <1>7, <1>v DEF VhfConsumes, recordVars
  <2>2. \A t \in Threads : thread[t].at = "failed" => thread[t].report # NoReport
    BY <1>0, <1>v DEF Handed, Busy
  <2> QED
    BY <2>1, <2>2 DEF Buffers, Submitting
<1>8. CASE StartSucceeds \/ Remove \/ ShutDown \/ Drained
  <2>1. /\ UNCHANGED <<vhf, in_flight, thread>>
        /\ remover' \notin {"release", "done"} \/ remover' = remover
    BY <1>8 DEF StartSucceeds, Remove, ShutDown, Drained, recordVars
  <2> QED
    BY <2>1 DEF Buffers, Submitting
<1>9. CASE VhfDeleted \/ ReleaseBuffer
  <2>1. /\ vhf'.held = NoReport /\ UNCHANGED thread
        /\ remover \in {"delete", "release"}
    BY <1>9, <1>v DEF VhfDeleted, ReleaseBuffer, Buffers
  <2>2. \A t \in Threads : thread[t].at \notin {"submit", "failed"}
    BY <2>1 DEF RemovalInv, NoSubmissionAfterDelete
  <2> QED
    BY <2>1, <2>2 DEF Buffers, Submitting
<1>10. CASE UNCHANGED vars
  BY <1>10 DEF vars, recordVars, Buffers, Submitting
<1> QED
  BY <1>1, <1>2, <1>3, <1>4, <1>5, <1>6, <1>7, <1>8, <1>9, <1>10
     DEF Next, Submission, Removal

\* The inductive invariant of the driver's input reports.
DriverInv == TypeInv /\ RemovalInv /\ Token /\ Numbered /\ Buffers

LEMMA DriverInit == Init => DriverInv
BY TypeInit, RemovalInit, TokenInit, NumberedInit, BuffersInit DEF DriverInv

LEMMA DriverStep == DriverInv /\ [Next]_vars => DriverInv'
BY TypeStep, RemovalStep, TokenStep, NumberedStep, BuffersStep DEF DriverInv

\* VHF never references a buffer that the driver has freed: the report it holds
\* is the one in_flight_input_report keeps alive, also when its ready callback
\* overtakes the submission it answers and when a failed one comes back late.
THEOREM BufferOutlivesUse == Spec => []BufferAlive
<1>1. DriverInv => BufferAlive
  BY DEF DriverInv, Buffers, BufferAlive
<1> QED
  BY <1>1, DriverInit, DriverStep, PTL DEF Spec

-----------------------------------------------------------------------------
(* Refinement.  The stream's buffer is the set of reports in both queues, so *)
(* what the stream says of oldest and newest reports must be what the code   *)
(* does at the two ends of its queues.                                       *)

LEMMA EmptyQueue ==
  ASSUME NEW s \in Seq(Reports) PROVE Elements(s) = {} <=> s = <<>>
<1>1. s # <<>> => Len(s) \in Nat \ {0}
  BY TailFacts
<1>2. s # <<>> => s[1] \in Elements(s)
  BY <1>1 DEF Elements
<1>3. Elements(<<>>) = {}
  BY DEF Elements
<1> QED
  BY <1>2, <1>3

LEMMA WaitingByKind ==
  ASSUME TypeInv, Numbered
  PROVE  /\ Stream!OfKind("protocol") = Elements(protocol)
         /\ Stream!OfKind("state") = Elements(states)
         /\ Elements(protocol) \cap Elements(states) = {}
         /\ Cardinality(Waiting) = Pending
<1>1. /\ \A e \in Elements(protocol) : e.kind = "protocol"
      /\ \A e \in Elements(states) : e.kind = "state"
  BY DEF Numbered, OfClass
<1>2. Elements(protocol) \cap Elements(states) = {}
  BY <1>1
<1>3. /\ Stream!OfKind("protocol") = Elements(protocol)
      /\ Stream!OfKind("state") = Elements(states)
  BY <1>1 DEF Stream!OfKind, Waiting
<1>4. /\ IsFiniteSet(Elements(protocol)) /\ Cardinality(Elements(protocol)) = Len(protocol)
      /\ IsFiniteSet(Elements(states)) /\ Cardinality(Elements(states)) = Len(states)
      /\ Len(protocol) \in Nat /\ Len(states) \in Nat
  BY SortedCount DEF TypeInv, TypeOK, Numbered
<1>5. Cardinality(Elements(protocol) \cap Elements(states)) = 0
  BY <1>2, FS_EmptySet
<1>6. Cardinality(Waiting)
        = Cardinality(Elements(protocol)) + Cardinality(Elements(states))
          - Cardinality(Elements(protocol) \cap Elements(states))
  BY <1>4, FS_Union DEF Waiting
<1>7. Cardinality(Waiting) = Pending
  BY <1>4, <1>5, <1>6 DEF Pending
<1> QED
  BY <1>2, <1>3, <1>7

LEMMA RoomIsVictims ==
  ASSUME TypeInv, Numbered
  PROVE  Elements(ProtocolWithRoom) \cup Elements(StatesWithRoom)
           = IF Cardinality(Waiting) < MaxPending THEN Waiting
             ELSE Waiting \ Stream!Victims
<1>1. /\ protocol \in Seq(Reports) /\ states \in Seq(Reports)
      /\ Sorted(protocol) /\ Sorted(states)
      /\ Len(protocol) \in Nat /\ Len(states) \in Nat
      /\ MaxPending \in Nat /\ MaxPending > 0
  BY BoundsAssumption DEF TypeInv, TypeOK, Numbered
<1>2. /\ Stream!OfKind("state") = Elements(states)
      /\ Elements(protocol) \cap Elements(states) = {}
      /\ Cardinality(Waiting) = Pending
  BY WaitingByKind
<1>3. Full <=> ~(Cardinality(Waiting) < MaxPending)
  BY <1>1, <1>2 DEF Full, Pending
<1>4. CASE ~Full
  BY <1>3, <1>4 DEF ProtocolWithRoom, StatesWithRoom, Waiting
<1>5. CASE Full /\ states # <<>>
  <2>1. ProtocolWithRoom = protocol /\ StatesWithRoom = Tail(states)
    BY <1>5 DEF ProtocolWithRoom, StatesWithRoom
  <2>2. Stream!Victims = {Head(states)}
    BY <1>1, <1>2, <1>5, SortedTail, EmptyQueue DEF Stream!Victims
  <2>3. /\ Elements(Tail(states)) = Elements(states) \ {Head(states)}
        /\ Head(states) \in Elements(states)
    BY <1>1, <1>5, SortedTail
  <2> QED
    BY <1>2, <1>3, <1>5, <2>1, <2>2, <2>3 DEF Waiting
<1>6. CASE Full /\ states = <<>>
  <2>0. protocol # <<>>
    BY <1>1, <1>6 DEF Full, Pending
  <2>1. protocol # <<>> /\ Elements(states) = {}
    BY <1>1, <1>6, <2>0, EmptyQueue
  <2>2. ProtocolWithRoom = Tail(protocol) /\ StatesWithRoom = states
    BY <1>6 DEF ProtocolWithRoom, StatesWithRoom
  <2>3. Waiting = Elements(protocol)
    BY <2>1 DEF Waiting
  <2>4. Stream!Victims = {Head(protocol)}
    BY <1>1, <1>2, <2>1, <2>3, SortedTail DEF Stream!Victims
  <2>5. Elements(Tail(protocol)) = Elements(protocol) \ {Head(protocol)}
    BY <1>1, <2>1, SortedTail
  <2> QED
    BY <1>3, <1>6, <2>1, <2>2, <2>3, <2>4, <2>5
<1> QED
  BY <1>4, <1>5, <1>6

\* A push does to the two queues what Accept does to the buffer.
LEMMA PushAccepts ==
  ASSUME TypeInv, Numbered, NEW r \in Reports, r.id = pushed + 1,
         \/ r.kind = "protocol" /\ PushProtocol(r)
         \/ r.kind = "state" /\ PushState(r)
  PROVE  Waiting' = {r} \cup
           (IF Stream!Superseded(r) # {} THEN Waiting \ Stream!Superseded(r)
            ELSE IF Cardinality(Waiting) < MaxPending THEN Waiting
            ELSE Waiting \ Stream!Victims)
<1>1. /\ protocol \in Seq(Reports) /\ states \in Seq(Reports)
      /\ Sorted(protocol) /\ Sorted(states) /\ pushed \in Nat
  BY BoundsAssumption DEF TypeInv, TypeOK, Numbered
<1>2. \A e \in Elements(protocol) \cup Elements(states) : e.id < r.id
  <2> SUFFICES ASSUME NEW e \in Elements(protocol) \cup Elements(states)
               PROVE  e.id < r.id
    OBVIOUS
  <2>1. e.id <= pushed
    BY DEF Numbered, OfClass
  <2>2. e.id \in Nat
    BY <1>1, ReportId DEF Elements
  <2> QED
    BY <1>1, <2>1, <2>2
<1>3. /\ ProtocolWithRoom \in Seq(Reports) /\ Sorted(ProtocolWithRoom)
      /\ Elements(ProtocolWithRoom) \subseteq Elements(protocol)
      /\ StatesWithRoom \in Seq(Reports) /\ Sorted(StatesWithRoom)
      /\ Elements(StatesWithRoom) \subseteq Elements(states)
  BY RoomSorted
<1>4. /\ Stream!OfKind("state") = Elements(states)
      /\ Elements(protocol) \cap Elements(states) = {}
  BY WaitingByKind
<1>5. states = <<>> => Stream!Superseded(r) = {}
  BY <1>1, <1>4, EmptyQueue DEF Stream!Superseded, Stream!Newest
<1>6. states # <<>> =>
        Stream!Superseded(r)
          = {s \in {states[Len(states)]} : r.kind = "state" /\ s.discrete = r.discrete}
  BY <1>1, <1>4, SortedLast DEF Stream!Superseded
<1>7. ASSUME Stream!Superseded(r) = {},
             \/ protocol' = Append(ProtocolWithRoom, r) /\ states' = StatesWithRoom
             \/ protocol' = ProtocolWithRoom /\ states' = Append(StatesWithRoom, r)
      PROVE  Waiting' = {r} \cup (IF Cardinality(Waiting) < MaxPending THEN Waiting
                                  ELSE Waiting \ Stream!Victims)
  <2>1. /\ Elements(Append(ProtocolWithRoom, r)) = Elements(ProtocolWithRoom) \cup {r}
        /\ Elements(Append(StatesWithRoom, r)) = Elements(StatesWithRoom) \cup {r}
    BY <1>2, <1>3, SortedAppend
  <2>2. Waiting' = {r} \cup (Elements(ProtocolWithRoom) \cup Elements(StatesWithRoom))
    BY <1>7, <2>1 DEF Waiting
  <2> QED
    BY <2>2, RoomIsVictims
<1>8. CASE r.kind = "protocol" /\ PushProtocol(r)
  <2>1. Stream!Superseded(r) = {}
    BY <1>8 DEF Stream!Superseded
  <2> QED
    BY <1>7, <1>8, <2>1 DEF PushProtocol
<1>9. CASE /\ r.kind = "state" /\ PushState(r)
           /\ states # <<>> /\ states[Len(states)].discrete = r.discrete
  <2>1. Stream!Superseded(r) = {states[Len(states)]}
    BY <1>6, <1>9
  <2>2. Elements([states EXCEPT ![Len(states)] = r])
          = (Elements(states) \ {states[Len(states)]}) \cup {r}
    BY <1>1, <1>2, <1>9, SortedReplace
  <2>3. protocol' = protocol /\ states' = [states EXCEPT ![Len(states)] = r]
    BY <1>9 DEF PushState
  <2>4. states[Len(states)] \in Elements(states)
    <3>1. Len(states) \in 1..Len(states)
      BY <1>1, <1>9, TailFacts
    <3> QED
      BY <3>1 DEF Elements
  <2>5. states[Len(states)] \notin Elements(protocol)
    BY <1>4, <2>4
  <2>6. Waiting' = Elements(protocol) \cup ((Elements(states) \ {states[Len(states)]}) \cup {r})
    BY <2>2, <2>3 DEF Waiting
  <2>7. Waiting' = {r} \cup (Waiting \ {states[Len(states)]})
    BY <2>5, <2>6 DEF Waiting
  <2> QED
    BY <2>1, <2>7
<1>10. CASE /\ r.kind = "state" /\ PushState(r)
            /\ ~(states # <<>> /\ states[Len(states)].discrete = r.discrete)
  <2>1. Stream!Superseded(r) = {}
    BY <1>5, <1>6, <1>10
  <2>2. protocol' = ProtocolWithRoom /\ states' = Append(StatesWithRoom, r)
    BY <1>10 DEF PushState
  <2> QED
    BY <1>7, <2>1, <2>2
<1> QED
  BY <1>8, <1>9, <1>10

LEMMA NextIsCandidate ==
  ASSUME TypeInv, Numbered, Pending > 0
  PROVE  NextReport \in Stream!Candidates
<1>1. /\ protocol \in Seq(Reports) /\ states \in Seq(Reports)
      /\ Sorted(protocol) /\ Sorted(states)
  BY DEF TypeInv, TypeOK, Numbered
<1>2. Stream!OfKind("protocol") = Elements(protocol)
  BY WaitingByKind
<1>3. CASE protocol # <<>>
  BY <1>1, <1>2, <1>3, SortedTail, EmptyQueue DEF Stream!Candidates, NextReport
<1>4. CASE protocol = <<>>
  <2>0. states # <<>>
    BY <1>1, <1>4 DEF Pending
  <2>1. states # <<>> /\ Waiting = Elements(states) /\ Elements(protocol) = {}
    BY <1>1, <1>4, <2>0, EmptyQueue DEF Waiting
  <2> QED
    BY <1>1, <1>2, <1>4, <2>1, SortedTail DEF Stream!Candidates, NextReport
<1> QED
  BY <1>3, <1>4

LEMMA TakenKept ==
  ASSUME Submitting' = Submitting, \A t \in Submitting : thread'[t] = thread[t]
  PROVE  Taken' = Taken
BY DEF Taken

LEMMA TakenOne ==
  ASSUME NEW t, Submitting = {t} PROVE Taken = thread[t].report
BY DEF Taken

\* The steps that the stream does not see.
LEMMA StreamStutter ==
  ASSUME UNCHANGED <<pushed, protocol, states, shutting_down, delivered>>,
         Submitting' = Submitting, \A t \in Submitting : thread'[t] = thread[t]
  PROVE  UNCHANGED Stream!streamVars
BY TakenKept DEF Stream!streamVars, Waiting

LEMMA StreamStep ==
  DriverInv /\ [Next]_vars => [Stream!StreamNext]_(Stream!streamVars)
<1> SUFFICES ASSUME DriverInv, [Next]_vars
             PROVE  Stream!StreamNext \/ UNCHANGED Stream!streamVars
  OBVIOUS
<1>0. /\ TypeInv /\ RemovalInv /\ Token /\ Numbered /\ Buffers
      /\ thread \in ThreadStates /\ Handed /\ NoReport \notin Reports
  BY NoReportAssumption DEF DriverInv, TypeInv, TypeOK, ThreadStates
<1>1. ASSUME NEW t \in Threads, NEW d \in Discrete, QueueReport(t, d)
      PROVE  Stream!StreamNext
  <2> DEFINE r == NewReport(t, d)
  <2>1. /\ r \in Reports /\ r.id = pushed + 1 /\ pushed' = pushed + 1
        /\ \/ r.kind = "protocol" /\ PushProtocol(r)
           \/ r.kind = "state" /\ PushState(r)
        /\ t \notin Busy /\ thread' = At(t, "prepare")
        /\ \A u \in Busy : thread'[u] = thread[u]
    BY <1>0, <1>1, QueueReportPushes
  <2>2. Waiting' = {r} \cup
          (IF Stream!Superseded(r) # {} THEN Waiting \ Stream!Superseded(r)
           ELSE IF Cardinality(Waiting) < MaxPending THEN Waiting
           ELSE Waiting \ Stream!Victims)
    <3> HIDE DEF r
    <3> QED
      BY <1>0, <2>1, PushAccepts
  <2>3. Submitting' = Submitting /\ \A u \in Submitting : thread'[u] = thread[u]
    BY <1>0, <2>1 DEF Submitting, Busy, At, ThreadStates
  <2>4. Taken' = Taken
    BY <2>3, TakenKept
  <2>5. ~shutting_down /\ UNCHANGED <<shutting_down, delivered>>
    BY <1>1 DEF QueueReport, recordVars
  <2>6. Stream!Cardinality(Waiting) = Cardinality(Waiting)
    BY DEF Stream!Cardinality, Cardinality
  <2>7. Stream!Accept(r)
    BY <2>1, <2>2, <2>6, <2>4, <2>5 DEF Stream!Accept
  <2>8. r.kind \in Stream!Kinds /\ r = [id |-> pushed + 1, kind |-> r.kind, discrete |-> d]
    BY <2>1 DEF NewReport, Stream!Kinds
  <2> QED
    BY <2>7, <2>8 DEF Stream!StreamNext
<1>2. ASSUME NEW t \in Threads, Prepare(t) PROVE Stream!StreamNext
  <2>1. /\ NextReport \in Waiting /\ Waiting' = Waiting \ {NextReport}
        /\ thread' = [thread EXCEPT ![t] = [at |-> "submit", report |-> NextReport]]
    BY <1>0, <1>2, NumberedTake
  <2>2. /\ ready /\ ~shutting_down /\ Pending > 0
        /\ UNCHANGED <<shutting_down, delivered, pushed>>
    BY <1>2 DEF Prepare, CanSubmit
  <2>3. Submitting = {}
    BY <1>0, <2>2 DEF Token, Holders, Submitting
  <2>4. Submitting' = {t} /\ thread'[t].report = NextReport
    BY <1>0, <2>1, <2>3 DEF Submitting, ThreadStates
  <2>5. Taken = NoReport /\ Taken' = NextReport
    BY <2>3, <2>4 DEF Taken
  <2>6. NextReport \in Stream!Candidates
    BY <1>0, <2>2, NextIsCandidate
  <2>7. Stream!Take
    BY <2>1, <2>2, <2>5, <2>6 DEF Stream!Take
  <2> QED
    BY <2>7 DEF Stream!StreamNext
<1>3. ASSUME NEW t \in Threads, VhfAccepts(t) \/ VhfRefuses(t) PROVE Stream!StreamNext
  <2>1. t \in Holders /\ t \in Busy /\ t \in Submitting
    BY <1>3 DEF VhfAccepts, VhfRefuses, Holders, Busy, Submitting
  <2>2. Submitting = {t} /\ thread[t].report \in Reports
    BY <1>0, <2>1 DEF Token, Holders, Submitting, Handed
  <2>3. Taken = thread[t].report /\ Taken # NoReport
    BY <1>0, <2>2, TakenOne
  <2>4. thread' \in {At(t, "finish"), At(t, "failed")}
        /\ UNCHANGED <<pushed, protocol, states, shutting_down>>
    BY <1>3 DEF VhfAccepts, VhfRefuses, recordVars, queueVars
  <2>5. Submitting' = {}
    BY <1>0, <2>2, <2>4 DEF Submitting, At, ThreadStates
  <2>6. Taken' = NoReport /\ Waiting' = Waiting
    BY <2>4, <2>5 DEF Taken, Waiting
  <2>7. CASE VhfAccepts(t)
    BY <2>3, <2>4, <2>6, <2>7 DEF VhfAccepts, Stream!Deliver, Stream!StreamNext
  <2>8. CASE VhfRefuses(t)
    BY <2>3, <2>4, <2>6, <2>8 DEF VhfRefuses, Stream!Refuse, Stream!StreamNext
  <2> QED
    BY <1>3, <2>7, <2>8
<1>4. CASE ShutDown
  <2>1. ~shutting_down /\ UNCHANGED <<pushed, thread, delivered>>
    BY <1>0, <1>4 DEF RemovalInv, Stages, ShutDown
  <2>2. shutting_down' = TRUE /\ protocol' = <<>> /\ states' = <<>>
    BY <1>4 DEF ShutDown
  <2>3. Waiting' = {}
    BY <2>2 DEF Waiting, Elements
  <2>4. Taken' = Taken
    BY <2>1, TakenKept DEF Submitting
  <2> QED
    BY <2>1, <2>2, <2>3, <2>4 DEF Stream!Close, Stream!StreamNext
<1>5. ASSUME NEW t \in Threads,
             \/ QueueNothing(t) \/ NothingToSubmit(t) \/ Finish(t)
             \/ ReadyForNextReadReport(t) \/ ReadyTooLate(t)
             \/ FindDevice(t) \/ WriteReport(t) \/ VhfCallsReady(t)
      PROVE  UNCHANGED Stream!streamVars
  <2>1. UNCHANGED <<pushed, protocol, states, shutting_down, delivered>>
    BY <1>5 DEF QueueNothing, NothingToSubmit, Finish, ReadyForNextReadReport,
                ReadyTooLate, FindDevice, WriteReport, VhfCallsReady, recordVars,
                queueVars
  <2>2. /\ thread[t].at # "submit"
        /\ thread' \in {At(t, "found"), At(t, "ready"), At(t, "prepare"), Leave(t)}
    BY <1>5 DEF QueueNothing, NothingToSubmit, Finish, ReadyForNextReadReport,
                ReadyTooLate, FindDevice, WriteReport, VhfCallsReady
  <2>3. Submitting' = Submitting /\ \A u \in Submitting : thread'[u] = thread[u]
    BY <1>0, <2>2 DEF Submitting, At, Leave, IdleThread, ThreadStates
  <2> QED
    BY <2>1, <2>3, StreamStutter
<1>6. CASE \/ VhfConsumes \/ StartSucceeds \/ Remove \/ Drained \/ VhfDeleted
           \/ ReleaseBuffer \/ UNCHANGED vars
  <2>1. UNCHANGED <<pushed, protocol, states, shutting_down, delivered, thread>>
    BY <1>6 DEF VhfConsumes, StartSucceeds, Remove, Drained, VhfDeleted,
                ReleaseBuffer, vars, recordVars, queueVars
  <2> QED
    BY <2>1, StreamStutter DEF Submitting
<1> QED
  BY <1>1, <1>2, <1>3, <1>4, <1>5, <1>6 DEF Next, Submission, Removal

LEMMA StreamStart == Init => Stream!StreamInit
<1> SUFFICES ASSUME Init PROVE Stream!StreamInit
  OBVIOUS
<1>1. Waiting = {}
  BY DEF Init, Waiting, Elements
<1>2. Taken = NoReport
  BY DEF Init, Taken, Submitting, IdleThread
<1> QED
  BY <1>1, <1>2 DEF Init, Stream!StreamInit, Kinds, Stream!Kinds

\* However many threads push, submit and call back, what they do together is
\* what the sequential stream does: a report is dropped only when the buffer is
\* full, replaced only by a newer one with the same buttons, taken in order of
\* its class and never after the removal has begun.
THEOREM StreamImplemented == Spec => ImplementsStream
<1> QED
  BY DriverInit, DriverStep, StreamStart, StreamStep, PTL
     DEF Spec, ImplementsStream, Stream!StreamSpec
=============================================================================
