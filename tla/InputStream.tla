----------------------------- MODULE InputStream -----------------------------
(***************************************************************************)
(* What the driver promises of the input reports of one gamepad: a bounded *)
(* buffer in front of a consumer that takes one report at a time.  A state *)
(* report gives way only to a newer one with the same buttons and contacts *)
(* or, when the buffer is full, as the oldest one; protocol replies go     *)
(* first; each class keeps its order; after the end nothing more is taken. *)
(* There are no threads, locks or permissions here.                        *)
(***************************************************************************)
EXTENDS Integers, FiniteSets

CONSTANTS
  Discrete,    \* the states of buttons, D-pad, thresholds and contacts
  MaxPending,  \* capacity of the buffer
  NoReport     \* "no report"

VARIABLES
  accepted,    \* how many reports were accepted; numbers them
  waiting,     \* the reports in the buffer
  taken,       \* the report being handed to the consumer
  delivered,   \* number of the last report of each class the consumer has got
  closed       \* the gamepad is being removed

streamVars == <<accepted, waiting, taken, delivered, closed>>

Kinds == {"protocol", "state"}
OfKind(kind) == {r \in waiting : r.kind = kind}
Oldest(S) == {r \in S : \A s \in S : r.id <= s.id}
Newest(S) == {r \in S : \A s \in S : s.id <= r.id}

\* The report that r makes obsolete: no press or release lies between them.
Superseded(r) ==
  {s \in Newest(OfKind("state")) : r.kind = "state" /\ s.discrete = r.discrete}

\* What a full buffer gives up.
Victims == Oldest(IF OfKind("state") # {} THEN OfKind("state") ELSE waiting)

\* What the consumer gets next.
Candidates ==
  Oldest(IF OfKind("protocol") # {} THEN OfKind("protocol") ELSE waiting)

StreamInit ==
  /\ accepted = 0
  /\ waiting = {}
  /\ taken = NoReport
  /\ delivered = [k \in Kinds |-> 0]
  /\ closed = FALSE

Accept(r) ==
  /\ ~closed
  /\ r.id = accepted + 1
  /\ accepted' = r.id
  /\ waiting' = {r} \cup
       (IF Superseded(r) # {} THEN waiting \ Superseded(r)
        ELSE IF Cardinality(waiting) < MaxPending THEN waiting
        ELSE waiting \ Victims)
  /\ UNCHANGED <<taken, delivered, closed>>

Take ==
  /\ ~closed
  /\ taken = NoReport
  /\ taken' \in Candidates
  /\ waiting' = waiting \ {taken'}
  /\ UNCHANGED <<accepted, delivered, closed>>

Deliver ==
  /\ taken # NoReport
  /\ delivered' = [delivered EXCEPT ![taken.kind] = taken.id]
  /\ taken' = NoReport
  /\ UNCHANGED <<accepted, waiting, closed>>

Refuse ==
  /\ taken # NoReport
  /\ taken' = NoReport
  /\ UNCHANGED <<accepted, waiting, delivered, closed>>

\* The buffer is dropped; a report already being handed over may still arrive.
Close ==
  /\ ~closed
  /\ closed' = TRUE
  /\ waiting' = {}
  /\ UNCHANGED <<accepted, taken, delivered>>

StreamNext ==
  \/ \E kind \in Kinds, d \in Discrete :
       Accept([id |-> accepted + 1, kind |-> kind, discrete |-> d])
  \/ Take
  \/ Deliver
  \/ Refuse
  \/ Close

StreamSpec == StreamInit /\ [][StreamNext]_streamVars
=============================================================================
