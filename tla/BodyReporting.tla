---------------------------- MODULE BodyReporting ----------------------------
(***************************************************************************)
(* BodyReporting (ThreadsafeBodyReporting.cpp): the queue through which    *)
(* the tracker thread hands the states of one body to the host's main      *)
(* thread, which predicts the newest one to the present and moves it from  *)
(* camera to room space.  The queue has one producer and one consumer and  *)
(* is lock-free; the process model and the room transform are plain        *)
(* members, written by the producer and read by the consumer.              *)
(*                                                                         *)
(* Space has one dimension: a pose is an integer, a transform a rotation   *)
(* (1 or -1) and a translation.  The damping of velocities, which keeps    *)
(* zero zero and nonzero nonzero, is left out.                             *)
(***************************************************************************)
EXTENDS Integers, Sequences

CONSTANTS
  Capacity,             \* REPORT_QUEUE_SIZE - 1, what the ring buffer holds
  BufferImu,            \* m_bufferImu of the tracker thread, FALSE by default
  Positions, Velocities,  \* of the body, in camera space
  Room,                 \* the camera-to-room transform
  AdditionalPrediction, \* m_additionalPrediction of the plugin
  MaxUpdates, MaxTime   \* bounds: calls of updateState, the clock

Identity == [rot |-> 1, trans |-> 0]
Transforms == [rot : {-1, 1}, trans : Int]

ASSUME ReportingAssumption ==
  /\ Capacity \in Nat \ {0}
  /\ BufferImu \in BOOLEAN
  /\ Positions \subseteq Int /\ Velocities \subseteq Int
  /\ Room \in Transforms
  /\ AdditionalPrediction \in Nat
  /\ MaxUpdates \in Nat /\ MaxTime \in Nat

VARIABLES
  now,               \* util::time::getNow()
  ppc,               \* tracker thread: "init", "ready", "setting" the transform
  m_hasProcessModel,
  m_trackerToRoom,
  m_queue,
  rpc,               \* main thread: "idle", "read", "compute" in getReport
  queueVal,          \* getReport's local: the last value read
  report,            \* the last report getReport gave
  produced,          \* history: calls of updateState so far
  accepted,          \* history: the last of them that found room in the queue
  roomFrom,          \* history: the first of them made for a set of bodies, or 0
  asked              \* history: what was accepted when getReport was called

historyVars == <<produced, accepted, roomFrom, asked>>
vars == <<now, ppc, m_hasProcessModel, m_trackerToRoom, m_queue, rpc, queueVal,
          report, historyVars>>

\* "version" is history: which call of updateState the value comes from.
Values == [version : Nat, timestamp : Int, position : Int, velocity : Int]
None   == [version |-> 0, timestamp |-> 0, position |-> 0, velocity |-> 0]

\* "of" and "xform" are history: what the report was computed from.
Reports == [of : Values, xform : Transforms, timestamp : Int, pose : Int,
            linearVelocity : Int]
NoReport == [of |-> None, xform |-> Identity, timestamp |-> 0, pose |-> 0,
             linearVelocity |-> 0]

TypeOK ==
  /\ now \in Nat
  /\ ppc \in {"init", "ready", "setting"}
  /\ m_hasProcessModel \in BOOLEAN
  /\ m_trackerToRoom \in {Identity, Room}
  /\ m_queue \in Seq(Values) /\ Len(m_queue) <= Capacity
  /\ rpc \in {"idle", "read", "compute"}
  /\ queueVal \in Values
  /\ report \in Reports
  /\ produced \in Nat /\ accepted \in Nat /\ roomFrom \in Nat /\ asked \in Nat

Init ==
  /\ now = 0
  /\ ppc = "init"
  /\ m_hasProcessModel = FALSE
  /\ m_trackerToRoom = Identity
  /\ m_queue = <<>>
  /\ rpc = "idle"
  /\ queueVal = None
  /\ report = NoReport
  /\ produced = 0 /\ accepted = 0 /\ roomFrom = 0 /\ asked = 0

Tick ==
  /\ now < MaxTime
  /\ now' = now + 1
  /\ UNCHANGED <<ppc, m_hasProcessModel, m_trackerToRoom, m_queue, rpc, queueVal,
                 report, historyVars>>

-----------------------------------------------------------------------------
(***************************************************************************)
(* The tracker thread                                                      *)
(***************************************************************************)
initProcessModel ==
  /\ ppc = "init"
  /\ m_hasProcessModel' = TRUE
  /\ ppc' = "ready"
  /\ UNCHANGED <<now, m_trackerToRoom, m_queue, rpc, queueVal, report, historyVars>>

\* The transform is copied member by member, once: it takes two steps.
setTrackerToRoomTransform ==
  /\ ppc = "ready" /\ m_trackerToRoom = Identity
  /\ ppc' = "setting"
  /\ UNCHANGED <<now, m_hasProcessModel, m_trackerToRoom, m_queue, rpc, queueVal,
                 report, historyVars>>

TransformSet ==
  /\ ppc = "setting"
  /\ m_trackerToRoom' = Room
  /\ ppc' = "ready"
  /\ UNCHANGED <<now, m_hasProcessModel, m_queue, rpc, queueVal, report, historyVars>>

\* updateState: write the state of the body to the queue if there is room.
\* TrackerThread ignores the result: with no room this state is lost.
pushOneShort(queue, val) ==   \* mutant
  IF Len(queue) < Capacity - 1 THEN Append(queue, val) ELSE queue
push(queue, val) == IF Len(queue) < Capacity THEN Append(queue, val) ELSE queue

updateState(position, velocity) ==
  LET val == [version |-> produced + 1, timestamp |-> now,
              position |-> position, velocity |-> velocity]
  IN
  /\ ppc = "ready"
  /\ produced < MaxUpdates
  /\ produced' = produced + 1
  /\ m_queue' = push(m_queue, val)
  /\ accepted' = IF Len(m_queue) < Capacity THEN produced + 1 ELSE accepted
  /\ UNCHANGED <<now, ppc, m_hasProcessModel, m_trackerToRoom, rpc, queueVal, report, asked>>

(***************************************************************************)
(* The two updateReportingVector overloads.  The one for a set of bodies,  *)
(* at the end of a frame or when IMU messages are buffered, has first set  *)
(* the room transform or gives up; the one for a single body, after each   *)
(* IMU message that is not buffered, does not look at it.                  *)
(***************************************************************************)
transformUnordered == TRUE   \* mutant
transformInPlace == m_trackerToRoom = Room

updateReportingVector(position, velocity) ==
  /\ transformInPlace
  /\ updateState(position, velocity)
  /\ roomFrom' = IF roomFrom = 0 THEN produced + 1 ELSE roomFrom

updateReportingVectorSingle(position, velocity) ==
  /\ ~ BufferImu
  /\ updateState(position, velocity)
  /\ UNCHANGED roomFrom

-----------------------------------------------------------------------------
(***************************************************************************)
(* The main thread: getReport                                              *)
(***************************************************************************)
getReport ==
  /\ rpc = "idle"
  /\ rpc' = "read"
  /\ asked' = accepted
  /\ UNCHANGED <<now, ppc, m_hasProcessModel, m_trackerToRoom, m_queue, queueVal,
                 report, produced, accepted, roomFrom>>

firstToRead == m_queue # <<>> /\ queueVal = None   \* mutant
moreToRead == m_queue # <<>>

ReadOne ==
  /\ rpc = "read" /\ moreToRead
  /\ m_queue' = Tail(m_queue)
  /\ queueVal' = Head(m_queue)
  /\ UNCHANGED <<now, ppc, m_hasProcessModel, m_trackerToRoom, rpc, report,
                 historyVars>>

\* The queue is empty: return false if nothing was read.
DrainEnds ==
  /\ rpc = "read" /\ ~ moreToRead
  /\ rpc' = IF queueVal = None THEN "idle" ELSE "compute"
  /\ UNCHANGED <<now, ppc, m_hasProcessModel, m_trackerToRoom, m_queue, queueVal,
                 report, historyVars>>

applyTo(xform, x) == xform.rot * x + xform.trans

predictTooLittle(val) == now - val.timestamp   \* mutant
predictionInterval(val) == now - val.timestamp + AdditionalPrediction

\* Predict with the process model if the body moves, then go to room space.
\* The velocity goes through the same affine map as the position.
reportOf(val, xform) ==
  LET doingPrediction == m_hasProcessModel /\ val.velocity # 0
      dt == IF doingPrediction THEN predictionInterval(val) ELSE 0
  IN [of |-> val, xform |-> xform,
      timestamp |-> IF doingPrediction THEN now + AdditionalPrediction ELSE val.timestamp,
      pose |-> applyTo(xform, val.position + val.velocity * dt),
      linearVelocity |-> applyTo(xform, val.velocity)]

\* What a read of m_trackerToRoom can find: a transform that is being written
\* may be part old and part new.
readableTransforms ==
  IF ppc = "setting" THEN {[rot |-> x.rot, trans |-> y.trans] : x, y \in {Identity, Room}}
  ELSE {m_trackerToRoom}

keptInMember == queueVal   \* mutant
localGone == None

Compute ==
  /\ rpc = "compute"
  /\ \E xform \in readableTransforms : report' = reportOf(queueVal, xform)
  /\ queueVal' = localGone
  /\ rpc' = "idle"
  /\ UNCHANGED <<now, ppc, m_hasProcessModel, m_trackerToRoom, m_queue, historyVars>>

-----------------------------------------------------------------------------
ProducerNext ==
  \/ initProcessModel \/ setTrackerToRoomTransform \/ TransformSet
  \/ \E position \in Positions, velocity \in Velocities :
       \/ updateReportingVector(position, velocity)
       \/ updateReportingVectorSingle(position, velocity)

ConsumerNext == getReport \/ ReadOne \/ DrainEnds \/ Compute

Next == Tick \/ ProducerNext \/ ConsumerNext

Spec == Init /\ [][Next]_vars

-----------------------------------------------------------------------------
(***************************************************************************)
(* Safety                                                                  *)
(***************************************************************************)

\* The states in the queue are in the order they were produced, and newer
\* than what the consumer has read or reported.
InOrder ==
  /\ \A i, j \in 1..Len(m_queue) : i < j => m_queue[i].version < m_queue[j].version
  /\ \A i \in 1..Len(m_queue) :
       /\ queueVal.version < m_queue[i].version /\ report.of.version < m_queue[i].version
       /\ m_queue[i].version <= produced
  /\ queueVal # None => report.of.version < queueVal.version
  /\ queueVal.version <= produced /\ report.of.version <= produced

\* The newest state that the queue took is never lost: it is the last in the
\* queue, or it has just been read, or it is in the report.
NewestKept ==
  accepted = IF m_queue # <<>> THEN m_queue[Len(m_queue)].version
             ELSE IF queueVal # None THEN queueVal.version
             ELSE report.of.version

\* Reports go forward: each is computed from a newer state than the one before.
ReportsMoveForward ==
  [][report' # report => report'.of.version > report.of.version]_vars

\* getReport "consumes as many as there are available": the state it computes
\* with is the newest the queue took before it saw the queue empty.
ReadToTheEnd ==
  [][rpc = "read" /\ rpc' = "compute" => queueVal.version = accepted]_vars

\* The pose of a report is that of the body at the report's own timestamp,
\* predicted or not, in room space.
PoseAtTimestamp ==
  LET val == report.of IN
  val # None =>
    report.pose = applyTo(report.xform,
                          val.position + val.velocity * (report.timestamp - val.timestamp))

\* getReport "consumes as many as there are available": a call that returns has
\* reported a state at least as new as any the queue took before the call.  The
\* loop ends only once the producer pauses; nothing says that it ever does.
CallDelivers ==
  [][rpc # "idle" /\ rpc' = "idle" => report'.of.version >= asked]_vars

\* From the first state handed out for a set of bodies on, every report is in
\* room space: the transform is applied once and in one piece, to the states of
\* IMU messages, which nobody checks, as well.
RoomFromFirstFrame ==
  roomFrom # 0 /\ report.of.version >= roomFrom => report.xform = Room

\* The values the queue, the consumer and the report hold are states of the body,
\* not the initial value; with InOrder and NewestKept this is inductive.
ValuesProduced ==
  /\ \A i \in 1..Len(m_queue) : m_queue[i].version > 0
  /\ rpc = "compute" => queueVal # None
  /\ rpc = "idle" => queueVal = None
  /\ queueVal # None => queueVal.version > 0
  /\ report.of # None => report.of.version > 0

\* What the queue had taken at the call was read by the time it is computed with.
AskedIsRead ==
  /\ asked <= accepted /\ accepted <= produced
  /\ rpc = "compute" => asked <= queueVal.version

\* Once a set of bodies was reported, the transform is set and stays.
RoomInPlace ==
  /\ roomFrom # 0 => m_trackerToRoom = Room
  /\ m_trackerToRoom = Room => ppc # "setting" \/ Room = Identity

IInv == TypeOK /\ InOrder /\ NewestKept /\ ValuesProduced /\ AskedIsRead /\ RoomInPlace
        /\ RoomFromFirstFrame

-----------------------------------------------------------------------------
(***************************************************************************)
(* What the comments say and the code does not do                          *)
(***************************************************************************)

\* The room transform "will be applied to each report", and without calibration
\* data there is "no sense in reporting": every report is in room space.
RoomApplied == report.of # None => report.xform = Room
=============================================================================
