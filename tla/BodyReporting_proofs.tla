------------------------ MODULE BodyReporting_proofs ------------------------
(***************************************************************************)
(* Proofs about BodyReporting, for every capacity of the queue, every      *)
(* room transform and every number of updates: what the host is given is   *)
(* in order, is the newest state the queue took and not older than any     *)
(* that it took before the call, and from the first one on that was handed *)
(* out for a set of bodies, it is in room space.                           *)
(***************************************************************************)
EXTENDS BodyReporting, SequenceTheorems, TLAPS

-----------------------------------------------------------------------------
(***************************************************************************)
(* Types                                                                   *)
(***************************************************************************)

\* Transforms send integers to integers.
LEMMA ApplyType ==
  ASSUME NEW xform \in Transforms, NEW x \in Int
  PROVE  applyTo(xform, x) \in Int
BY DEF Transforms, applyTo

\* Both transforms are transforms, and so are their mixtures.
LEMMA ReadableType ==
  ASSUME TypeOK, NEW xform \in readableTransforms
  PROVE  xform \in Transforms
<1>1. Identity \in Transforms /\ Room \in Transforms
  BY ReportingAssumption DEF Identity, Transforms
<1>2. CASE ppc = "setting"
  <2>1. PICK x \in {Identity, Room}, y \in {Identity, Room} :
          xform = [rot |-> x.rot, trans |-> y.trans]
    BY <1>2 DEF readableTransforms
  <2> QED BY <1>1, <2>1 DEF Transforms
<1>3. CASE ppc # "setting"
  BY <1>1, <1>3 DEF readableTransforms, TypeOK
<1> QED BY <1>2, <1>3

\* A report is computed from integers, with integers.
LEMMA ReportType ==
  ASSUME TypeOK, NEW val \in Values, NEW xform \in Transforms
  PROVE  reportOf(val, xform) \in Reports
<1> DEFINE dt == IF m_hasProcessModel /\ val.velocity # 0 THEN predictionInterval(val) ELSE 0
<1>1. predictionInterval(val) \in Int
  BY ReportingAssumption DEF predictionInterval, Values, TypeOK
<1>2. dt \in Int /\ val.velocity \in Int /\ val.position \in Int
  BY <1>1 DEF Values
<1>3. val.velocity * dt \in Int
  BY <1>2
<1>4. val.position + val.velocity * dt \in Int
  BY <1>2, <1>3
<1>5. applyTo(xform, val.position + val.velocity * dt) \in Int
  BY <1>4, ApplyType
<1>6. applyTo(xform, val.velocity) \in Int
  BY <1>2, ApplyType
<1>7. (IF m_hasProcessModel /\ val.velocity # 0 THEN now + AdditionalPrediction
       ELSE val.timestamp) \in Int
  BY ReportingAssumption DEF TypeOK, Values
<1> QED BY <1>5, <1>6, <1>7 DEF reportOf, Reports

\* A call of updateState, by either path.
Update(position, velocity) ==
  \/ updateReportingVector(position, velocity)
  \/ updateReportingVectorSingle(position, velocity)

\* Types are preserved by every step.
LEMMA TypeStep ==
  ASSUME TypeOK, [Next]_vars
  PROVE  TypeOK'
<1> USE ReportingAssumption DEF TypeOK, historyVars
<1>1. CASE Tick
  BY <1>1 DEF Tick
<1>2. CASE initProcessModel
  <2>1. m_hasProcessModel' \in BOOLEAN
    BY <1>2 DEF initProcessModel
  <2> QED BY <1>2, <2>1 DEF initProcessModel
<1>3. CASE setTrackerToRoomTransform
  BY <1>3 DEF setTrackerToRoomTransform
<1>4. CASE TransformSet
  BY <1>4 DEF TransformSet
<1>5. ASSUME NEW position \in Positions, NEW velocity \in Velocities,
             Update(position, velocity)
     PROVE  TypeOK'
  <2> DEFINE val == [version |-> produced + 1, timestamp |-> now,
                     position |-> position, velocity |-> velocity]
  <2>1. val \in Values
    BY DEF Values
  <2>2. push(m_queue, val) \in Seq(Values) /\ Len(push(m_queue, val)) <= Capacity
    BY <2>1 DEF push
  <2> QED BY <1>5, <2>2 DEF Update, updateReportingVector, updateReportingVectorSingle, updateState
<1>6. CASE getReport
  BY <1>6 DEF getReport
<1>7. CASE ReadOne
  BY <1>7 DEF ReadOne, moreToRead
<1>8. CASE DrainEnds
  BY <1>8 DEF DrainEnds
<1>9. CASE Compute
  <2>1. report' \in Reports
    BY <1>9, ReadableType, ReportType DEF Compute
  <2>2. queueVal' \in Values
    BY <1>9 DEF Compute, localGone, None, Values
  <2> QED BY <1>9, <2>1, <2>2 DEF Compute
<1>10. CASE UNCHANGED vars
  BY <1>10 DEF vars
<1> QED BY <1>1, <1>2, <1>3, <1>4, <1>5, <1>6, <1>7, <1>8, <1>9, <1>10
        DEF Next, ProducerNext, ConsumerNext, Update

\* The initial state has the types.
LEMMA TypeInit == Init => TypeOK
<1>1. None \in Values
  BY DEF None, Values
<1>2. NoReport \in Reports
  BY <1>1 DEF NoReport, Reports, Identity, Transforms
<1>3. <<>> \in Seq(Values) /\ Len(<<>>) <= Capacity
  BY ReportingAssumption
<1>4. Init => m_hasProcessModel \in BOOLEAN
  BY DEF Init
<1> QED BY <1>1, <1>2, <1>3, <1>4 DEF Init, TypeOK

\* Every variable keeps its type, and the queue never holds more than its
\* capacity.
THEOREM TypeCorrect == Spec => []TypeOK
<1>1. Init => TypeOK
  BY TypeInit
<1>2. TypeOK /\ [Next]_vars => TypeOK'
  BY TypeStep
<1> QED BY <1>1, <1>2, PTL DEF Spec

-----------------------------------------------------------------------------
(***************************************************************************)
(* The order of the states                                                 *)
(***************************************************************************)

OrderInv == TypeOK /\ InOrder /\ NewestKept /\ ValuesProduced /\ AskedIsRead

\* An appended element is the last one; the others keep their places.
LEMMA AppendPlaces ==
  ASSUME NEW S, NEW s \in Seq(S), NEW e \in S
  PROVE  /\ Len(Append(s, e)) = Len(s) + 1 /\ Append(s, e) # <<>>
         /\ Append(s, e)[Len(s) + 1] = e
         /\ \A i \in 1..Len(s) : Append(s, e)[i] = s[i]
OBVIOUS

\* In the tail every element moves up by one place.
LEMMA TailPlaces ==
  ASSUME NEW S, NEW s \in Seq(S), s # <<>>
  PROVE  /\ Len(s) \in Nat /\ Len(s) >= 1 /\ Head(s) = s[1]
         /\ Len(Tail(s)) = Len(s) - 1
         /\ \A i \in 1..Len(Tail(s)) : Tail(s)[i] = s[i + 1] /\ i + 1 \in 1..Len(s)
         /\ Tail(s) = <<>> <=> Len(s) = 1
<1>1. Tail(s) \in Seq(S) /\ Len(Tail(s)) = Len(s) - 1 /\ Len(s) \in Nat /\ Len(s) >= 1
  BY EmptySeq
<1>2. Tail(s) = <<>> <=> Len(Tail(s)) = 0
  BY <1>1, EmptySeq
<1> QED BY <1>1, <1>2

\* Versions are natural numbers.
VersionsAreNat ==
  /\ queueVal.version \in Nat /\ report.of.version \in Nat
  /\ \A i \in 1..Len(m_queue) : m_queue[i].version \in Nat
  /\ None.version = 0

\* It follows from the types.
LEMMA VersionTypes == TypeOK => VersionsAreNat
<1> SUFFICES ASSUME TypeOK PROVE VersionsAreNat
  OBVIOUS
<1>1. queueVal \in Values /\ report.of \in Values
  BY DEF TypeOK, Reports
<1>2. \A i \in 1..Len(m_queue) : m_queue[i] \in Values
  BY DEF TypeOK
<1> QED BY <1>1, <1>2 DEF Values, None, VersionsAreNat

\* The versions kept for history are natural numbers too.
LEMMA AskedIsNat ==
  ASSUME OrderInv
  PROVE  asked \in Nat /\ accepted \in Nat /\ produced \in Nat
BY DEF OrderInv, TypeOK

\* updateState appends a newer version than any before, or leaves the queue alone.
LEMMA OrderUpdate ==
  ASSUME OrderInv, NEW position \in Positions, NEW velocity \in Velocities,
         Update(position, velocity)
  PROVE  InOrder' /\ NewestKept' /\ ValuesProduced' /\ AskedIsRead'
<1> DEFINE val == [version |-> produced + 1, timestamp |-> now,
                   position |-> position, velocity |-> velocity]
<1>1. /\ m_queue \in Seq(Values) /\ Len(m_queue) \in Nat /\ produced \in Nat
      /\ val \in Values /\ val.version = produced + 1
  BY ReportingAssumption DEF OrderInv, TypeOK, Values
<1> USE DEF Update, updateReportingVector, updateReportingVectorSingle, updateState
<1>2. produced' = produced + 1 /\ UNCHANGED <<rpc, queueVal, report, asked>>
  OBVIOUS
<1>3. InOrder /\ NewestKept /\ ValuesProduced /\ AskedIsRead
  BY DEF OrderInv
<1>4. VersionsAreNat
  BY VersionTypes DEF OrderInv
<1> HIDE DEF val
<1>5. CASE Len(m_queue) < Capacity
  <2>1. m_queue' = Append(m_queue, val) /\ accepted' = produced + 1
    BY <1>5 DEF push, val
  <2>2. /\ Len(m_queue') = Len(m_queue) + 1 /\ m_queue' # <<>>
        /\ m_queue'[Len(m_queue')] = val
        /\ \A i \in 1..Len(m_queue) : m_queue'[i] = m_queue[i]
    BY <1>1, <2>1, AppendPlaces
  <2>3. \A i \in 1..Len(m_queue') : i = Len(m_queue') \/ i \in 1..Len(m_queue)
    BY <1>1, <2>2
  <2>4. ASSUME NEW i \in 1..Len(m_queue') PROVE m_queue'[i].version \in Nat
    BY <1>1, <1>4, <2>2, <2>3 DEF VersionsAreNat
  <2>5. ASSUME NEW i \in 1..Len(m_queue'), NEW j \in 1..Len(m_queue'), i < j
        PROVE  m_queue'[i].version < m_queue'[j].version
    <3>1. i \in 1..Len(m_queue) /\ m_queue'[i] = m_queue[i]
      BY <1>1, <2>2, <2>3, <2>5
    <3>2. CASE j = Len(m_queue')
      BY <1>1, <1>3, <1>4, <2>2, <3>1, <3>2 DEF InOrder, VersionsAreNat
    <3>3. CASE j \in 1..Len(m_queue)
      BY <1>3, <2>2, <2>5, <3>1, <3>3 DEF InOrder
    <3> QED BY <2>3, <3>2, <3>3
  <2>6. ASSUME NEW i \in 1..Len(m_queue')
        PROVE  /\ queueVal'.version < m_queue'[i].version
               /\ report'.of.version < m_queue'[i].version
               /\ m_queue'[i].version <= produced' /\ m_queue'[i].version > 0
    <3>1. CASE i = Len(m_queue')
      BY <1>1, <1>2, <1>3, <1>4, <2>2, <3>1 DEF InOrder, VersionsAreNat
    <3>2. CASE i \in 1..Len(m_queue)
      BY <1>1, <1>2, <1>3, <1>4, <2>2, <3>2 DEF InOrder, ValuesProduced, VersionsAreNat
    <3> QED BY <2>3, <3>1, <3>2
  <2>7. InOrder'
    BY <1>1, <1>2, <1>3, <1>4, <2>5, <2>6 DEF InOrder, VersionsAreNat
  <2>8. NewestKept'
    BY <1>1, <2>1, <2>2 DEF NewestKept
  <2>9. ValuesProduced'
    BY <1>2, <1>3, <2>6 DEF ValuesProduced
  <2>10. AskedIsRead'
    BY <1>1, <1>2, <1>3, <2>1, AskedIsNat DEF AskedIsRead
  <2> QED BY <2>7, <2>8, <2>9, <2>10
<1>6. CASE ~ Len(m_queue) < Capacity
  <2>1. UNCHANGED <<m_queue, accepted>>
    BY <1>6 DEF push
  <2>2. AskedIsRead'
    BY <1>1, <1>2, <1>3, <2>1, AskedIsNat DEF AskedIsRead
  <2> QED BY <1>1, <1>2, <1>3, <1>4, <2>1, <2>2
          DEF InOrder, NewestKept, ValuesProduced, VersionsAreNat
<1> QED BY <1>5, <1>6

\* Reading moves the head of the queue, older than the rest, to the consumer.
LEMMA OrderRead ==
  ASSUME OrderInv, ReadOne
  PROVE  InOrder' /\ NewestKept' /\ ValuesProduced' /\ AskedIsRead'
<1>1. /\ m_queue # <<>> /\ queueVal' = Head(m_queue) /\ m_queue' = Tail(m_queue)
      /\ rpc = "read" /\ UNCHANGED <<rpc, report, produced, accepted, asked>>
  BY DEF ReadOne, moreToRead, historyVars
<1>2. m_queue \in Seq(Values) /\ produced \in Nat
  BY DEF OrderInv, TypeOK
<1>3. /\ Len(m_queue) \in Nat /\ Len(m_queue) >= 1 /\ queueVal' = m_queue[1]
      /\ Len(m_queue') = Len(m_queue) - 1
      /\ \A i \in 1..Len(m_queue') : m_queue'[i] = m_queue[i + 1] /\ i + 1 \in 1..Len(m_queue)
      /\ m_queue' = <<>> <=> Len(m_queue) = 1
  BY <1>1, <1>2, TailPlaces
<1>4. InOrder /\ NewestKept /\ ValuesProduced /\ AskedIsRead
  BY DEF OrderInv
<1>5. VersionsAreNat
  BY VersionTypes DEF OrderInv
<1>6. queueVal' # None /\ 1 \in 1..Len(m_queue)
  BY <1>3, <1>4, <1>5 DEF ValuesProduced, VersionsAreNat
<1>7. ASSUME NEW i \in 1..Len(m_queue')
      PROVE  /\ queueVal'.version < m_queue'[i].version
             /\ report'.of.version < m_queue'[i].version
             /\ m_queue'[i].version <= produced'
             /\ m_queue'[i].version > 0
  <2>1. 1 < i + 1 /\ i + 1 \in 1..Len(m_queue) /\ m_queue'[i] = m_queue[i + 1]
    BY <1>3
  <2> QED BY <1>1, <1>3, <1>4, <1>6, <2>1 DEF InOrder, ValuesProduced
<1>8. ASSUME NEW i \in 1..Len(m_queue'), NEW j \in 1..Len(m_queue'), i < j
      PROVE  m_queue'[i].version < m_queue'[j].version
  <2>1. /\ i + 1 < j + 1 /\ i + 1 \in 1..Len(m_queue) /\ j + 1 \in 1..Len(m_queue)
        /\ m_queue'[i] = m_queue[i + 1] /\ m_queue'[j] = m_queue[j + 1]
    BY <1>3, <1>8
  <2> QED BY <1>4, <2>1 DEF InOrder
<1>9. InOrder'
  BY <1>1, <1>3, <1>4, <1>6, <1>7, <1>8 DEF InOrder
<1>10. ValuesProduced'
  BY <1>1, <1>3, <1>4, <1>6, <1>7 DEF ValuesProduced
<1>11. NewestKept'
  <2>1. CASE m_queue' = <<>>
    BY <1>1, <1>3, <1>4, <1>6, <2>1 DEF NewestKept
  <2>2. CASE m_queue' # <<>>
    <3>1. Len(m_queue') \in 1..Len(m_queue') /\ Len(m_queue') + 1 = Len(m_queue)
      BY <1>3, <2>2
    <3> QED BY <1>1, <1>3, <1>4, <2>2, <3>1 DEF NewestKept
  <2> QED BY <2>1, <2>2
<1>12. AskedIsRead'
  BY <1>1, <1>4 DEF AskedIsRead
<1> QED BY <1>9, <1>10, <1>11, <1>12

\* A step keeps the queue in order, ahead of the consumer, with the newest
\* state that was taken at its end.
LEMMA OrderStep ==
  ASSUME OrderInv, TypeOK', [Next]_vars
  PROVE  InOrder' /\ NewestKept' /\ ValuesProduced' /\ AskedIsRead'
<1> USE ReportingAssumption DEF OrderInv, TypeOK, InOrder, NewestKept, ValuesProduced,
       AskedIsRead, historyVars
<1>1. CASE Tick
  BY <1>1 DEF Tick
<1>2. CASE initProcessModel
  BY <1>2 DEF initProcessModel
<1>3. CASE setTrackerToRoomTransform
  BY <1>3 DEF setTrackerToRoomTransform
<1>4. CASE TransformSet
  BY <1>4 DEF TransformSet
<1>5. ASSUME NEW position \in Positions, NEW velocity \in Velocities,
             Update(position, velocity)
     PROVE  InOrder' /\ NewestKept' /\ ValuesProduced' /\ AskedIsRead'
  BY <1>5, OrderUpdate
<1>6. CASE getReport
  BY <1>6 DEF getReport
<1>7. CASE ReadOne
  BY <1>7, OrderRead
<1>8. CASE DrainEnds
  BY <1>8 DEF DrainEnds, moreToRead
<1>9. CASE Compute
  <2>1. /\ queueVal # None /\ queueVal' = None /\ report'.of = queueVal /\ rpc' = "idle"
        /\ UNCHANGED <<m_queue, produced, accepted, asked>>
    BY <1>9 DEF Compute, localGone, reportOf
  <2>2. None.version = 0 /\ queueVal.version \in Nat
    BY VersionTypes DEF VersionsAreNat
  <2>3. \A i \in 1..Len(m_queue) : m_queue[i].version \in Nat
    BY VersionTypes DEF VersionsAreNat
  <2> QED BY <2>1, <2>2, <2>3
<1>10. CASE UNCHANGED vars
  BY <1>10 DEF vars
<1> QED BY <1>1, <1>2, <1>3, <1>4, <1>5, <1>6, <1>7, <1>8, <1>9, <1>10
        DEF Next, ProducerNext, ConsumerNext, Update

\* The initial state is in order.
LEMMA OrderInit == Init => OrderInv
<1> SUFFICES ASSUME Init PROVE OrderInv
  OBVIOUS
<1>1. NoReport.of = None
  BY DEF NoReport
<1>2. TypeOK
  BY TypeInit
<1>3. Len(m_queue) = 0 /\ queueVal = None /\ report.of = None /\ None.version = 0
      /\ produced = 0 /\ accepted = 0 /\ asked = 0 /\ rpc = "idle" /\ m_queue = <<>>
  BY <1>1 DEF Init, None
<1> QED BY <1>2, <1>3 DEF OrderInv, InOrder, NewestKept, ValuesProduced, AskedIsRead

\* The queue stays in the order of production, ahead of the consumer.
THEOREM QueueInOrder == Spec => []InOrder
<1>1. OrderInv /\ [Next]_vars => OrderInv'
  BY OrderStep, TypeStep DEF OrderInv
<1>2. OrderInv => InOrder
  BY DEF OrderInv
<1> QED BY <1>1, <1>2, OrderInit, PTL DEF Spec

\* The newest state the queue took is never lost on its way to the host.
THEOREM NewestIsKept == Spec => []NewestKept
<1>1. OrderInv /\ [Next]_vars => OrderInv'
  BY OrderStep, TypeStep DEF OrderInv
<1>2. OrderInv => NewestKept
  BY DEF OrderInv
<1> QED BY <1>1, <1>2, OrderInit, PTL DEF Spec

\* Reports are computed from ever newer states.
THEOREM ForwardReports == Spec => ReportsMoveForward
<1>1. OrderInv /\ [Next]_vars => OrderInv'
  BY OrderStep, TypeStep DEF OrderInv
<1>2. ASSUME OrderInv, [Next]_vars
      PROVE  [report' # report => report'.of.version > report.of.version]_vars
  <2>1. CASE Compute
    <3>1. report'.of = queueVal /\ queueVal # None
      BY <1>2, <2>1 DEF Compute, reportOf, OrderInv, ValuesProduced
    <3>2. queueVal.version \in Nat /\ report.of.version \in Nat
      BY <1>2 DEF OrderInv, TypeOK, Values, Reports
    <3> QED BY <1>2, <3>1, <3>2 DEF OrderInv, InOrder
  <2>2. CASE ~ Compute
    <3>1. UNCHANGED report
      BY <1>2, <2>2 DEF Next, ProducerNext, ConsumerNext, vars, Tick, initProcessModel,
         setTrackerToRoomTransform, TransformSet, updateReportingVector,
         updateReportingVectorSingle, updateState, getReport, ReadOne, DrainEnds
    <3> QED BY <3>1
  <2> QED BY <2>1, <2>2
<1> QED BY <1>1, <1>2, OrderInit, PTL DEF Spec, ReportsMoveForward

\* getReport computes with the newest state the queue took before it was seen
\* empty.
THEOREM ReadsToTheEnd == Spec => ReadToTheEnd
<1>1. OrderInv /\ [Next]_vars => OrderInv'
  BY OrderStep, TypeStep DEF OrderInv
<1>2. ASSUME OrderInv, [Next]_vars
      PROVE  [rpc = "read" /\ rpc' = "compute" => queueVal.version = accepted]_vars
  <2> SUFFICES ASSUME rpc = "read", rpc' = "compute" PROVE queueVal.version = accepted
    OBVIOUS
  <2>1. DrainEnds
    BY <1>2 DEF Next, ProducerNext, ConsumerNext, vars, Tick, initProcessModel,
       setTrackerToRoomTransform, TransformSet, updateReportingVector,
         updateReportingVectorSingle, updateState, getReport, ReadOne, Compute
  <2> QED BY <1>2, <2>1 DEF DrainEnds, moreToRead, OrderInv, NewestKept
<1> QED BY <1>1, <1>2, OrderInit, PTL DEF Spec, ReadToTheEnd

\* A call of getReport that returns has reported a state at least as new as
\* any that the queue took before the call.
THEOREM CallsDeliver == Spec => CallDelivers
<1>1. OrderInv /\ [Next]_vars => OrderInv'
  BY OrderStep, TypeStep DEF OrderInv
<1>2. ASSUME OrderInv, [Next]_vars
      PROVE  [rpc # "idle" /\ rpc' = "idle" => report'.of.version >= asked]_vars
  <2> SUFFICES ASSUME rpc # "idle", rpc' = "idle" PROVE report'.of.version >= asked
    OBVIOUS
  <2>1. asked \in Nat /\ accepted \in Nat /\ VersionsAreNat
    BY <1>2, AskedIsNat, VersionTypes DEF OrderInv
  <2>2. CASE DrainEnds
    <3>1. accepted = report.of.version /\ UNCHANGED report
      BY <1>2, <2>2 DEF DrainEnds, moreToRead, OrderInv, NewestKept
    <3> QED BY <1>2, <2>1, <3>1 DEF OrderInv, AskedIsRead, VersionsAreNat
  <2>3. CASE Compute
    <3>1. report'.of = queueVal /\ asked <= queueVal.version
      BY <1>2, <2>3 DEF Compute, reportOf, OrderInv, AskedIsRead
    <3> QED BY <2>1, <3>1 DEF VersionsAreNat
  <2>4. DrainEnds \/ Compute
    BY <1>2 DEF Next, ProducerNext, ConsumerNext, vars, Tick, initProcessModel,
       setTrackerToRoomTransform, TransformSet, updateReportingVector,
       updateReportingVectorSingle, updateState, getReport, ReadOne
  <2> QED BY <2>2, <2>3, <2>4
<1> QED BY <1>1, <1>2, OrderInit, PTL DEF Spec, CallDelivers

-----------------------------------------------------------------------------
(***************************************************************************)
(* The room transform                                                      *)
(***************************************************************************)
RoomInv == OrderInv /\ roomFrom <= produced /\ RoomInPlace /\ RoomFromFirstFrame

\* What Compute finds once a set of bodies was reported is the transform in
\* one piece.
LEMMA ReadsRoom ==
  ASSUME TypeOK, RoomInPlace, roomFrom # 0, NEW xform \in readableTransforms
  PROVE  xform = Room
<1>1. m_trackerToRoom = Room /\ (ppc # "setting" \/ Room = Identity)
  BY DEF RoomInPlace
<1>2. Room = [rot |-> Room.rot, trans |-> Room.trans]
  BY ReportingAssumption DEF Transforms
<1> QED BY <1>1, <1>2 DEF readableTransforms

\* The first state handed out for a set of bodies finds the transform set, and
\* a report made before it is of an older state.
LEMMA RoomStep ==
  ASSUME RoomInv, [Next]_vars
  PROVE  roomFrom' <= produced' /\ RoomInPlace' /\ RoomFromFirstFrame'
<1> USE ReportingAssumption DEF RoomInv, OrderInv, TypeOK, RoomInPlace, RoomFromFirstFrame,
       historyVars
<1>1. CASE Tick
  BY <1>1 DEF Tick
<1>2. CASE initProcessModel
  BY <1>2 DEF initProcessModel
<1>3. CASE setTrackerToRoomTransform
  BY <1>3 DEF setTrackerToRoomTransform
<1>4. CASE TransformSet
  BY <1>4 DEF TransformSet
<1>5. ASSUME NEW position \in Positions, NEW velocity \in Velocities,
             updateReportingVector(position, velocity)
     PROVE  roomFrom' <= produced' /\ RoomInPlace' /\ RoomFromFirstFrame'
  <2>1. /\ m_trackerToRoom = Room /\ ppc = "ready" /\ produced' = produced + 1
        /\ roomFrom' = IF roomFrom = 0 THEN produced + 1 ELSE roomFrom
        /\ UNCHANGED <<m_trackerToRoom, ppc, report>>
    BY <1>5 DEF updateReportingVector, updateState, transformInPlace
  <2>2. report.of.version \in Nat /\ report.of.version <= produced
    BY VersionTypes DEF VersionsAreNat, InOrder
  <2> QED BY <2>1, <2>2
<1>6. ASSUME NEW position \in Positions, NEW velocity \in Velocities,
             updateReportingVectorSingle(position, velocity)
     PROVE  roomFrom' <= produced' /\ RoomInPlace' /\ RoomFromFirstFrame'
  BY <1>6 DEF updateReportingVectorSingle, updateState
<1>7. CASE getReport
  BY <1>7 DEF getReport
<1>8. CASE ReadOne
  BY <1>8 DEF ReadOne, moreToRead
<1>9. CASE DrainEnds
  BY <1>9 DEF DrainEnds
<1>10. CASE Compute
  <2>1. PICK xform \in readableTransforms : report' = reportOf(queueVal, xform)
    BY <1>10 DEF Compute
  <2>2. report'.xform = xform
    BY <2>1 DEF reportOf
  <2>3. roomFrom # 0 => xform = Room
    BY ReadsRoom
  <2> QED BY <1>10, <2>2, <2>3 DEF Compute
<1>11. CASE UNCHANGED vars
  BY <1>11 DEF vars
<1> QED BY <1>1, <1>2, <1>3, <1>4, <1>5, <1>6, <1>7, <1>8, <1>9, <1>10, <1>11
        DEF Next, ProducerNext, ConsumerNext

\* From the first state handed out for a set of bodies on, no report is without
\* the room transform, whichever path its state came by.
THEOREM RoomFromThen == Spec => []RoomFromFirstFrame
<1>1. Init => RoomInv
  BY OrderInit DEF Init, RoomInv, RoomInPlace, RoomFromFirstFrame
<1>2. RoomInv /\ [Next]_vars => RoomInv'
  BY OrderStep, TypeStep, RoomStep DEF RoomInv, OrderInv
<1>3. RoomInv => RoomFromFirstFrame
  BY DEF RoomInv
<1> QED BY <1>1, <1>2, <1>3, PTL DEF Spec

\* A tracker thread that buffers IMU messages hands out states for sets of
\* bodies only, so every report is in room space; by default it does not.
THEOREM RoomWhenBuffered == ASSUME BufferImu PROVE Spec => []RoomApplied
<1> DEFINE Inv == RoomInv /\ (produced > 0 => roomFrom = 1)
<1>1. Init => Inv
  BY OrderInit DEF Init, RoomInv, RoomInPlace, RoomFromFirstFrame
<1>2. ASSUME Inv, [Next]_vars PROVE Inv'
  <2>1. RoomInv'
    BY <1>2, OrderStep, TypeStep, RoomStep DEF RoomInv, OrderInv
  <2>2. produced' > 0 => roomFrom' = 1
    <3>1. produced \in Nat /\ roomFrom \in Nat /\ roomFrom <= produced
      BY <1>2 DEF RoomInv, OrderInv, TypeOK
    <3>2. CASE UNCHANGED <<produced, roomFrom>>
      BY <1>2, <3>2
    <3>3. CASE /\ produced' = produced + 1
               /\ roomFrom' = IF roomFrom = 0 THEN produced + 1 ELSE roomFrom
      BY <1>2, <3>1, <3>3
    <3>4. \/ UNCHANGED <<produced, roomFrom>>
          \/ /\ produced' = produced + 1
             /\ roomFrom' = IF roomFrom = 0 THEN produced + 1 ELSE roomFrom
      BY <1>2 DEF Next, ProducerNext, ConsumerNext, vars, historyVars, Tick,
         initProcessModel, setTrackerToRoomTransform, TransformSet, updateReportingVector,
         updateReportingVectorSingle, updateState, getReport, ReadOne, DrainEnds, Compute
    <3> QED BY <3>2, <3>3, <3>4
  <2> QED BY <2>1, <2>2
<1>3. ASSUME Inv PROVE RoomApplied
  <2> SUFFICES ASSUME report.of # None PROVE report.xform = Room
    BY DEF RoomApplied
  <2>1. report.of \in Values /\ report.of.version <= produced
    BY <1>3 DEF RoomInv, OrderInv, TypeOK, Reports, InOrder
  <2>2. report.of.version > 0
    BY <1>3 DEF RoomInv, OrderInv, ValuesProduced
  <2>3. produced \in Nat
    BY <1>3 DEF RoomInv, OrderInv, TypeOK
  <2> QED BY <1>3, <2>1, <2>2, <2>3 DEF RoomInv, RoomFromFirstFrame, Values
<1> QED BY <1>1, <1>2, <1>3, PTL DEF Spec

-----------------------------------------------------------------------------
(***************************************************************************)
(* The pose of a report                                                    *)
(***************************************************************************)

\* The report given is that of its state moved on for the time between the
\* state and the report; a body that is not predicted has that of its state.
LEMMA PredictedPose ==
  ASSUME TypeOK, NEW val \in Values, NEW xform \in Transforms
  PROVE  LET made == reportOf(val, xform) IN
         made.pose = applyTo(made.xform,
                       made.of.position + made.of.velocity * (made.timestamp - made.of.timestamp))
<1> DEFINE doingPrediction == m_hasProcessModel /\ val.velocity # 0
           dt == IF doingPrediction THEN predictionInterval(val) ELSE 0
           timestamp == IF doingPrediction THEN now + AdditionalPrediction ELSE val.timestamp
<1>1. now \in Int /\ AdditionalPrediction \in Int /\ val.timestamp \in Int
  BY ReportingAssumption DEF TypeOK, Values
<1>2. timestamp - val.timestamp = dt
  BY <1>1 DEF predictionInterval
<1>3. /\ reportOf(val, xform).pose = applyTo(xform, val.position + val.velocity * dt)
      /\ reportOf(val, xform).xform = xform /\ reportOf(val, xform).of = val
      /\ reportOf(val, xform).timestamp = timestamp
  BY DEF reportOf
<1> HIDE DEF dt, timestamp
<1> QED BY <1>2, <1>3

\* Only Compute makes a report.
LEMMA PoseStep ==
  ASSUME TypeOK, PoseAtTimestamp, [Next]_vars
  PROVE  PoseAtTimestamp'
<1>1. CASE Compute
  <2>1. PICK xform \in readableTransforms : report' = reportOf(queueVal, xform)
    BY <1>1 DEF Compute
  <2>2. xform \in Transforms /\ queueVal \in Values
    BY ReadableType DEF TypeOK
  <2> QED BY <2>1, <2>2, PredictedPose DEF PoseAtTimestamp
<1>2. CASE report' = report
  BY <1>2 DEF PoseAtTimestamp
<1>3. Compute \/ report' = report
  BY DEF Next, ProducerNext, ConsumerNext, vars, Tick, initProcessModel,
         setTrackerToRoomTransform, TransformSet, updateReportingVector,
         updateReportingVectorSingle, updateState, getReport, ReadOne, DrainEnds
<1> QED BY <1>1, <1>2, <1>3

\* The pose of a report is that of the body at the report's own timestamp,
\* predicted or not, in room space (getReport()).
THEOREM PoseOfItsTime == Spec => []PoseAtTimestamp
<1>1. Init => TypeOK /\ PoseAtTimestamp
  BY TypeInit DEF Init, PoseAtTimestamp, NoReport
<1>2. TypeOK /\ PoseAtTimestamp /\ [Next]_vars => (TypeOK /\ PoseAtTimestamp)'
  BY TypeStep, PoseStep
<1> QED BY <1>1, <1>2, PTL DEF Spec
=============================================================================
