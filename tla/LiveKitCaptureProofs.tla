------------------------ MODULE LiveKitCaptureProofs ------------------------
(***************************************************************************)
(* For any number of tracks and any times: a capture keeps to the contract *)
(* that MissionRecorder relies on, and leaves no footage half written that *)
(* its own tasks could have closed.                                        *)
(***************************************************************************)
EXTENDS LiveKitCapture, TLAPS

\* The values the proof works with.
Shape ==
    /\ stop \in BOOLEAN /\ failing \in BOOLEAN
    /\ place \in {"start", "connecting", "monitor", "draining", "disconnecting",
                  "returned", "raised"}
    /\ task \in [Tracks -> {"none", "new", "frames", "encoding", "closing", "done"}]
    /\ encoder \in [Tracks -> {"none", "open", "closed"}]
    /\ draining \subseteq Tracks /\ cut \subseteq Tracks /\ muxing \subseteq Tracks

\* An encoder belongs to its task: it is closed by the end of it, and still open
\* then only if the stream did not close.
EncoderOfTask ==
    \A tr \in Tracks :
        /\ tr \in muxing <=> task[tr] = "encoding"
        /\ task[tr] \in {"none", "new"} => encoder[tr] = "none"
        /\ encoder[tr] = "closed" => task[tr] = "done"
        /\ task[tr] = "done" /\ encoder[tr] = "open" => tr \in cut

\* The room is left when the tasks there were are over.
Drained ==
    /\ place \in {"start", "connecting", "monitor"} => draining = {}
    /\ place = "disconnecting" \/ Ended => \A tr \in draining : task[tr] = "done"

\* A capture closes because it fails or because it was told to stop.
ClosesForAReason ==
    place \in {"draining", "disconnecting"} /\ ~failing => stop

CaptureInv == Shape /\ EncoderOfTask /\ Drained /\ ClosesForAReason

-----------------------------------------------------------------------------
LEMMA CaptureInvInit == Init => CaptureInv
BY DEF Init, CaptureInv, Shape, EncoderOfTask, Drained, ClosesForAReason, Ended

\* A step of the task of one track.
LEMMA TrackStepInv ==
    ASSUME CaptureInv, NEW tr \in Tracks, TrackStep(tr)
    PROVE  CaptureInv'
<1> USE DEF CaptureInv, Shape, EncoderOfTask, Drained, ClosesForAReason, Ended,
        TaskTo, TaskOnly
<1>1. CASE TrackSubscribed(tr)
  BY <1>1 DEF TrackSubscribed
<1>2. CASE TaskStarts(tr)
  BY <1>2 DEF TaskStarts
<1>3. CASE FrameArrives(tr)
  BY <1>3 DEF FrameArrives
<1>4. CASE FrameEncoded(tr)
  BY <1>4 DEF FrameEncoded
<1>5. CASE StreamEnds(tr)
  BY <1>5 DEF StreamEnds
<1>6. CASE StreamCloses(tr)
  BY <1>6 DEF StreamCloses
<1>7. QED
  BY <1>1, <1>2, <1>3, <1>4, <1>5, <1>6 DEF TrackStep

\* Tasks are cancelled: one that is over at once has no encoder, or is cut off.
LEMMA CloseCaptureInv ==
    ASSUME CaptureInv, NEW error \in BOOLEAN, CloseCapture(error),
           place \in {"connecting", "monitor"}, error \/ stop
    PROVE  CaptureInv'
<1> USE DEF CaptureInv, CloseCapture, CaptureOnly
<1>1. \A tr \in Tracks :
        task'[tr] = CASE task[tr] = "frames" -> "closing"
                      [] task[tr] \in {"new", "closing"} -> "done"
                      [] OTHER -> task[tr]
  OBVIOUS
<1>2. Shape'
  BY <1>1 DEF Shape
<1>3. EncoderOfTask'
  BY <1>1 DEF EncoderOfTask, Shape
<1>4. Drained' /\ ClosesForAReason'
  BY DEF Drained, ClosesForAReason, Ended
<1>5. QED
  BY <1>2, <1>3, <1>4

\* A step of capture() itself.
LEMMA CaptureStepInv ==
    ASSUME CaptureInv, CaptureStep
    PROVE  CaptureInv'
<1> USE DEF CaptureInv, Shape, EncoderOfTask, Drained, ClosesForAReason, Ended,
        CaptureOnly, taskVars, timeVars
<1>1. CASE GenerateConfig
  BY <1>1 DEF GenerateConfig
<1>2. CASE Connect
  <2>1. CASE CloseCapture(TRUE)
    BY <1>2, <2>1, CloseCaptureInv DEF Connect
  <2>2. CASE ~CloseCapture(TRUE)
    BY <1>2, <2>2 DEF Connect
  <2>3. QED
    BY <2>1, <2>2
<1>3. CASE MonitorFails
  BY <1>3, CloseCaptureInv DEF MonitorFails
<1>4. CASE MonitorStops
  BY <1>4, CloseCaptureInv DEF MonitorStops
<1>5. CASE MonitorPolls
  BY <1>5 DEF MonitorPolls
<1>6. CASE TasksGathered
  BY <1>6 DEF TasksGathered
<1>7. CASE Disconnect
  BY <1>7 DEF Disconnect
<1>8. QED
  BY <1>1, <1>2, <1>3, <1>4, <1>5, <1>6, <1>7 DEF CaptureStep

LEMMA CaptureInvNext == CaptureInv /\ [Next]_vars => CaptureInv'
<1> SUFFICES ASSUME CaptureInv, [Next]_vars PROVE CaptureInv'
  OBVIOUS
<1> USE DEF CaptureInv, Shape, EncoderOfTask, Drained, ClosesForAReason, Ended,
        taskVars, timeVars
<1>1. CASE Stop
  BY <1>1 DEF Stop
<1>2. CASE RoomReportsLoss
  BY <1>2 DEF RoomReportsLoss, TaskOnly
<1>3. ASSUME NEW tr \in Tracks, TrackStep(tr) PROVE CaptureInv'
  BY <1>3, TrackStepInv
<1>4. CASE KeepaliveWakes \/ KeepaliveAnswered \/ KeepaliveRaises
  BY <1>4 DEF KeepaliveWakes, KeepaliveAnswered, KeepaliveRaises, KeepaliveStep
<1>5. CASE CaptureStep
  BY <1>5, CaptureStepInv
<1>6. CASE Tick
  BY <1>6 DEF Tick
<1>7. CASE UNCHANGED vars
  BY <1>7 DEF vars
<1>8. QED
  BY <1>1, <1>2, <1>3, <1>4, <1>5, <1>6, <1>7 DEF Next

LEMMA CaptureInvHolds == Spec => []CaptureInv
BY CaptureInvInit, CaptureInvNext, PTL DEF Spec

-----------------------------------------------------------------------------
(* The other variables keep their types as well.                           *)

Watching ==
    /\ failure \in BOOLEAN /\ polled \in BOOLEAN
    /\ keepalive \in {"none", "sleeping", "calling", "failed", "cancelled"}
    /\ cancelled \subseteq muxing
    /\ observed \subseteq Tracks /\ opened \subseteq Tracks
    /\ connectedFor \in 0..FirstFrame + 1 /\ silent \in [Tracks -> 0..Stall + 1]

LEMMA TimersStart == 0 \in 0..FirstFrame + 1 /\ 0 \in 0..Stall + 1
BY TimesAssumption

LEMMA WatchingInit == Init => Watching
BY TimersStart DEF Init, Watching

LEMMA WatchingTrack ==
    ASSUME CaptureInv, Watching, NEW tr \in Tracks, TrackStep(tr)
    PROVE  Watching'
<1> USE TimesAssumption DEF Watching, TaskTo, TaskOnly
<1>1. CASE TrackSubscribed(tr) \/ StreamEnds(tr) \/ StreamCloses(tr)
  BY <1>1 DEF TrackSubscribed, StreamEnds, StreamCloses
<1>2. CASE TaskStarts(tr)
  BY <1>2, TimersStart DEF TaskStarts
<1>3. CASE FrameArrives(tr)
  BY <1>3 DEF FrameArrives
<1>4. CASE FrameEncoded(tr)
  BY <1>4, TimersStart DEF FrameEncoded
<1>5. QED
  BY <1>1, <1>2, <1>3, <1>4 DEF TrackStep

LEMMA WatchingCapture ==
    ASSUME CaptureInv, Watching, CaptureStep
    PROVE  Watching'
<1> USE TimesAssumption DEF Watching, CaptureOnly, taskVars, timeVars
<1>1. ASSUME NEW error \in BOOLEAN, CloseCapture(error) PROVE Watching'
  BY <1>1 DEF CloseCapture, CaptureInv, EncoderOfTask
<1>2. CASE GenerateConfig
  BY <1>2 DEF GenerateConfig
<1>3. CASE Connect
  <2>1. CASE CloseCapture(TRUE)
    BY <1>1, <2>1
  <2>2. CASE ~CloseCapture(TRUE)
    BY <1>3, <2>2, TimersStart DEF Connect
  <2>3. QED
    BY <2>1, <2>2
<1>4. CASE MonitorFails
  BY <1>1, <1>4 DEF MonitorFails
<1>5. CASE MonitorStops
  BY <1>1, <1>5 DEF MonitorStops
<1>6. CASE MonitorPolls
  BY <1>6 DEF MonitorPolls
<1>7. CASE TasksGathered \/ Disconnect
  BY <1>7 DEF TasksGathered, Disconnect
<1>8. QED
  BY <1>2, <1>3, <1>4, <1>5, <1>6, <1>7 DEF CaptureStep

LEMMA WatchingNext == CaptureInv /\ Watching /\ [Next]_vars => Watching'
<1> SUFFICES ASSUME CaptureInv, Watching, [Next]_vars PROVE Watching'
  OBVIOUS
<1> USE TimesAssumption DEF Watching, taskVars, timeVars
<1>1. CASE Stop \/ RoomReportsLoss
  BY <1>1 DEF Stop, RoomReportsLoss, TaskOnly
<1>2. ASSUME NEW tr \in Tracks, TrackStep(tr) PROVE Watching'
  BY <1>2, WatchingTrack
<1>3. CASE CaptureStep
  BY <1>3, WatchingCapture
<1>4. CASE KeepaliveWakes \/ KeepaliveAnswered \/ KeepaliveRaises
  BY <1>4 DEF KeepaliveWakes, KeepaliveAnswered, KeepaliveRaises, KeepaliveStep
<1>5. CASE Tick
  <2>1. connectedFor' \in 0..FirstFrame + 1
    BY <1>5 DEF Tick
  <2>2. silent' \in [Tracks -> 0..Stall + 1]
    BY <1>5 DEF Tick
  <2>3. QED
    BY <1>5, <2>1, <2>2 DEF Tick
<1>6. CASE UNCHANGED vars
  BY <1>6 DEF vars
<1>7. QED
  BY <1>1, <1>2, <1>3, <1>4, <1>5, <1>6 DEF Next

\* Every variable keeps its type; in particular a thread encodes exactly for the
\* tasks that wait for a frame, and only such a task is cancelled without ending.
THEOREM CaptureTypes == Spec => []TypeOK
<1>1. CaptureInv /\ Watching => TypeOK
  <2> SUFFICES ASSUME CaptureInv, Watching PROVE TypeOK
    OBVIOUS
  <2>1. muxing = {tr \in Tracks : task[tr] = "encoding"}
    BY DEF CaptureInv, Shape, EncoderOfTask
  <2>2. QED
    BY <2>1 DEF CaptureInv, Shape, Watching, TypeOK
<1>2. Spec => []Watching
  BY WatchingInit, WatchingNext, CaptureInvHolds, PTL DEF Spec
<1>3. QED
  BY <1>1, <1>2, CaptureInvHolds, PTL

-----------------------------------------------------------------------------
\* No encoder is closed under a thread that writes to it, and the room is left
\* only when the tasks have closed theirs: the order in _record_track and
\* _close_capture, and the shield around a frame, see to it.
THEOREM FootageIsClosed == Spec => []FootageClosed
<1>1. CaptureInv => FootageClosed
  BY DEF CaptureInv, Shape, EncoderOfTask, Drained, FootageClosed
<1>2. QED
  BY <1>1, CaptureInvHolds, PTL

-----------------------------------------------------------------------------
(* The contract.                                                           *)

Mode == IF Ended THEN place ELSE "running"

LEMMA ContractInit == Init => Contract!Init
BY DEF Init, Contract!Init, Ended

\* The steps that the contract does not tell from standing still.
LEMMA ContractStutters ==
    ASSUME UNCHANGED <<stop, opened>>, Ended' = Ended, Ended => place' = place
    PROVE  UNCHANGED Contract!vars
BY DEF Contract!vars, Ended

LEMMA ContractTrack ==
    ASSUME CaptureInv, NEW tr \in Tracks, TrackStep(tr)
    PROVE  [Contract!Next]_(Contract!vars)
<1>1. UNCHANGED <<stop, place>>
  BY DEF TrackStep, TrackSubscribed, TaskStarts, FrameArrives, FrameEncoded,
         StreamEnds, StreamCloses, TaskOnly
<1>2. opened' = opened \/ (~stop /\ opened' = opened \union {tr})
  BY DEF TrackStep, TrackSubscribed, TaskStarts, FrameArrives, FrameEncoded,
         StreamEnds, StreamCloses
<1>3. CASE opened' = opened
  BY <1>1, <1>3, ContractStutters DEF Ended
<1>4. CASE ~stop /\ opened' = opened \union {tr}
  BY <1>1, <1>4 DEF Contract!Next, Contract!Open, Ended
<1>5. QED
  BY <1>2, <1>3, <1>4

LEMMA ContractCapture ==
    ASSUME CaptureInv, CaptureStep
    PROVE  [Contract!Next]_(Contract!vars)
<1> USE DEF CaptureOnly, taskVars, timeVars
<1>1. CASE GenerateConfig
  BY <1>1 DEF GenerateConfig, Contract!Next, Contract!Fail, Contract!vars, Ended
<1>2. CASE Connect
  BY <1>2, ContractStutters DEF Connect, CloseCapture, Ended
<1>3. CASE MonitorFails \/ MonitorStops
  BY <1>3, ContractStutters DEF MonitorFails, MonitorStops, CloseCapture, Ended
<1>4. CASE MonitorPolls
  BY <1>4, ContractStutters DEF MonitorPolls, Ended
<1>5. CASE TasksGathered
  BY <1>5, ContractStutters DEF TasksGathered, Ended
<1>6. CASE Disconnect
  <2>1. failing \/ stop
    BY <1>6 DEF CaptureInv, ClosesForAReason, Disconnect
  <2>2. place' = "raised" \/ (place' = "returned" /\ stop)
    BY <1>6, <2>1 DEF Disconnect, CaptureInv, Shape
  <2>3. QED
    BY <1>6, <2>2
    DEF Disconnect, Contract!Next, Contract!Fail, Contract!Return, Ended
<1>7. QED
  BY <1>1, <1>2, <1>3, <1>4, <1>5, <1>6 DEF CaptureStep

LEMMA ContractNext ==
    CaptureInv /\ [Next]_vars => [Contract!Next]_(Contract!vars)
<1> SUFFICES ASSUME CaptureInv, [Next]_vars PROVE [Contract!Next]_(Contract!vars)
  OBVIOUS
<1> USE DEF taskVars, timeVars
<1>1. CASE Stop
  BY <1>1 DEF Stop, Contract!Next, Contract!Stop, Ended
<1>2. ASSUME NEW tr \in Tracks, TrackStep(tr) PROVE [Contract!Next]_(Contract!vars)
  BY <1>2, ContractTrack
<1>3. CASE CaptureStep
  BY <1>3, ContractCapture
<1>4. CASE RoomReportsLoss \/ Tick
  BY <1>4, ContractStutters DEF RoomReportsLoss, TaskOnly, Tick, Ended
<1>5. CASE KeepaliveWakes \/ KeepaliveAnswered \/ KeepaliveRaises
  BY <1>5, ContractStutters
  DEF KeepaliveWakes, KeepaliveAnswered, KeepaliveRaises, KeepaliveStep, Ended
<1>6. CASE UNCHANGED vars
  BY <1>6, ContractStutters DEF vars, Ended
<1>7. QED
  BY <1>1, <1>2, <1>3, <1>4, <1>5, <1>6 DEF Next

\* The capture implements what the recorder relies on: no segment after the stop
\* event, and no return without it, however its tasks interleave.
THEOREM CaptureKeepsContract == Spec => KeepsContract
<1>1. QED
  BY ContractInit, ContractNext, CaptureInvHolds, PTL
  DEF Spec, KeepsContract, Contract!Spec
=============================================================================
