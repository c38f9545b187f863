------------------------ MODULE MissionControlProofs ------------------------
(***************************************************************************)
(* Theorems about MissionControl, for every set of missions, every setting *)
(* and every bound.                                                        *)
(***************************************************************************)
EXTENDS MissionControl, TLAPS

UnderLease == {"mode", "request", "release"}

\* The inductive invariant of the lease protocol: a lease is out only while the
\* command thread is between take_control and release_control, or if it is lost.
LeaseInv ==
    /\ pc \in Pc
    /\ op = "none" <=> pc = "idle"
    /\ lease \in Nat /\ granted \in Nat
    /\ pc \in UnderLease => lease = leaseId
    /\ pc \notin UnderLease /\ lease # 0 => lease \in lostLeases

\* No lease is out before the first call.
LEMMA LeaseInit == Init => LeaseInv
BY DEF Init, LeaseInv, Pc, UnderLease, leaseVars

\* The lease a call works under is the one the robot has out; no other step of
\* Next touches it.
LEMMA LeaseStep == LeaseInv /\ [Next]_vars => LeaseInv'
<1> SUFFICES ASSUME LeaseInv, [Next]_vars PROVE LeaseInv'
    OBVIOUS
<1> USE DEF LeaseInv, Pc, UnderLease
<1>1. ASSUME NEW m \in Missions, InitiateMission(m) PROVE LeaseInv'
    BY <1>1 DEF InitiateMission, Enter, FirstStep, leaseVars
<1>2. ASSUME NEW m \in Missions, InitiateReturnHome(m) PROVE LeaseInv'
    BY <1>2 DEF InitiateReturnHome, Enter, leaseVars
<1>3. CASE PauseResumeOrStop
    BY <1>3 DEF PauseResumeOrStop, Enter, leaseVars
<1>4. CASE CommandStep
  <2> USE DEF GoTo, FailInTry, Raise, Leave, leaseVars
  <2>1. CASE PrepareMissionPlan
      BY <2>1 DEF PrepareMissionPlan
  <2>2. CASE TakeControl
      BY <2>2 DEF TakeControl
  <2>3. CASE SetUserInteractionMode
      BY <2>3 DEF SetUserInteractionMode
  <2>4. CASE RequestAnswered
      BY <2>4 DEF RequestAnswered
  <2>5. CASE RequestAnswerLost
      BY <2>5 DEF RequestAnswerLost
  <2>6. CASE RequestNotDone
      BY <2>6 DEF RequestNotDone
  <2>7. CASE ReleaseControl
      BY <2>7 DEF ReleaseControl, AfterRelease, Starting
  <2>8. CASE RecordRun
      BY <2>8 DEF RecordRun
  <2>9. CASE RecordMission
      BY <2>9 DEF RecordMission
  <2>10. CASE RecordStop
      BY <2>10 DEF RecordStop
  <2>11. QED
      BY <1>4, <2>1, <2>2, <2>3, <2>4, <2>5, <2>6, <2>7, <2>8, <2>9, <2>10
         DEF CommandStep
<1>5. CASE PollMission \/ PollTask \/ MonitorStep
  <2>1. UNCHANGED <<commandVars, leaseVars>>
      BY <1>5 DEF PollMission, PollTask, Poll, MonitorStep, MonitorOnly, CheckMission,
         CheckEvent, ReadStoredFlag, ReadStatus, ReadSummaries, ReadOutcome,
         ReadHomeFlag, ReadTask, ClearHomeFlag
  <2>2. QED
      BY <2>1 DEF commandVars, leaseVars
<1>6. CASE \/ RunEnds \/ \E r \in Foreign : OperatorStartsRun(r)
           \/ Publish \/ StreamBreaks \/ Subscribe \/ UpdateMissionEvent
  <2>1. UNCHANGED <<commandVars, leaseVars>>
      BY <1>6 DEF RunEnds, OperatorStartsRun, Publish, StreamBreaks, Subscribe,
         UpdateMissionEvent, PluginIdle
  <2>2. QED
      BY <2>1 DEF commandVars, leaseVars
<1>7. CASE UNCHANGED vars
    BY <1>7 DEF vars, commandVars, leaseVars
<1>8. QED
    BY <1>1, <1>2, <1>3, <1>4, <1>5, <1>6, <1>7 DEF Next

\* Control is handed back after every call: a lease that is out between calls is
\* one the robot granted without an answer, or one whose release did not get
\* through (the finally clauses of API).
THEOREM LeaseIsReturned == Spec => []LeaseReturned
<1>1. LeaseInv => LeaseReturned
    BY DEF LeaseInv, LeaseReturned, UnderLease
<1>2. QED
    BY LeaseInit, LeaseStep, <1>1, PTL DEF Spec

-----------------------------------------------------------------------------
(* Type correctness.                                                       *)

\* get_mission_status yields a status of ISAR or RobotMissionStatusException.
LEMMA VerdictType ==
    \A statuses : Verdict(statuses) \in IsarMissionStatus \union {MissionStatusError}
BY DEF Verdict, IsarMissionStatus, IsarTaskStatus

\* The same for its branch for stored missions without summaries.
LEMMA StoredVerdictType ==
    \A status, outcome :
        StoredVerdict(status, outcome) \in IsarMissionStatus \union {MissionStatusError}
BY DEF StoredVerdict, IsarMissionStatus, IsarTaskStatus

\* Both together, whatever event the pieces were read from.
LEMMA MissionStatusType ==
    \A status, summaries, outcome, stored :
        MissionStatusFrom(status, summaries, outcome, stored)
            \in IsarMissionStatus \union {MissionStatusError}
<1> SUFFICES ASSUME NEW status, NEW summaries, NEW outcome, NEW stored
             PROVE  MissionStatusFrom(status, summaries, outcome, stored)
                        \in IsarMissionStatus \union {MissionStatusError}
    OBVIOUS
<1>1. StoredVerdict(status, outcome) \in IsarMissionStatus \union {MissionStatusError}
    BY StoredVerdictType
<1>2. Verdict(TaskStatusesOf(summaries)) \in IsarMissionStatus \union {MissionStatusError}
    BY VerdictType
<1>3. {"Paused", "InProgress"} \subseteq IsarMissionStatus
    BY DEF IsarMissionStatus, IsarTaskStatus
<1>4. QED
    BY <1>1, <1>2, <1>3 DEF MissionStatusFrom

\* The type invariant, and the facts about the position of a thread that it
\* needs to be inductive: a status about to be returned was read, and a run
\* about to be started or recorded is that of a mission.
TypeInv ==
    /\ TypeOK
    /\ mpc = "clearHome" => valueRead \in IsarTaskStatus
    /\ op \in {"initiate", "home"} => arg \in Missions
    /\ job \in {"start", "dock"} => op \in {"initiate", "home"}
    /\ pc = "prepare" \/ job = "disengage" => op = "initiate"

\* What the monitor shows while a poll is under way is a legal report.
LEMMA NoReportType ==
    NoReport \in [kind: {"mission", "task"}, mission: Missions \union {None},
                  value: Answers, overtaken: BOOLEAN]
<1>1. "NotStarted" \in Answers
    BY DEF Answers, IsarMissionStatus, IsarTaskStatus
<1>2. QED
    BY <1>1 DEF NoReport

\* The initial state has the right types.
LEMMA TypeInit == Init => TypeInv
<1> SUFFICES ASSUME Init PROVE TypeInv
    OBVIOUS
<1>1. RobotTypeOK /\ CommandTypeOK /\ ReadTypeOK
    BY DEF Init, RobotTypeOK, CommandTypeOK, ReadTypeOK, Pc, Mpc
<1>2. ReportTypeOK /\ LeaseTypeOK
    BY NoReportType DEF Init, ReportTypeOK, LeaseTypeOK
<1>3. RunTypeOK
    BY DEF Init, RunTypeOK, Phase
<1>4. StreamTypeOK
  <2>1. connected \in BOOLEAN
      BY DEF Init
  <2>2. inFlight \in Seq(Event)
      BY DEF Init
  <2>3. QED
      BY <2>1, <2>2 DEF Init, StreamTypeOK
<1>5. overtaken \in BOOLEAN
    BY DEF Init
<1>6. QED
    BY <1>1, <1>2, <1>3, <1>4, <1>5 DEF Init, TypeInv, TypeOK

\* The groups of variables, unchanged.
LEMMA TypeUnchanged ==
    /\ RobotTypeOK /\ UNCHANGED robotVars => RobotTypeOK'
    /\ CommandTypeOK /\ UNCHANGED commandVars => CommandTypeOK'
    /\ ReadTypeOK /\ UNCHANGED <<mpc, readVars>> => ReadTypeOK'
    /\ ReportTypeOK /\ UNCHANGED <<report, supervised>> => ReportTypeOK'
    /\ LeaseTypeOK /\ UNCHANGED leaseVars => LeaseTypeOK'
    /\ RunTypeOK /\ UNCHANGED runVars => RunTypeOK'
    /\ StreamTypeOK /\ UNCHANGED <<lastEvent, streamVars>> => StreamTypeOK'
<1>1. RobotTypeOK /\ UNCHANGED robotVars => RobotTypeOK'
    BY DEF RobotTypeOK, robotVars
<1>2. CommandTypeOK /\ UNCHANGED commandVars => CommandTypeOK'
    BY DEF CommandTypeOK, commandVars
<1>3. ReadTypeOK /\ UNCHANGED <<mpc, readVars>> => ReadTypeOK'
    BY DEF ReadTypeOK, readVars
<1>4. ReportTypeOK /\ UNCHANGED <<report, supervised>> => ReportTypeOK'
    BY DEF ReportTypeOK
<1>5. LeaseTypeOK /\ UNCHANGED leaseVars => LeaseTypeOK'
    BY DEF LeaseTypeOK, leaseVars
<1>6. RunTypeOK /\ UNCHANGED runVars => RunTypeOK'
    BY DEF RunTypeOK, runVars
<1>7. StreamTypeOK /\ UNCHANGED <<lastEvent, streamVars>> => StreamTypeOK'
    BY DEF StreamTypeOK, streamVars
<1>8. QED
    BY <1>1, <1>2, <1>3, <1>4, <1>5, <1>6, <1>7

\* How the command thread moves on inside a call, and how it leaves one.
LEMMA TypeMove ==
    ASSUME CommandTypeOK
    PROVE  /\ Leave => CommandTypeOK'
           /\ FailInTry => CommandTypeOK'
           /\ \A step \in Pc : GoTo(step) => CommandTypeOK'
<1>1. Leave => CommandTypeOK'
  <2>1. Leave => failing' \in BOOLEAN
      BY DEF Leave
  <2>2. QED
      BY <2>1 DEF Leave, CommandTypeOK, Pc
<1>2. FailInTry => CommandTypeOK'
  <2>1. FailInTry => failing' \in BOOLEAN
      BY DEF FailInTry
  <2>2. QED
      BY <2>1 DEF FailInTry, CommandTypeOK, Pc
<1>3. \A step \in Pc : GoTo(step) => CommandTypeOK'
    BY DEF GoTo, CommandTypeOK
<1>4. QED
    BY <1>1, <1>2, <1>3

\* A write to what is being read is remembered as a Boolean.
LEMMA TypeOvertake == Overtake => overtaken' \in BOOLEAN
BY DEF Overtake

\* A request the robot carries out leaves it in a state it can be in.
LEMMA TypeCarryOut ==
    ASSUME TypeInv, CarryOut
    PROVE  RunTypeOK'
<1>1. CASE job = "disengage" /\ UNCHANGED runVars
    BY <1>1, TypeUnchanged DEF TypeInv, TypeOK
<1>2. CASE job \in {"start", "dock"} /\ RobotStarts(arg)
  <2>1. arg \in Missions
      BY <1>2 DEF TypeInv
  <2>2. QED
      BY <1>2, <2>1 DEF TypeInv, TypeOK, RobotStarts, RunTypeOK, Phase, Runs
<1>3. CASE RobotTurns("running", "paused") \/ RobotTurns("paused", "running")
    BY <1>3 DEF TypeInv, TypeOK, RobotTurns, RunTypeOK, Phase
<1>4. QED
    BY <1>1, <1>2, <1>3 DEF CarryOut

\* Every step inside a call of the command thread keeps the types, one case per
\* step of CommandStep.
LEMMA TypeCommand ==
    ASSUME TypeInv, CommandStep
    PROVE  TypeInv'
<1>a. /\ RobotTypeOK /\ CommandTypeOK /\ ReadTypeOK /\ ReportTypeOK
      /\ LeaseTypeOK /\ RunTypeOK /\ StreamTypeOK
      /\ overtaken \in BOOLEAN /\ lostRuns \subseteq Missions
    BY DEF TypeInv, TypeOK
\* No step of the command thread touches the read in flight.
<1>b. UNCHANGED <<mpc, readVars, report, streamVars>>
    BY DEF CommandStep, PrepareMissionPlan, TakeControl, SetUserInteractionMode,
       RequestAnswered, RequestAnswerLost, RequestNotDone, ReleaseControl,
       RecordRun, RecordMission, RecordStop
<1>c. UNCHANGED lastEvent
    BY DEF CommandStep, PrepareMissionPlan, TakeControl, SetUserInteractionMode,
       RequestAnswered, RequestAnswerLost, RequestNotDone, ReleaseControl,
       RecordRun, RecordMission, RecordStop, robotVars
<1>d. /\ ReadTypeOK' /\ StreamTypeOK'
      /\ mpc' = "clearHome" => valueRead' \in IsarTaskStatus
    BY <1>a, <1>b, <1>c, TypeUnchanged DEF TypeInv, readVars
<1>e. ASSUME RobotTypeOK', CommandTypeOK', LeaseTypeOK', RunTypeOK',
             overtaken' \in BOOLEAN, lostRuns' \subseteq Missions,
             supervised' \in Missions \union {None},
             op' \in {"initiate", "home"} => arg' \in Missions,
             job' \in {"start", "dock"} => op' \in {"initiate", "home"},
             pc' = "prepare" \/ job' = "disengage" => op' = "initiate"
      PROVE  TypeInv'
  <2>1. ReportTypeOK'
      BY <1>a, <1>b, <1>e DEF ReportTypeOK
  <2>2. QED
      BY <1>d, <1>e, <2>1 DEF TypeInv, TypeOK
\* Where a call goes when it moves on or ends.
<1>f. ASSUME \/ Leave \/ FailInTry \/ \E step \in Pc \ {"prepare"} : GoTo(step)
      PROVE  /\ CommandTypeOK'
             /\ op' \in {"initiate", "home"} => arg' \in Missions
             /\ job' \in {"start", "dock"} => op' \in {"initiate", "home"}
             /\ pc' = "prepare" \/ job' = "disengage" => op' = "initiate"
  <2>1. CommandTypeOK'
      BY <1>a, <1>f, TypeMove
  <2>2. QED
      BY <1>f, <2>1 DEF Leave, FailInTry, GoTo, TypeInv
<1>1. CASE PrepareMissionPlan
  <2>1. RobotTypeOK' /\ LeaseTypeOK' /\ RunTypeOK'
      BY <1>1, <1>a, TypeUnchanged DEF PrepareMissionPlan
  <2>2. CASE Raise
      BY <1>1, <1>a, <1>e, <1>f, <2>1, <2>2 DEF PrepareMissionPlan, Raise, ReportTypeOK
  <2>3. CASE ~Raise
    <3>1. CommandTypeOK'
        BY <1>1, <1>a, <2>3 DEF PrepareMissionPlan, CommandTypeOK, Pc
    <3>2. op = "initiate" /\ UNCHANGED <<op, arg, supervised>>
        BY <1>1, <2>3 DEF PrepareMissionPlan, TypeInv
    <3>3. QED
        BY <1>1, <1>a, <1>e, <2>1, <3>1, <3>2
           DEF PrepareMissionPlan, ReportTypeOK, TypeInv
  <2>4. QED
      BY <2>2, <2>3
<1>2. CASE TakeControl
  <2>1. RobotTypeOK' /\ RunTypeOK'
      BY <1>2, <1>a, TypeUnchanged DEF TakeControl
  <2>2. LeaseTypeOK'
    <3>1. granted + 1 \in Nat
        BY <1>a DEF LeaseTypeOK
    <3>2. /\ lease' \in {lease, granted + 1} /\ granted' \in {granted, granted + 1}
          /\ lostLeases' \subseteq lostLeases \union {granted + 1}
        BY <1>2 DEF TakeControl, leaseVars
    <3>3. QED
        BY <1>a, <3>1, <3>2 DEF LeaseTypeOK
  <2>3. CASE Raise
      BY <1>2, <1>a, <1>e, <1>f, <2>1, <2>2, <2>3 DEF TakeControl, Raise, ReportTypeOK
  <2>4. CASE ~Raise
    <3>1. CommandTypeOK'
        BY <1>2, <1>a, <2>4 DEF TakeControl, CommandTypeOK, LeaseTypeOK, Pc
    <3>2. UNCHANGED <<op, arg, job, supervised, overtaken, lostRuns>>
        BY <1>2, <2>4 DEF TakeControl
    <3>3. pc' # "prepare"
        BY <1>2, <2>4 DEF TakeControl
    <3>4. QED
        BY <1>a, <1>e, <2>1, <2>2, <3>1, <3>2, <3>3 DEF ReportTypeOK, TypeInv
  <2>5. QED
      BY <2>3, <2>4
<1>3. CASE SetUserInteractionMode \/ RequestNotDone
  <2>1. RobotTypeOK' /\ LeaseTypeOK' /\ RunTypeOK'
      BY <1>3, <1>a, TypeUnchanged DEF SetUserInteractionMode, RequestNotDone
  <2>2. FailInTry \/ \E step \in Pc \ {"prepare"} : GoTo(step)
      BY <1>3 DEF SetUserInteractionMode, RequestNotDone, Pc
  <2>3. QED
      BY <1>3, <1>a, <1>e, <1>f, <2>1, <2>2
         DEF SetUserInteractionMode, RequestNotDone, ReportTypeOK
<1>4. CASE RequestAnswered \/ RequestAnswerLost
  <2>1. RobotTypeOK' /\ LeaseTypeOK'
      BY <1>4, <1>a, TypeUnchanged DEF RequestAnswered, RequestAnswerLost
  <2>2. RunTypeOK'
      BY <1>4, TypeCarryOut DEF RequestAnswered, RequestAnswerLost
  <2>3. FailInTry \/ \E step \in Pc \ {"prepare"} : GoTo(step)
      BY <1>4 DEF RequestAnswered, RequestAnswerLost, Pc
  <2>4. lostRuns' \subseteq Missions
      BY <1>4, <1>a DEF RequestAnswered, RequestAnswerLost, Starting, TypeInv
  <2>5. QED
      BY <1>4, <1>a, <1>e, <1>f, <2>1, <2>2, <2>3, <2>4
         DEF RequestAnswered, RequestAnswerLost, ReportTypeOK
<1>5. CASE ReleaseControl
  <2>1. RobotTypeOK' /\ RunTypeOK'
      BY <1>5, <1>a, TypeUnchanged DEF ReleaseControl
  <2>2. LeaseTypeOK'
    <3>1. /\ lease' \in {lease, 0} /\ granted' = granted
          /\ lostLeases' \subseteq lostLeases \union {leaseId}
        BY <1>5 DEF ReleaseControl
    <3>2. QED
        BY <1>a, <3>1 DEF LeaseTypeOK, CommandTypeOK
  <2>3. lostRuns' \subseteq Missions
      BY <1>5, <1>a DEF ReleaseControl, Starting, TypeInv
  <2>4. Raise \/ AfterRelease
      BY <1>5 DEF ReleaseControl
  <2>5. UNCHANGED <<supervised, overtaken>>
      BY <1>5, <2>4 DEF ReleaseControl, Raise, AfterRelease
  <2>6. /\ CommandTypeOK'
        /\ op' \in {"initiate", "home"} => arg' \in Missions
        /\ job' \in {"start", "dock"} => op' \in {"initiate", "home"}
        /\ pc' = "prepare" \/ job' = "disengage" => op' = "initiate"
    <3>1. CASE Leave \/ GoTo("recordRun") \/ GoTo("recordStop")
        BY <3>1, <1>f DEF Pc
    <3>2. CASE /\ job = "disengage"
               /\ job' = "start" /\ pc' = "lease" /\ leaseId' = 0
               /\ UNCHANGED <<op, arg, failing, commands, requested>>
        BY <3>2, <1>a DEF CommandTypeOK, Pc, TypeInv
    <3>3. QED
        BY <2>4, <3>1, <3>2 DEF Raise, AfterRelease
  <2>7. QED
      BY <1>a, <1>e, <2>1, <2>2, <2>3, <2>5, <2>6 DEF ReportTypeOK
<1>6. CASE RecordRun
  <2>1. LeaseTypeOK' /\ RunTypeOK'
      BY <1>6, <1>a, TypeUnchanged DEF RecordRun
  <2>2. RobotTypeOK'
      BY <1>6, <1>a DEF RecordRun, RobotTypeOK, CommandTypeOK
  <2>3. \E step \in Pc \ {"prepare"} : GoTo(step)
      BY <1>6 DEF RecordRun, Pc
  <2>4. QED
      BY <1>6, <1>a, <1>e, <1>f, <2>1, <2>2, <2>3, TypeOvertake
         DEF RecordRun, ReportTypeOK
<1>7. CASE RecordMission
  <2>1. LeaseTypeOK' /\ RunTypeOK'
      BY <1>7, <1>a, TypeUnchanged DEF RecordMission
  <2>2. homeRunning' \in BOOLEAN /\ storedRunning' \in BOOLEAN
      BY <1>7 DEF RecordMission
  <2>3. RobotTypeOK'
      BY <1>7, <1>a, <2>2 DEF RecordMission, RobotTypeOK, CommandTypeOK
  <2>4. supervised' \in Missions \union {None}
      BY <1>7, <1>a DEF RecordMission, CommandTypeOK
  <2>5. QED
      BY <1>7, <1>a, <1>e, <1>f, <2>1, <2>3, <2>4, TypeOvertake DEF RecordMission
<1>8. CASE RecordStop
  <2>1. LeaseTypeOK' /\ RunTypeOK'
      BY <1>8, <1>a, TypeUnchanged DEF RecordStop
  <2>2. homeRunning' \in BOOLEAN
      BY <1>8 DEF RecordStop
  <2>3. RobotTypeOK'
      BY <1>8, <1>a, <2>2 DEF RecordStop, RobotTypeOK
  <2>4. QED
      BY <1>8, <1>a, <1>e, <1>f, <2>1, <2>3, TypeOvertake DEF RecordStop
<1>9. QED
    BY <1>1, <1>2, <1>3, <1>4, <1>5, <1>6, <1>7, <1>8 DEF CommandStep

\* So does entering any of the five calls.
LEMMA TypeEnter ==
    ASSUME TypeInv,
           \/ \E m \in Missions : InitiateMission(m) \/ InitiateReturnHome(m)
           \/ PauseResumeOrStop
    PROVE  TypeInv'
<1>a. /\ RobotTypeOK /\ CommandTypeOK /\ ReadTypeOK /\ ReportTypeOK
      /\ LeaseTypeOK /\ RunTypeOK /\ StreamTypeOK
      /\ overtaken \in BOOLEAN /\ lostRuns \subseteq Missions
    BY DEF TypeInv, TypeOK
<1>b. /\ LeaseTypeOK' /\ RunTypeOK' /\ ReadTypeOK' /\ ReportTypeOK'
      /\ mpc' = "clearHome" => valueRead' \in IsarTaskStatus
      /\ lostRuns' \subseteq Missions
  <2>1. UNCHANGED <<mpc, readVars, report, supervised, leaseVars, runVars, lostRuns>>
      BY DEF InitiateMission, InitiateReturnHome, PauseResumeOrStop
  <2>2. QED
      BY <1>a, <2>1, TypeUnchanged DEF TypeInv, readVars
<1>c. \/ UNCHANGED <<lastEvent, streamVars>>
      \/ lastEvent' = NoEvent /\ UNCHANGED streamVars
    BY DEF InitiateMission, InitiateReturnHome, PauseResumeOrStop
<1>d. StreamTypeOK'
    BY <1>a, <1>c, TypeUnchanged DEF StreamTypeOK, streamVars
<1>e. ASSUME NEW o \in {"initiate", "home", "pause", "resume", "stop"},
             NEW m \in Missions \union {None},
             NEW j \in {"none", "disengage", "start", "dock", "pause", "resume"},
             NEW step \in Pc, Enter(o, m, j, step),
             leaseId' = leaseId, requested' \subseteq Missions
      PROVE  CommandTypeOK'
  <2>1. failing' \in BOOLEAN
      BY <1>e DEF Enter
  <2>2. QED
      BY <1>a, <1>e, <2>1 DEF Enter, CommandTypeOK
<1>1. ASSUME NEW m \in Missions, InitiateMission(m) PROVE TypeInv'
  <2>1. homeRunning' \in BOOLEAN /\ storedRunning' \in BOOLEAN
      BY <1>1 DEF InitiateMission
  <2>2. RobotTypeOK'
      BY <1>1, <1>a, <2>1 DEF InitiateMission, RobotTypeOK
  <2>3. /\ FirstStep(m).job \in {"none", "disengage", "start"}
        /\ FirstStep(m).pc \in {"prepare", "lease"}
      BY DEF FirstStep
  <2>4. Enter("initiate", m, FirstStep(m).job, FirstStep(m).pc)
      BY <1>1 DEF InitiateMission
  <2>5. requested' \subseteq Missions /\ leaseId' = leaseId
      BY <1>1, <1>a DEF InitiateMission, CommandTypeOK
  <2>6. CommandTypeOK'
      BY <1>e, <2>3, <2>4, <2>5 DEF Pc
  <2>7. op' = "initiate" /\ arg' = m
      BY <2>4 DEF Enter
  <2>8. overtaken' \in BOOLEAN
      BY <1>1, TypeOvertake DEF InitiateMission
  <2>9. QED
      BY <1>b, <1>d, <2>2, <2>6, <2>7, <2>8 DEF TypeInv, TypeOK
<1>2. ASSUME NEW m \in Missions, InitiateReturnHome(m) PROVE TypeInv'
  <2>1. storedRunning' \in BOOLEAN
      BY <1>2 DEF InitiateReturnHome
  <2>2. RobotTypeOK'
      BY <1>2, <1>a, <2>1 DEF InitiateReturnHome, RobotTypeOK
  <2>3. Enter("home", m, "dock", "lease")
      BY <1>2 DEF InitiateReturnHome
  <2>4. requested' \subseteq Missions /\ leaseId' = leaseId
      BY <1>2, <1>a DEF InitiateReturnHome, CommandTypeOK
  <2>5. CommandTypeOK'
      BY <1>e, <2>3, <2>4 DEF Pc
  <2>6. op' = "home" /\ arg' = m /\ job' = "dock" /\ pc' = "lease"
      BY <2>3 DEF Enter
  <2>7. overtaken' \in BOOLEAN
      BY <1>2, TypeOvertake DEF InitiateReturnHome
  <2>8. QED
      BY <1>b, <1>d, <2>2, <2>5, <2>6, <2>7 DEF TypeInv, TypeOK
<1>3. CASE PauseResumeOrStop
  <2>1. RobotTypeOK' /\ overtaken' \in BOOLEAN
      BY <1>3, <1>a, TypeUnchanged DEF PauseResumeOrStop
  <2>2. PICK o \in {"pause", "resume", "stop"}, j \in {"pause", "resume"} :
            Enter(o, None, j, "lease")
      BY <1>3 DEF PauseResumeOrStop
  <2>3. CommandTypeOK'
      BY <1>3, <1>a, <1>e, <2>2 DEF PauseResumeOrStop, Pc, CommandTypeOK
  <2>4. op' = o /\ job' = j /\ pc' = "lease"
      BY <2>2 DEF Enter
  <2>5. QED
      BY <1>b, <1>d, <2>1, <2>3, <2>4 DEF TypeInv, TypeOK
<1>4. QED
    BY <1>1, <1>2, <1>3

\* So does everything the robot, its operator and the event stream do.
LEMMA TypeEnvironment ==
    ASSUME TypeInv,
           \/ RunEnds \/ \E r \in Foreign : OperatorStartsRun(r)
           \/ Publish \/ StreamBreaks \/ Subscribe \/ UpdateMissionEvent
    PROVE  TypeInv'
<1>a. /\ RobotTypeOK /\ CommandTypeOK /\ ReadTypeOK /\ ReportTypeOK
      /\ LeaseTypeOK /\ RunTypeOK /\ StreamTypeOK
      /\ overtaken \in BOOLEAN /\ lostRuns \subseteq Missions
    BY DEF TypeInv, TypeOK
<1>b. PluginIdle /\ UNCHANGED leaseVars
    BY DEF RunEnds, OperatorStartsRun, Publish, StreamBreaks, Subscribe,
       UpdateMissionEvent
<1>c. /\ RobotTypeOK' /\ CommandTypeOK' /\ ReadTypeOK' /\ ReportTypeOK'
      /\ LeaseTypeOK' /\ lostRuns' \subseteq Missions
    BY <1>a, <1>b, TypeUnchanged DEF PluginIdle
<1>d. ASSUME RunTypeOK', StreamTypeOK', overtaken' \in BOOLEAN PROVE TypeInv'
    BY <1>b, <1>c, <1>d DEF TypeInv, TypeOK, PluginIdle, commandVars, readVars
<1>1. CASE RunEnds
  <2>1. RunTypeOK'
      BY <1>1, <1>a DEF RunEnds, RunTypeOK, EndedPhase, Phase
  <2>2. QED
      BY <1>1, <1>a, <1>d, <2>1, TypeUnchanged DEF RunEnds
<1>2. ASSUME NEW r \in Foreign, OperatorStartsRun(r) PROVE TypeInv'
  <2>1. RunTypeOK'
      BY <1>2, <1>a DEF OperatorStartsRun, RobotStarts, RunTypeOK, Phase, Runs
  <2>2. QED
      BY <1>2, <1>a, <1>d, <2>1, TypeUnchanged DEF OperatorStartsRun
<1>3. CASE Publish
  <2>1. [run |-> newest, phase |-> phase[newest]] \in Event
      BY <1>3, <1>a DEF Publish, RunTypeOK, Event
  <2>2. latest' \in Event /\ inFlight' \in Seq(Event)
      BY <1>3, <1>a, <2>1 DEF Publish, StreamTypeOK
  <2>3. StreamTypeOK'
      BY <1>3, <1>a, <2>2 DEF Publish, StreamTypeOK
  <2>4. QED
      BY <1>3, <1>a, <1>d, <2>3, TypeUnchanged DEF Publish
<1>4. CASE StreamBreaks \/ Subscribe
  <2>1. connected' \in BOOLEAN
      BY <1>4 DEF StreamBreaks, Subscribe
  <2>2. inFlight' \in Seq(Event)
    <3>1. <<>> \in Seq(Event) /\ \A e \in Event : <<e>> \in Seq(Event)
        OBVIOUS
    <3>2. inFlight' = <<>> \/ (latest \in Event /\ inFlight' = <<latest>>)
        BY <1>4, <1>a DEF StreamBreaks, Subscribe, StreamTypeOK
    <3>3. QED
        BY <3>1, <3>2
  <2>3. StreamTypeOK'
      BY <1>4, <1>a, <2>1, <2>2 DEF StreamBreaks, Subscribe, StreamTypeOK
  <2>4. QED
      BY <1>4, <1>a, <1>d, <2>3, TypeUnchanged DEF StreamBreaks, Subscribe
<1>5. CASE UpdateMissionEvent
  <2>1. lastEvent' \in Event /\ inFlight' \in Seq(Event)
      BY <1>5, <1>a DEF UpdateMissionEvent, StreamTypeOK
  <2>2. StreamTypeOK'
      BY <1>5, <1>a, <2>1 DEF UpdateMissionEvent, StreamTypeOK
  <2>3. QED
      BY <1>5, <1>a, <1>d, <2>2, TypeUnchanged, TypeOvertake DEF UpdateMissionEvent
<1>6. QED
    BY <1>1, <1>2, <1>3, <1>4, <1>5

\* A status call of the monitor thread ends with a value ISAR knows.
LEMMA TypeAnswer ==
    ASSUME TypeInv, NEW value \in Answers, Answer(value)
    PROVE  /\ ReadTypeOK' /\ ReportTypeOK'
           /\ mpc' = "idle" /\ overtaken' \in BOOLEAN
<1>a. ReadTypeOK /\ ReportTypeOK /\ overtaken \in BOOLEAN
    BY DEF TypeInv, TypeOK
<1>1. storedRead' \in BOOLEAN /\ homeRead' \in BOOLEAN /\ overtaken' \in BOOLEAN
    BY DEF Answer
<1>2. ReadTypeOK'
    BY <1>a, <1>1 DEF Answer, ReadTypeOK, Mpc
<1>3. report' \in [kind: {"mission", "task"}, mission: Missions \union {None},
                   value: Answers, overtaken: BOOLEAN]
    BY <1>a DEF Answer, ReadTypeOK
<1>4. supervised' \in Missions \union {None}
    BY <1>a DEF Answer, ReportTypeOK
<1>5. QED
    BY <1>1, <1>2, <1>3, <1>4 DEF Answer, ReportTypeOK

\* A mission status that was computed is answered as a legal report.
LEMMA TypeMissionAnswer ==
    ASSUME NEW status \in IsarMissionStatus \union {MissionStatusError},
           MissionAnswer(status)
    PROVE  \E value \in Answers : Answer(value)
<1>1. Raised \in Answers
    BY DEF Answers
<1>2. status # MissionStatusError => ReportedStatus(status, storedRead) \in Answers
    BY DEF ReportedStatus, Answers, IsarMissionStatus, IsarTaskStatus
<1>3. CASE status = MissionStatusError
    BY <1>1, <1>3 DEF MissionAnswer
<1>4. CASE status # MissionStatusError
    BY <1>2, <1>4 DEF MissionAnswer
<1>5. QED
    BY <1>3, <1>4

\* Every read of the monitor thread keeps the types, one case per read.
LEMMA TypeMonitor ==
    ASSUME TypeInv, PollMission \/ PollTask \/ MonitorStep
    PROVE  TypeInv'
<1>a. /\ RobotTypeOK /\ CommandTypeOK /\ ReadTypeOK /\ ReportTypeOK
      /\ LeaseTypeOK /\ RunTypeOK /\ StreamTypeOK
      /\ overtaken \in BOOLEAN /\ lostRuns \subseteq Missions
    BY DEF TypeInv, TypeOK
<1>b. MonitorOnly /\ UNCHANGED lastEvent
    BY DEF PollMission, PollTask, Poll, MonitorStep, CheckMission, CheckEvent,
       ReadStoredFlag, ReadStatus, ReadSummaries, ReadOutcome, ReadHomeFlag,
       ReadTask, ClearHomeFlag
<1>c. /\ CommandTypeOK' /\ LeaseTypeOK' /\ RunTypeOK' /\ StreamTypeOK'
      /\ lostRuns' \subseteq Missions
    BY <1>a, <1>b, TypeUnchanged DEF MonitorOnly
<1>d. ASSUME RobotTypeOK', ReadTypeOK', ReportTypeOK', overtaken' \in BOOLEAN,
             mpc' = "clearHome" => valueRead' \in IsarTaskStatus
      PROVE  TypeInv'
    BY <1>b, <1>c, <1>d DEF TypeInv, TypeOK, MonitorOnly, commandVars
\* A read that is not the last of its call.
<1>e. ASSUME NEW step \in Mpc, Proceed(step), UNCHANGED robotVars,
             storedRead' \in BOOLEAN, homeRead' \in BOOLEAN,
             statusRead' \in {"none", "MS_COMPLETED"},
             valueRead' \in IsarTaskStatus \union {"none"},
             step = "clearHome" => valueRead' \in IsarTaskStatus
      PROVE  TypeInv'
  <2>1. ReadTypeOK'
      BY <1>a, <1>e DEF Proceed, ReadTypeOK
  <2>2. ReportTypeOK' /\ overtaken' \in BOOLEAN
      BY <1>a, <1>e DEF Proceed, ReportTypeOK
  <2>3. QED
      BY <1>a, <1>d, <1>e, <2>1, <2>2, TypeUnchanged DEF Proceed
\* The last read of a call.
<1>f. ASSUME NEW value \in Answers, Answer(value), UNCHANGED robotVars
      PROVE  TypeInv'
    BY <1>a, <1>d, <1>f, TypeAnswer, TypeUnchanged
<1>g. Raised \in Answers /\ {"NotStarted", "InProgress"} \subseteq Answers
    BY DEF Answers, IsarMissionStatus, IsarTaskStatus
<1>h. /\ storedRead \in BOOLEAN /\ homeRead \in BOOLEAN
      /\ statusRead \in {"none", "MS_COMPLETED"}
      /\ valueRead \in IsarTaskStatus \union {"none"}
    BY <1>a DEF ReadTypeOK
<1>1. CASE PollMission \/ PollTask
  <2>1. PICK k \in {"mission", "task"}, step \in {"checkMission", "checkEvent"} :
            Poll(k, step)
      BY <1>1 DEF PollMission, PollTask
  <2>2. ReadTypeOK'
      BY <1>a, <2>1 DEF Poll, ReadTypeOK, ReportTypeOK, Mpc
  <2>3. ReportTypeOK'
      BY <1>a, <2>1, NoReportType DEF Poll, ReportTypeOK
  <2>4. overtaken' \in BOOLEAN
      BY <2>1 DEF Poll
  <2>5. RobotTypeOK' /\ mpc' # "clearHome"
      BY <1>a, <2>1, TypeUnchanged DEF Poll
  <2>6. QED
      BY <1>d, <2>2, <2>3, <2>4, <2>5
<1>2. CASE CheckMission
    BY <1>2, <1>e, <1>f, <1>g, <1>h DEF CheckMission, Mpc
<1>3. CASE CheckEvent
    BY <1>3, <1>e, <1>f, <1>g, <1>h DEF CheckEvent, Mpc
<1>4. CASE ReadStoredFlag
  <2>1. storedRead' \in BOOLEAN
      BY <1>4, <1>a DEF ReadStoredFlag, RobotTypeOK
  <2>2. QED
      BY <1>4, <1>e, <1>h, <2>1 DEF ReadStoredFlag, Mpc
<1>5. CASE ReadStatus
  <2>1. CASE lastEvent = NoEvent
      BY <1>5, <2>1, <1>f, <1>g DEF ReadStatus
  <2>2. CASE lastEvent # NoEvent /\ Body(lastEvent).status = "MS_COMPLETED"
      BY <1>5, <2>2, <1>e, <1>h DEF ReadStatus, Mpc
  <2>3. CASE lastEvent # NoEvent /\ Body(lastEvent).status # "MS_COMPLETED"
    <3>1. Body(lastEvent).status \in {"MS_RUNNING", "MS_PAUSED"}
        BY <2>3 DEF Body
    <3>2. StatusOfEvent(Body(lastEvent), storedRead) \in {"InProgress", "Paused"}
        BY <3>1 DEF StatusOfEvent, MissionStatusFrom, ReportedStatus
    <3>3. StatusOfEvent(Body(lastEvent), storedRead) \in Answers
        BY <3>2 DEF Answers, IsarMissionStatus, IsarTaskStatus
    <3>4. QED
        BY <1>5, <1>f, <2>3, <3>3 DEF ReadStatus
  <2>4. QED
      BY <2>1, <2>2, <2>3
<1>6. CASE ReadSummaries
  <2>1. ASSUME MissionAnswer(MissionStatusFrom(statusRead,
                   Body(lastEvent).summaries, "OC_NA", storedRead))
        PROVE  \E value \in Answers : Answer(value)
      BY <2>1, MissionStatusType, TypeMissionAnswer
  <2>2. \/ \E value \in Answers : Answer(value)
        \/ /\ Proceed("readOutcome")
           /\ UNCHANGED <<storedRead, homeRead, statusRead, valueRead>>
      BY <1>6, <1>g, <2>1 DEF ReadSummaries
  <2>3. QED
      BY <1>6, <1>e, <1>f, <1>h, <2>2 DEF ReadSummaries, Mpc
<1>7. CASE ReadOutcome
  <2>1. ASSUME MissionAnswer(StoredVerdict(statusRead, Body(lastEvent).outcome))
        PROVE  \E value \in Answers : Answer(value)
      BY <2>1, StoredVerdictType, TypeMissionAnswer
  <2>2. QED
      BY <1>7, <1>f, <1>g, <2>1 DEF ReadOutcome
<1>8. CASE ReadHomeFlag
  <2>1. homeRead' \in BOOLEAN
      BY <1>8, <1>a DEF ReadHomeFlag, RobotTypeOK
  <2>2. QED
      BY <1>8, <1>e, <1>h, <2>1 DEF ReadHomeFlag, Mpc
<1>9. CASE ReadTask
  <2>1. DEFINE value == TaskStatusIn(Body(lastEvent).summaries,
                                    IF homeRead THEN Dock ELSE IsarTask)
  <2>2. \/ Answer(Raised)
        \/ value \in {"NotStarted", "InProgress"} /\ Answer(value)
        \/ /\ value \in {"Paused", "Successful", "Failed"}
           /\ valueRead' = value /\ Proceed("clearHome")
           /\ UNCHANGED <<storedRead, homeRead, statusRead>>
      BY <1>9 DEF ReadTask
  <2>3. {"Paused", "Successful", "Failed"} \subseteq IsarTaskStatus
      BY DEF IsarTaskStatus
  <2> HIDE DEF value
  <2>4. CASE \E v \in Answers : Answer(v)
      BY <1>9, <1>f, <2>4 DEF ReadTask
  <2>5. CASE /\ value \in {"Paused", "Successful", "Failed"}
             /\ valueRead' = value /\ Proceed("clearHome")
             /\ UNCHANGED <<storedRead, homeRead, statusRead>>
      BY <1>9, <1>e, <1>h, <2>3, <2>5 DEF ReadTask, Mpc
  <2>6. QED
      BY <1>g, <2>2, <2>4, <2>5
<1>10. CASE ClearHomeFlag
  <2>1. valueRead \in Answers
      BY <1>10 DEF ClearHomeFlag, TypeInv, Answers, IsarMissionStatus
  <2>2. homeRunning' \in BOOLEAN
      BY <1>10 DEF ClearHomeFlag
  <2>3. RobotTypeOK'
      BY <1>10, <1>a, <2>2 DEF ClearHomeFlag, RobotTypeOK
  <2>4. QED
      BY <1>10, <1>d, <2>1, <2>3, TypeAnswer DEF ClearHomeFlag
<1>11. QED
    BY <1>1, <1>2, <1>3, <1>4, <1>5, <1>6, <1>7, <1>8, <1>9, <1>10 DEF MonitorStep

\* No step of Next breaks the types.
LEMMA TypeStep == TypeInv /\ [Next]_vars => TypeInv'
<1> SUFFICES ASSUME TypeInv, [Next]_vars PROVE TypeInv'
    OBVIOUS
<1>1. CASE UNCHANGED vars
  <2>1. /\ UNCHANGED robotVars /\ UNCHANGED commandVars
        /\ UNCHANGED <<mpc, readVars>> /\ UNCHANGED <<report, supervised>>
        /\ UNCHANGED leaseVars /\ UNCHANGED runVars
        /\ UNCHANGED <<lastEvent, streamVars>> /\ UNCHANGED <<overtaken, lostRuns>>
      BY <1>1 DEF vars
  <2>2. QED
      BY <2>1, TypeUnchanged DEF TypeInv, TypeOK, commandVars, readVars
<1>2. CASE Next
    BY <1>2, TypeEnter, TypeCommand, TypeMonitor, TypeEnvironment DEF Next
<1>3. QED
    BY <1>1, <1>2

\* Every variable keeps the type the code gives it, whatever the interleaving of
\* the three threads and the robot; in particular an exception of the status
\* mapping never escapes as a status.
THEOREM TypeCorrect == Spec => []TypeOK
<1>1. TypeInv => TypeOK
    BY DEF TypeInv
<1>2. QED
    BY TypeInit, TypeStep, <1>1, PTL DEF Spec

-----------------------------------------------------------------------------
(* The bookkeeping, the supervision and the honesty of the answers: one     *)
(* inductive invariant, whose parts lean on each other.                     *)

StartOps == {"initiate", "home"}

\* No other client starts runs, and ISAR waits for a poll before it starts.
Undisturbed == Foreign = {} /\ ~MonitorOverlapsStart

\* The run was started and answered, and is not supervised yet.
Settling ==
    /\ op \in StartOps
    /\ \/ pc \in {"recordRun", "recordMission"}
       \/ pc = "release" /\ Starting /\ ~failing

\* What the position of the command thread says about its call.
CallInv ==
    /\ (op = "none") <=> (pc = "idle")
    /\ failing => pc = "release"
    /\ op \in StartOps => supervised = None /\ ~storedRunning
    /\ op \in StartOps => arg \in requested
    /\ op = "initiate" => arg \in Planned \union Stored
    /\ op = "home" => arg \in Home
    /\ job \in {"pause", "resume"} => op \in {"pause", "resume", "stop"}
    /\ op = "stop" => job = "pause"
    /\ pc \in {"recordRun", "recordMission"} => op \in StartOps
    /\ pc = "recordMission" => currentAnymal = arg
    /\ pc = "recordStop" => op = "stop"
    /\ op \in {"pause", "resume", "stop"} => currentAnymal \in Missions

\* BookkeepingMatches, during the calls that act on the mission as well.
BookInv ==
    op \notin StartOps /\ supervised # None =>
        /\ currentIsar = supervised /\ currentAnymal = supervised
        /\ storedRunning = (supervised \in Stored)
        /\ supervised \in inspections <=> supervised \in Planned
        /\ supervised \in requested

Monitoring == PollMission \/ PollTask \/ MonitorStep

\* Neither a poll nor the environment touches the call of the command thread or
\* its bookkeeping; a poll may end the supervision and drop the home flag.
LEMMA MonitorFrame ==
    ASSUME Monitoring
    PROVE  /\ UNCHANGED <<currentAnymal, currentIsar, storedRunning, inspections>>
           /\ UNCHANGED <<op, arg, job, pc, failing, requested, lastEvent>>
           /\ UNCHANGED <<newest, phase, latest, connected, inFlight, lostRuns>>
           /\ supervised' \in {supervised, None}
           /\ homeRunning' \in {homeRunning, FALSE}
<1>1. /\ UNCHANGED <<currentAnymal, currentIsar, storedRunning, inspections, lastEvent>>
      /\ homeRunning' \in {homeRunning, FALSE}
      /\ MonitorOnly
    BY DEF Monitoring, PollMission, PollTask, Poll, MonitorStep, CheckMission, CheckEvent,
       ReadStoredFlag, ReadStatus, ReadSummaries, ReadOutcome, ReadHomeFlag,
       ReadTask, ClearHomeFlag, robotVars
<1>2. supervised' \in {supervised, None}
    BY DEF Monitoring, PollMission, PollTask, Poll, MonitorStep, CheckMission, CheckEvent,
       ReadStoredFlag, ReadStatus, ReadSummaries, ReadOutcome, ReadHomeFlag,
       ReadTask, ClearHomeFlag, Answer, MissionAnswer, Proceed
<1>3. QED
    BY <1>1, <1>2 DEF MonitorOnly, commandVars, runVars, streamVars

Environment ==
    \/ RunEnds \/ \E r \in Foreign : OperatorStartsRun(r)
    \/ Publish \/ StreamBreaks \/ Subscribe \/ UpdateMissionEvent

\* The robot and its stream change nothing the plugin keeps but the last event.
LEMMA EnvironmentFrame ==
    ASSUME Environment
    PROVE  /\ UNCHANGED <<currentAnymal, currentIsar, homeRunning, storedRunning,
                         inspections>>
           /\ UNCHANGED <<op, arg, job, pc, failing, requested>>
           /\ UNCHANGED <<mpc, kind, subject, storedRead, homeRead, statusRead, valueRead>>
           /\ UNCHANGED <<report, supervised, lostRuns>>
           /\ \/ overtaken' = overtaken
              \/ UpdateMissionEvent /\ overtaken' = (overtaken \/ mpc # "idle")
<1>1. PluginIdle
    BY DEF Environment, RunEnds, OperatorStartsRun, Publish, StreamBreaks, Subscribe,
       UpdateMissionEvent
<1>2. \/ overtaken' = overtaken
      \/ UpdateMissionEvent /\ overtaken' = (overtaken \/ mpc # "idle")
    BY DEF Environment, RunEnds, OperatorStartsRun, Publish, StreamBreaks, Subscribe,
       UpdateMissionEvent, Overtake
<1>3. QED
    BY <1>1, <1>2 DEF PluginIdle, robotVars, commandVars, readVars

\* A step that does nothing.
LEMMA StutterFrame ==
    ASSUME UNCHANGED vars
    PROVE  /\ UNCHANGED <<currentAnymal, currentIsar, homeRunning, storedRunning,
                         inspections>>
           /\ UNCHANGED <<op, arg, job, pc, failing, requested>>
           /\ UNCHANGED <<mpc, kind, subject, storedRead, homeRead, statusRead, valueRead>>
           /\ UNCHANGED <<report, supervised, lostRuns, overtaken, lastEvent>>
           /\ UNCHANGED <<newest, phase, latest, connected, inFlight>>
BY DEF vars, robotVars, commandVars, readVars, runVars, streamVars

\* Every position a call can be in follows from the one before.
LEMMA CallStep ==
    ASSUME TypeInv, CallInv, BookInv, [Next]_vars
    PROVE  CallInv'
<1> USE DEF CallInv, StartOps
<1>a. /\ op \in {"none", "initiate", "home", "pause", "resume", "stop"}
      /\ pc \in Pc /\ supervised \in Missions \union {None}
      /\ storedRunning \in BOOLEAN
      /\ job \in {"start", "dock"} => op \in StartOps
      /\ pc = "prepare" \/ job = "disengage" => op = "initiate"
    BY DEF TypeInv, TypeOK, CommandTypeOK, ReportTypeOK, RobotTypeOK
<1>1. ASSUME NEW m \in Missions, InitiateMission(m) PROVE CallInv'
    BY <1>1, MissionsAssumption DEF InitiateMission, Enter, MayStart, FirstStep
<1>2. ASSUME NEW m \in Missions, InitiateReturnHome(m) PROVE CallInv'
    BY <1>2, MissionsAssumption DEF InitiateReturnHome, Enter, MayStart
<1>3. CASE PauseResumeOrStop
    BY <1>3, <1>a DEF PauseResumeOrStop, Enter, BookInv, robotVars
<1>4. CASE CommandStep
  <2> USE <1>a DEF GoTo, FailInTry, Raise, Leave, robotVars
  <2>1. CASE PrepareMissionPlan
      BY <2>1 DEF PrepareMissionPlan
  <2>2. CASE TakeControl
      BY <2>2 DEF TakeControl
  <2>3. CASE SetUserInteractionMode
      BY <2>3 DEF SetUserInteractionMode
  <2>4. CASE RequestAnswered
      BY <2>4 DEF RequestAnswered
  <2>5. CASE RequestAnswerLost
      BY <2>5 DEF RequestAnswerLost
  <2>6. CASE RequestNotDone
      BY <2>6 DEF RequestNotDone
  <2>7. CASE ReleaseControl
      BY <2>7 DEF ReleaseControl, AfterRelease, Starting
  <2>8. CASE RecordRun
      BY <2>8 DEF RecordRun
  <2>9. CASE RecordMission
      BY <2>9 DEF RecordMission
  <2>10. CASE RecordStop
      BY <2>10 DEF RecordStop
  <2>11. QED
      BY <1>4, <2>1, <2>2, <2>3, <2>4, <2>5, <2>6, <2>7, <2>8, <2>9, <2>10
         DEF CommandStep
<1>5. CASE Monitoring
    BY <1>5, MonitorFrame
<1>6. CASE Environment
    BY <1>6, EnvironmentFrame
<1>7. CASE UNCHANGED vars
    BY <1>7, StutterFrame
<1>8. QED
    BY <1>1, <1>2, <1>3, <1>4, <1>5, <1>6, <1>7 DEF Next, Monitoring, Environment

\* The bookkeeping is about the supervised mission: the start that returns it to
\* supervision has just written it, and nothing else writes it while it lasts.
LEMMA BookStep ==
    ASSUME TypeInv, CallInv, BookInv, [Next]_vars
    PROVE  BookInv'
<1> USE DEF BookInv, StartOps
<1>a. /\ op \in {"none", "initiate", "home", "pause", "resume", "stop"}
      /\ arg \in Missions \union {None}
      /\ pc \in Pc /\ supervised \in Missions \union {None}
      /\ inspections \subseteq Planned
      /\ op \in StartOps => supervised = None
    BY DEF TypeInv, TypeOK, CommandTypeOK, ReportTypeOK, RobotTypeOK, CallInv
<1>1. ASSUME NEW m \in Missions, InitiateMission(m) \/ InitiateReturnHome(m)
      PROVE  BookInv'
    BY <1>1 DEF InitiateMission, InitiateReturnHome, Enter
<1>2. CASE PauseResumeOrStop
    BY <1>2, <1>a DEF PauseResumeOrStop, Enter, robotVars, CallInv
<1>3. CASE CommandStep
  <2> USE <1>a DEF GoTo, FailInTry, Raise, Leave, robotVars
  <2>1. CASE PrepareMissionPlan
      BY <2>1 DEF PrepareMissionPlan
  <2>2. CASE TakeControl
      BY <2>2 DEF TakeControl
  <2>3. CASE SetUserInteractionMode \/ RequestAnswered \/ RequestAnswerLost
             \/ RequestNotDone
      BY <2>3 DEF SetUserInteractionMode, RequestAnswered, RequestAnswerLost,
         RequestNotDone
  <2>4. CASE ReleaseControl
      BY <2>4 DEF ReleaseControl, AfterRelease
  <2>5. CASE RecordRun
      BY <2>5 DEF RecordRun, CallInv
  <2>6. CASE RecordMission
    <3>1. /\ op \in StartOps /\ currentAnymal = arg /\ arg \in requested
          /\ storedRunning = FALSE
        BY <2>6, <1>a DEF RecordMission, CallInv, TypeInv, TypeOK, RobotTypeOK
    <3>2. /\ supervised' = arg /\ currentIsar' = arg /\ currentAnymal' = arg
          /\ arg \in requested'
        BY <2>6, <3>1 DEF RecordMission
    <3>3. storedRunning' = (arg \in Stored)
        BY <2>6, <3>1 DEF RecordMission
    <3>4. (arg \in inspections') <=> (arg \in Planned)
        BY <2>6, <1>a DEF RecordMission
    <3>5. QED
        BY <3>2, <3>3, <3>4
  <2>7. CASE RecordStop
      BY <2>7 DEF RecordStop
  <2>8. QED
      BY <1>3, <2>1, <2>2, <2>3, <2>4, <2>5, <2>6, <2>7 DEF CommandStep
<1>4. CASE Monitoring
    BY <1>4, MonitorFrame
<1>5. CASE Environment
    BY <1>5, EnvironmentFrame
<1>6. CASE UNCHANGED vars
    BY <1>6, StutterFrame
<1>7. QED
    BY <1>1, <1>2, <1>3, <1>4, <1>5, <1>6 DEF Next, Monitoring, Environment

\* With the runs in phases ph, the run of event e was in that phase once.
Told(ph, e) ==
    /\ e \in Event \union {NoEvent}
    /\ e # NoEvent => e.phase \in Passed(ph[e.run])

\* f was published after e, and n is the newest run: f is about n if e is, and an
\* end is not taken back.
Later(n, e, f) ==
    n # None /\ e.run = n =>
        f.run = n /\ (e.phase \in EndedPhase => f.phase = e.phase)

\* The events are in the order the robot published them, wherever they are.
EventInv ==
    /\ newest # None => phase[newest] \in {"running", "paused"} \union EndedPhase
    /\ newest = None => latest = NoEvent
    /\ Told(phase, lastEvent) /\ Told(phase, latest)
    /\ \A i \in DOMAIN inFlight : Told(phase, inFlight[i])
    /\ Later(newest, lastEvent, latest)
    /\ \A i \in DOMAIN inFlight :
           Later(newest, lastEvent, inFlight[i]) /\ Later(newest, inFlight[i], latest)
    /\ \A i, j \in DOMAIN inFlight : i < j => Later(newest, inFlight[i], inFlight[j])

\* The ways a run that the robot already has can move.
Turns == {<<"running", "paused">>, <<"paused", "running">>,
          <<"running", "success">>, <<"running", "failure">>}

RunMoves ==
    \/ UNCHANGED runVars
    \/ \E r \in Runs :
           /\ RobotStarts(r)
           /\ r \in Foreign \/ (r = arg /\ pc = "request" /\ Starting)
    \/ \E t \in Turns :
           /\ newest # None /\ phase[newest] = t[1]
           /\ phase' = [phase EXCEPT ![newest] = t[2]]
           /\ newest' = newest

\* Every step moves the runs in one of these ways.
LEMMA RunStep ==
    ASSUME TypeInv, [Next]_vars
    PROVE  RunMoves
<1>a. job \in {"start", "dock"} => arg \in Runs
    BY DEF TypeInv, Runs
<1>1. CASE CarryOut /\ pc = "request"
    BY <1>1, <1>a DEF CarryOut, RunMoves, Turns, RobotTurns, Starting
<1>2. CASE RunEnds
    BY <1>2 DEF RunEnds, RunMoves, Turns, EndedPhase
<1>3. ASSUME NEW r \in Foreign, OperatorStartsRun(r) PROVE RunMoves
    BY <1>3 DEF OperatorStartsRun, RunMoves, Runs
<1>4. CASE UNCHANGED runVars
    BY <1>4 DEF RunMoves
<1>5. CASE CommandStep
    BY <1>1, <1>4, <1>5 DEF CommandStep, PrepareMissionPlan, TakeControl,
       SetUserInteractionMode, RequestAnswered, RequestAnswerLost, RequestNotDone,
       ReleaseControl, RecordRun, RecordMission, RecordStop
<1>6. CASE Monitoring
    BY <1>4, <1>6, MonitorFrame DEF runVars
<1>7. CASE UNCHANGED vars
    BY <1>4, <1>7, StutterFrame DEF runVars
<1>8. CASE \/ \E m \in Missions : InitiateMission(m) \/ InitiateReturnHome(m)
           \/ PauseResumeOrStop
           \/ Publish \/ StreamBreaks \/ Subscribe \/ UpdateMissionEvent
    BY <1>4, <1>8 DEF InitiateMission, InitiateReturnHome, PauseResumeOrStop,
       Publish, StreamBreaks, Subscribe, UpdateMissionEvent
<1>9. QED
    BY <1>2, <1>3, <1>5, <1>6, <1>7, <1>8 DEF Next, Monitoring

\* What a run has gone through by the time it is in a phase.
LEMMA PassedFacts ==
    /\ \A p, q \in Phase : p \in Passed(q) => p \in {"running", "paused"} \union EndedPhase
    /\ \A p, q \in Phase : p \in Passed(q) /\ p \in EndedPhase => q = p
    /\ \A q \in {"running", "paused"} \union EndedPhase : q \in Passed(q)
    /\ Passed("unstarted") = {}
    /\ \A q \in Phase : Passed(q) \subseteq Phase
BY DEF Passed, Phase, EndedPhase

\* The past of a run only grows, and a new run is one that has not run before.
LEMMA PastGrows ==
    ASSUME RunTypeOK, RunMoves
    PROVE  /\ \A r \in Runs : Passed(phase[r]) \subseteq Passed(phase'[r])
           /\ newest' # newest =>
                 /\ newest' \in Runs /\ phase[newest'] = "unstarted"
                 /\ newest' \in Foreign
                       \/ (newest' = arg /\ pc = "request" /\ Starting)
           /\ newest' # newest => phase'[newest'] = "running"
<1>a. newest \in Runs \union {None} /\ phase \in [Runs -> Phase]
    BY DEF RunTypeOK
<1>1. CASE UNCHANGED runVars
    BY <1>1 DEF runVars
<1>2. ASSUME NEW r \in Runs, RobotStarts(r),
             r \in Foreign \/ (r = arg /\ pc = "request" /\ Starting)
      PROVE  /\ \A q \in Runs : Passed(phase[q]) \subseteq Passed(phase'[q])
             /\ newest' = r /\ phase[newest'] = "unstarted" /\ phase'[newest'] = "running"
  <2>1. newest' = r /\ phase[r] = "unstarted" /\ phase'[r] = "running"
      BY <1>2 DEF RobotStarts
  <2>2. ASSUME NEW q \in Runs PROVE Passed(phase[q]) \subseteq Passed(phase'[q])
    <3>1. \/ phase'[q] = phase[q]
          \/ phase[q] = "unstarted"
          \/ phase[q] = "paused" /\ phase'[q] = "dropped"
        BY <1>2 DEF RobotStarts
    <3>2. QED
        BY <3>1 DEF Passed, EndedPhase
  <2>3. QED
      BY <2>1, <2>2
<1>3. ASSUME NEW t \in Turns, newest # None, phase[newest] = t[1],
             phase' = [phase EXCEPT ![newest] = t[2]], newest' = newest
      PROVE  \A r \in Runs : Passed(phase[r]) \subseteq Passed(phase'[r])
  <2>1. ASSUME NEW r \in Runs
        PROVE  phase'[r] = phase[r] \/ (phase[r] = t[1] /\ phase'[r] = t[2])
      BY <1>a, <1>3
  <2>2. Passed(t[1]) \subseteq Passed(t[2])
      BY <1>3 DEF Turns, Passed, EndedPhase
  <2>3. QED
      BY <2>1, <2>2
<1>4. QED
    BY <1>1, <1>2, <1>3 DEF RunMoves, runVars

\* What was told stays told, and the order of two events is kept: the run that
\* becomes the newest has had no event yet.
LEMMA OrderKept ==
    ASSUME RunTypeOK, RunMoves
    PROVE  /\ \A e : Told(phase, e) => Told(phase', e)
           /\ \A e, f : Told(phase, e) /\ Later(newest, e, f) => Later(newest', e, f)
<1>a. newest \in Runs \union {None} /\ None \notin Runs
    BY MissionsAssumption DEF RunTypeOK
<1>1. ASSUME NEW e, Told(phase, e) PROVE Told(phase', e)
  <2>1. CASE e = NoEvent
      BY <2>1 DEF Told
  <2>2. CASE e # NoEvent
    <3>1. e \in Event /\ e.run \in Runs /\ e.phase \in Passed(phase[e.run])
        BY <1>1, <2>2 DEF Told, Event
    <3>2. e.phase \in Passed(phase'[e.run])
        BY <3>1, PastGrows
    <3>3. QED
        BY <3>1, <3>2 DEF Told
  <2>3. QED
      BY <2>1, <2>2
<1>2. ASSUME NEW e, NEW f, Told(phase, e), Later(newest, e, f) PROVE Later(newest', e, f)
  <2>1. CASE newest' = newest
      BY <1>2, <2>1 DEF Later
  <2>2. CASE newest' # newest
    <3>1. newest' \in Runs /\ phase[newest'] = "unstarted"
        BY <2>2, PastGrows
    <3>2. ASSUME e.run = newest' PROVE FALSE
      <4>1. e # NoEvent
          BY <3>1, <3>2, <1>a DEF NoEvent
      <4>2. e.phase \in Passed("unstarted")
          BY <1>2, <3>1, <3>2, <4>1 DEF Told
      <4>3. QED
          BY <4>2, PassedFacts
    <3>3. QED
        BY <3>2 DEF Later
  <2>3. QED
      BY <2>1, <2>2
<1>3. QED
    BY <1>1, <1>2

\* Everything told so far is older than what the robot publishes now.
LEMMA PublishedLast ==
    ASSUME RunTypeOK, EventInv, newest # None, NEW x, Told(phase, x)
    PROVE  LET e == [run |-> newest, phase |-> phase[newest]]
           IN  Told(phase, e) /\ Later(newest, x, e)
<1> DEFINE e == [run |-> newest, phase |-> phase[newest]]
<1>1. newest \in Runs /\ phase[newest] \in Phase /\ None \notin Runs
    BY MissionsAssumption DEF RunTypeOK
<1>2. e \in Event /\ e.run = newest /\ e.phase = phase[newest]
    BY <1>1 DEF Event
<1>3. Told(phase, e)
    BY <1>2, PassedFacts DEF Told, EventInv
<1>4. ASSUME x.run = newest, x.phase \in EndedPhase PROVE phase[newest] = x.phase
  <2>1. x # NoEvent
      BY <1>1, <1>4 DEF NoEvent
  <2>2. x.phase \in Passed(phase[newest]) /\ x.phase \in Phase
      BY <1>4, <2>1 DEF Told, Event
  <2>3. QED
      BY <1>1, <1>4, <2>2, PassedFacts
<1>5. QED
    BY <1>2, <1>3, <1>4 DEF Later

\* Only the stream moves events.
LEMMA StreamFrame ==
    ASSUME [Next]_vars
    PROVE  \/ Publish \/ Subscribe \/ UpdateMissionEvent \/ StreamBreaks
           \/ UNCHANGED <<latest, inFlight>> /\ lastEvent' \in {lastEvent, NoEvent}
<1>1. ASSUME CommandStep PROVE UNCHANGED <<lastEvent, streamVars>>
    BY <1>1 DEF CommandStep, PrepareMissionPlan, TakeControl,
       SetUserInteractionMode, RequestAnswered, RequestAnswerLost, RequestNotDone,
       ReleaseControl, RecordRun, RecordMission, RecordStop
<1>2. ASSUME RunEnds \/ \E r \in Foreign : OperatorStartsRun(r)
      PROVE UNCHANGED <<lastEvent, streamVars>>
    BY <1>2 DEF RunEnds, OperatorStartsRun
<1>3. ASSUME NEW m \in Missions,
             InitiateMission(m) \/ InitiateReturnHome(m) \/ PauseResumeOrStop
      PROVE  UNCHANGED streamVars /\ lastEvent' \in {lastEvent, NoEvent}
    BY <1>3 DEF InitiateMission, InitiateReturnHome, PauseResumeOrStop
<1>4. ASSUME PauseResumeOrStop
      PROVE  UNCHANGED streamVars /\ lastEvent' \in {lastEvent, NoEvent}
    BY <1>4 DEF PauseResumeOrStop
<1>5. ASSUME Monitoring \/ UNCHANGED vars
      PROVE  UNCHANGED <<latest, inFlight, lastEvent>>
    BY <1>5, MonitorFrame, StutterFrame
<1>6. QED
    BY <1>1, <1>2, <1>3, <1>4, <1>5 DEF Next, Monitoring, streamVars

\* The events stay in order along the stream, across reconnects and replays.
LEMMA EventStep ==
    ASSUME TypeInv, EventInv, [Next]_vars
    PROVE  EventInv'
<1>a. RunTypeOK /\ RunMoves /\ StreamTypeOK
    BY RunStep DEF TypeInv, TypeOK
<1>b. /\ newest \in Runs \union {None} /\ phase \in [Runs -> Phase] /\ None \notin Runs
    BY <1>a, MissionsAssumption DEF RunTypeOK
<1>c. newest' # None => phase'[newest'] \in {"running", "paused"} \union EndedPhase
  <2>1. CASE newest' # newest
      BY <1>a, <2>1, PastGrows
  <2>2. CASE newest' = newest /\ newest # None
    <3>1. /\ phase[newest] \in Phase
          /\ phase[newest] \in {"running", "paused"} \union EndedPhase
        BY <1>b, <2>2 DEF EventInv
    <3>2. CASE UNCHANGED runVars
        BY <2>2, <3>1, <3>2 DEF runVars
    <3>3. ASSUME NEW r \in Runs, RobotStarts(r) PROVE FALSE
        BY <2>2, <3>1, <3>3 DEF RobotStarts, EndedPhase
    <3>4. ASSUME NEW t \in Turns, phase' = [phase EXCEPT ![newest] = t[2]]
          PROVE  phase'[newest'] \in {"running", "paused"} \union EndedPhase
        BY <1>b, <2>2, <3>4 DEF Turns, EndedPhase
    <3>5. QED
        BY <1>a, <3>2, <3>3, <3>4 DEF RunMoves
  <2>3. QED
      BY <2>1, <2>2
<1>d. /\ \A e : Told(phase, e) => Told(phase', e)
      /\ \A e, f : Told(phase, e) /\ Later(newest, e, f) => Later(newest', e, f)
    BY <1>a, OrderKept
<1>e. Told(phase', NoEvent) /\ \A f : Later(newest', NoEvent, f)
  <2>1. newest' \in Runs \union {None}
      BY <1>a, <1>b, PastGrows
  <2>2. QED
      BY <1>b, <2>1 DEF Told, Later, NoEvent
<1>f. newest' = None => newest = None
    BY <1>a, <1>b, PastGrows
<1>1. CASE UNCHANGED <<latest, inFlight>> /\ lastEvent' \in {lastEvent, NoEvent}
  <2>1. newest' = None => latest' = NoEvent
      BY <1>1, <1>f DEF EventInv
  <2>2. Told(phase', lastEvent') /\ Told(phase', latest')
      BY <1>1, <1>d, <1>e DEF EventInv
  <2>3. \A i \in DOMAIN inFlight' : Told(phase', inFlight'[i])
      BY <1>1, <1>d DEF EventInv
  <2>4. /\ Later(newest', lastEvent', latest')
        /\ \A i \in DOMAIN inFlight' : Later(newest', lastEvent', inFlight'[i])
      BY <1>1, <1>d, <1>e DEF EventInv
  <2>5. /\ \A i \in DOMAIN inFlight' : Later(newest', inFlight'[i], latest')
        /\ \A i, j \in DOMAIN inFlight' :
              i < j => Later(newest', inFlight'[i], inFlight'[j])
      BY <1>1, <1>d DEF EventInv
  <2>6. QED
      BY <1>c, <2>1, <2>2, <2>3, <2>4, <2>5 DEF EventInv
<1>2. CASE Publish
  <2> DEFINE e == [run |-> newest, phase |-> phase[newest]]
  <2>1. /\ newest # None /\ latest' = e
        /\ inFlight' = inFlight \/ inFlight' = Append(inFlight, e)
        /\ UNCHANGED <<newest, phase, lastEvent>>
      BY <1>2 DEF Publish, runVars
  <2>2. /\ Told(phase, e)
        /\ \A x : Told(phase, x) => Later(newest, x, e)
    <3>1. ASSUME NEW x, Told(phase, x) PROVE Told(phase, e) /\ Later(newest, x, e)
        BY <1>a, <2>1, <3>1, PublishedLast
    <3>2. QED
        BY <3>1 DEF EventInv
  <2> HIDE DEF e
  <2>3. \A i \in DOMAIN inFlight' :
            \/ i \in DOMAIN inFlight /\ inFlight'[i] = inFlight[i]
            \/ /\ inFlight'[i] = e
               /\ \A j \in DOMAIN inFlight' : j <= i
      BY <1>a, <2>1 DEF StreamTypeOK
  <2>4. Told(phase', lastEvent') /\ Told(phase', latest')
      BY <2>1, <2>2 DEF EventInv
  <2>5. \A i \in DOMAIN inFlight' : Told(phase', inFlight'[i])
      BY <2>1, <2>2, <2>3 DEF EventInv
  <2>6. /\ Later(newest', lastEvent', latest')
        /\ \A i \in DOMAIN inFlight' : Later(newest', lastEvent', inFlight'[i])
      BY <2>1, <2>2, <2>3 DEF EventInv
  <2>7. \A i \in DOMAIN inFlight' : Later(newest', inFlight'[i], latest')
      BY <2>1, <2>2, <2>5
  <2>8. ASSUME NEW i \in DOMAIN inFlight', NEW j \in DOMAIN inFlight', i < j
        PROVE  Later(newest', inFlight'[i], inFlight'[j])
    <3>1. i \in Nat /\ j \in Nat
        BY <1>a, <2>1 DEF StreamTypeOK
    <3>2. i \in DOMAIN inFlight /\ inFlight'[i] = inFlight[i]
        BY <2>3, <2>8, <3>1
    <3>3. CASE j \in DOMAIN inFlight /\ inFlight'[j] = inFlight[j]
        BY <2>1, <2>8, <3>2, <3>3 DEF EventInv
    <3>4. CASE inFlight'[j] = e
        BY <2>1, <2>2, <2>5, <3>4
    <3>5. QED
        BY <2>3, <3>3, <3>4
  <2>9. QED
      BY <1>c, <2>1, <2>4, <2>5, <2>6, <2>7, <2>8 DEF EventInv
<1>3. CASE Subscribe \/ StreamBreaks
  <2>1. /\ UNCHANGED <<newest, phase, lastEvent, latest>>
        /\ inFlight' = <<>> \/ inFlight' = <<latest>>
      BY <1>3 DEF Subscribe, StreamBreaks, runVars
  <2>2. \A i \in DOMAIN inFlight' : inFlight'[i] = latest
      BY <2>1
  <2>3. Later(newest, latest, latest)
      BY DEF Later
  <2>4. QED
      BY <1>c, <2>1, <2>2, <2>3 DEF EventInv
<1>4. CASE UpdateMissionEvent
  <2>1. /\ UNCHANGED <<newest, phase, latest>>
        /\ inFlight # <<>> /\ lastEvent' = Head(inFlight) /\ inFlight' = Tail(inFlight)
      BY <1>4 DEF UpdateMissionEvent, runVars, streamVars
  <2>2. /\ 1 \in DOMAIN inFlight /\ lastEvent' = inFlight[1]
        /\ \A i \in DOMAIN inFlight' :
              /\ i + 1 \in DOMAIN inFlight /\ inFlight'[i] = inFlight[i + 1]
              /\ i \in Nat /\ 1 < i + 1
      BY <1>a, <2>1 DEF StreamTypeOK
  <2>3. Told(phase', lastEvent') /\ Told(phase', latest')
      BY <2>1, <2>2 DEF EventInv
  <2>4. \A i \in DOMAIN inFlight' : Told(phase', inFlight'[i])
      BY <2>1, <2>2 DEF EventInv
  <2>5. /\ Later(newest', lastEvent', latest')
        /\ \A i \in DOMAIN inFlight' : Later(newest', lastEvent', inFlight'[i])
      BY <2>1, <2>2 DEF EventInv
  <2>6. \A i \in DOMAIN inFlight' : Later(newest', inFlight'[i], latest')
      BY <2>1, <2>2 DEF EventInv
  <2>7. \A i, j \in DOMAIN inFlight' :
            i < j => Later(newest', inFlight'[i], inFlight'[j])
    <3>1. \A i, j \in DOMAIN inFlight' : i < j => i + 1 < j + 1
        BY <2>2
    <3>2. QED
        BY <2>1, <2>2, <3>1 DEF EventInv
  <2>8. QED
      BY <1>c, <2>1, <2>3, <2>4, <2>5, <2>6, <2>7 DEF EventInv
<1>5. QED
    BY <1>1, <1>2, <1>3, <1>4, StreamFrame

-----------------------------------------------------------------------------
(* A status that was computed from one event is true of the run of that event. *)

\* The value ISAR gets for mission m is one its run has had.
HonestValue(k, m, value) ==
    \/ value \in {"NotStarted", Raised}
    \/ \E ph \in Passed(phase[m]) : value = TrueStatus(k, m, ph)

\* A mission status read from one event.
LEMMA MissionTruth ==
    ASSUME NEW e \in Event
    PROVE  StatusOfEvent(Body(e), e.run \in Stored) = TrueStatus("mission", e.run, e.phase)
<1>1. e = [run |-> e.run, phase |-> e.phase]
    BY DEF Event
<1>2. QED
    BY <1>1 DEF TrueStatus

\* The summaries the event of each kind of mission carries.
LEMMA BodySummaries ==
    ASSUME NEW e
    PROVE  /\ e.run \in Stored => Body(e).summaries = <<>>
           /\ e.run \in Home => Body(e).summaries = <<SummaryOf(Dock, e.phase)>>
           /\ e.run \in Planned =>
                 Body(e).summaries = <<SummaryOf(Undock, "success"),
                                       SummaryOf(IsarTask, e.phase)>>
<1>1. Body(e).summaries =
          CASE e.run \in Stored -> <<>>
            [] e.run \in Home   -> <<SummaryOf(Dock, e.phase)>>
            [] e.run \in Planned -> <<SummaryOf(Undock, "success"),
                                       SummaryOf(IsarTask, e.phase)>>
            [] OTHER -> <<SummaryOf(OperatorTask, e.phase)>>
    BY DEF Body
<1>2. CASE e.run \in Stored /\ e.run \notin Home /\ e.run \notin Planned
    BY <1>1, <1>2
<1>3. CASE e.run \in Home /\ e.run \notin Stored /\ e.run \notin Planned
    BY <1>1, <1>3
<1>4. CASE e.run \in Planned /\ e.run \notin Stored /\ e.run \notin Home
    BY <1>1, <1>4
<1>5. QED
    BY <1>2, <1>3, <1>4, MissionsAssumption

\* A task status read from one event: asking for the task of the other kind of
\* mission finds nothing, and a task that is found has the status of its run.
LEMMA TaskTruth ==
    ASSUME NEW e \in Event, e.run \in Missions, NEW docking \in BOOLEAN,
           TaskStatusIn(Body(e).summaries, IF docking THEN Dock ELSE IsarTask)
               # TaskStatusError
    PROVE  /\ TaskStatusIn(Body(e).summaries, IF docking THEN Dock ELSE IsarTask)
                  = TrueStatus("task", e.run, e.phase)
           /\ e.phase = "running" => TrueStatus("task", e.run, e.phase) = "InProgress"
<1>1. e = [run |-> e.run, phase |-> e.phase]
    BY DEF Event
<1> DEFINE summaries == Body(e).summaries
<1>2. TrueStatus("task", e.run, e.phase)
          = TaskStatusIn(summaries, IF e.run \in Home THEN Dock ELSE IsarTask)
    BY <1>1 DEF TrueStatus
<1>3. CASE e.run \in Stored
  <2>1. summaries = <<>>
      BY <1>3, BodySummaries
  <2>2. \A t : Matches(summaries, t) = {} /\ ~UndockFailed(summaries)
      BY <2>1 DEF Matches, UndockFailed
  <2>3. QED
      BY <2>2 DEF TaskStatusIn
<1>4. CASE e.run \in Home
  <2>1. e.run \notin Stored
      BY <1>4, MissionsAssumption
  <2>2. summaries = <<SummaryOf(Dock, e.phase)>>
      BY <1>4, BodySummaries
  <2>3. DOMAIN summaries = {1} /\ summaries[1].task = Dock
        /\ summaries[1].status = TaskInPhase(e.phase).status
      BY <2>2 DEF SummaryOf
  <2>4. ~UndockFailed(summaries) /\ Matches(summaries, IsarTask) = {}
        /\ Matches(summaries, Dock) = {1}
      BY <2>3 DEF UndockFailed, Matches, Undock, Dock, IsarTask
  <2>5. docking
      BY <2>4 DEF TaskStatusIn
  <2>6. LastMatch(summaries, Dock) = 1
      BY <2>4 DEF LastMatch
  <2>7. e.phase = "running" => TaskStatusIn(summaries, Dock) = "InProgress"
      BY <2>3, <2>4, <2>6 DEF TaskStatusIn, TaskInPhase, TaskStatusOf
  <2>8. QED
      BY <1>2, <1>4, <2>5, <2>7
<1>5. CASE e.run \in Planned
  <2>1. e.run \notin Stored /\ e.run \notin Home
      BY <1>5, MissionsAssumption
  <2>2. summaries = <<SummaryOf(Undock, "success"), SummaryOf(IsarTask, e.phase)>>
      BY <1>5, BodySummaries
  <2>3. /\ DOMAIN summaries = {1, 2} /\ summaries[1].task = Undock
        /\ summaries[2].task = IsarTask
        /\ summaries[1].outcome = "OC_SUCCESS"
        /\ summaries[2].status = TaskInPhase(e.phase).status
      BY <2>2 DEF SummaryOf, TaskInPhase
  <2>4. ~UndockFailed(summaries) /\ Matches(summaries, Dock) = {}
        /\ Matches(summaries, IsarTask) = {2}
      BY <2>3 DEF UndockFailed, Matches, Undock, Dock, IsarTask
  <2>5. ~docking
      BY <2>4 DEF TaskStatusIn
  <2>6. LastMatch(summaries, IsarTask) = 2
      BY <2>4 DEF LastMatch
  <2>7. e.phase = "running" => TaskStatusIn(summaries, IsarTask) = "InProgress"
      BY <2>3, <2>4, <2>6 DEF TaskStatusIn, TaskInPhase, TaskStatusOf
  <2>8. QED
      BY <1>2, <2>1, <2>5, <2>7
<1>6. QED
    BY <1>3, <1>4, <1>5 DEF Missions

\* A mission whose run has a status that ends the supervision has ended.
LEMMA FinishedHasEnded ==
    ASSUME NEW m \in Runs, NEW ph \in {"running", "paused"}
    PROVE  TrueStatus("mission", m, ph) \notin Finished
<1>1. Body([run |-> m, phase |-> ph]).status \in {"MS_RUNNING", "MS_PAUSED"}
    BY DEF Body
<1>2. QED
    BY <1>1 DEF TrueStatus, StatusOfEvent, MissionStatusFrom, ReportedStatus, Finished

-----------------------------------------------------------------------------
(* The read in flight.                                                     *)

\* Nothing the read in flight has looked at is going to disagree with what it
\* looks at next: nothing was replaced, or nothing can be, or its mission is
\* still the newest run and still supervised.
Reliable ==
    \/ ~overtaken
    \/ Undisturbed
    \/ supervised = subject /\ newest = subject

MissionReads ==
    {"checkMission", "readStored", "readStatus", "readSummaries", "readOutcome"}
TaskReads == {"readHome", "readTask", "clearHome"}

\* A poll is about a mission that was handed over before; ISAR starts no other
\* one meanwhile, unless its calls overlap.
PollInv ==
    mpc # "idle" =>
        /\ subject \in Missions /\ subject \in requested
        /\ op \in StartOps => arg # subject
        /\ Undisturbed =>
              /\ newest = subject /\ op \notin StartOps
              /\ supervised \in {subject, None}
        /\ mpc \in MissionReads => kind = "mission"
        /\ mpc \in TaskReads => kind = "task"

\* What a reliable read has found so far is about its own mission.
ReadInv ==
    mpc # "idle" /\ Reliable =>
        /\ currentAnymal \in {subject, None}
        /\ storedRunning = (subject \in Stored)
        /\ mpc \notin {"checkMission", "checkEvent"} =>
              lastEvent # NoEvent /\ lastEvent.run = subject
        /\ mpc \in {"readStatus", "readSummaries", "readOutcome"} =>
              storedRead = (subject \in Stored)
        /\ mpc \in {"readSummaries", "readOutcome"} =>
              statusRead = "MS_COMPLETED" /\ lastEvent.phase \in EndedPhase
        /\ mpc = "readOutcome" => subject \in Stored
        /\ mpc = "clearHome" =>
              \E ph \in Passed(phase[subject]) \ {"running"} :
                  valueRead = TrueStatus("task", subject, ph)

\* A poll that ends under these conditions ends with an honest value.
LEMMA AnswerIsHonest ==
    ASSUME TypeInv, EventInv, PollInv, ReadInv, MonitorStep, Reliable, mpc' = "idle"
    PROVE  \E value : Answer(value) /\ HonestValue(kind, subject, value)
<1>a. /\ mpc # "idle" /\ subject \in Missions /\ subject \in Runs
      /\ mpc \in MissionReads => kind = "mission"
      /\ mpc \in TaskReads => kind = "task"
  <2>1. mpc # "idle"
      BY DEF MonitorStep, CheckMission, CheckEvent, ReadStoredFlag, ReadStatus,
         ReadSummaries, ReadOutcome, ReadHomeFlag, ReadTask, ClearHomeFlag
  <2>2. QED
      BY <2>1 DEF PollInv, Runs
<1>b. ASSUME NEW value, Answer(value), value \in {"NotStarted", Raised}
      PROVE  \E v : Answer(v) /\ HonestValue(kind, subject, v)
    BY <1>b DEF HonestValue
<1>c. ASSUME NEW value, Answer(value),
             \E ph \in Passed(phase[subject]) : value = TrueStatus(kind, subject, ph)
      PROVE  \E v : Answer(v) /\ HonestValue(kind, subject, v)
    BY <1>c DEF HonestValue
<1>d. ASSUME mpc \notin {"checkMission", "checkEvent"}
      PROVE  /\ lastEvent \in Event /\ lastEvent # NoEvent /\ lastEvent.run = subject
             /\ lastEvent.phase \in Passed(phase[subject])
    BY <1>a, <1>d DEF ReadInv, EventInv, Told
<1>e. ASSUME NEW status, MissionAnswer(status),
             status # MissionStatusError =>
                 ReportedStatus(status, storedRead)
                     = TrueStatus("mission", subject, lastEvent.phase),
             mpc \in MissionReads \ {"checkMission"}
      PROVE  \E v : Answer(v) /\ HonestValue(kind, subject, v)
  <2>1. CASE status = MissionStatusError
      BY <1>b, <1>e, <2>1 DEF MissionAnswer
  <2>2. CASE status # MissionStatusError
      BY <1>a, <1>c, <1>d, <1>e, <2>2 DEF MissionAnswer, MissionReads
  <2>3. QED
      BY <2>1, <2>2
<1>1. CASE CheckMission
    BY <1>1, <1>b DEF CheckMission, Proceed
<1>2. CASE CheckEvent
    BY <1>2, <1>b DEF CheckEvent, Proceed
<1>3. CASE ReadStoredFlag \/ ReadHomeFlag
    BY <1>3 DEF ReadStoredFlag, ReadHomeFlag, Proceed
<1>4. CASE ReadStatus
  <2>1. mpc = "readStatus" /\ kind = "mission"
      BY <1>4, <1>a DEF ReadStatus, MissionReads
  <2>2. \/ Answer("NotStarted") \/ Answer(Raised)
        \/ Answer(StatusOfEvent(Body(lastEvent), storedRead))
      BY <1>4 DEF ReadStatus, Proceed
  <2>3. StatusOfEvent(Body(lastEvent), storedRead)
            = TrueStatus("mission", subject, lastEvent.phase)
      BY <1>a, <1>d, <2>1, MissionTruth DEF ReadInv
  <2>4. QED
      BY <1>b, <1>c, <1>d, <2>1, <2>2, <2>3
<1>5. CASE ReadSummaries
  <2>1. mpc = "readSummaries" /\ statusRead = "MS_COMPLETED"
        /\ storedRead = (subject \in Stored) /\ lastEvent.phase \in EndedPhase
      BY <1>5, <1>a DEF ReadSummaries, ReadInv
  <2>2. ~(storedRead /\ Body(lastEvent).summaries = <<>>)
        /\ MissionAnswer(MissionStatusFrom(statusRead, Body(lastEvent).summaries,
                                           "OC_NA", storedRead))
      BY <1>5, <1>d, <2>1 DEF ReadSummaries, Proceed
  <2>3. Body(lastEvent).status = "MS_COMPLETED"
      BY <2>1 DEF Body, EndedPhase
  <2>4. MissionStatusFrom(statusRead, Body(lastEvent).summaries, "OC_NA", storedRead)
            = MissionStatusFrom(Body(lastEvent).status, Body(lastEvent).summaries,
                                Body(lastEvent).outcome, storedRead)
      BY <2>1, <2>2, <2>3 DEF MissionStatusFrom
  <2>5. StatusOfEvent(Body(lastEvent), storedRead)
            = TrueStatus("mission", subject, lastEvent.phase)
      BY <1>d, <2>1, MissionTruth
  <2>6. QED
      BY <1>e, <2>1, <2>2, <2>4, <2>5 DEF StatusOfEvent, MissionReads
<1>6. CASE ReadOutcome
  <2>1. mpc = "readOutcome" /\ statusRead = "MS_COMPLETED" /\ subject \in Stored
        /\ storedRead = (subject \in Stored) /\ lastEvent.phase \in EndedPhase
      BY <1>6, <1>a DEF ReadOutcome, ReadInv
  <2>2. MissionAnswer(StoredVerdict(statusRead, Body(lastEvent).outcome))
      BY <1>6, <1>d, <2>1 DEF ReadOutcome
  <2>3. Body(lastEvent).status = "MS_COMPLETED" /\ Body(lastEvent).summaries = <<>>
    <3>1. Body(lastEvent).status = "MS_COMPLETED"
        BY <2>1 DEF Body, EndedPhase
    <3>2. QED
        BY <1>d, <2>1, <3>1, BodySummaries
  <2>4. TaskStatusesOf(<<>>) = {}
      BY DEF TaskStatusesOf
  <2>5. StoredVerdict(statusRead, Body(lastEvent).outcome)
            = MissionStatusFrom(Body(lastEvent).status, Body(lastEvent).summaries,
                                Body(lastEvent).outcome, storedRead)
      BY <2>1, <2>3, <2>4 DEF MissionStatusFrom
  <2>6. StatusOfEvent(Body(lastEvent), storedRead)
            = TrueStatus("mission", subject, lastEvent.phase)
      BY <1>d, <2>1, MissionTruth
  <2>7. QED
      BY <1>e, <2>1, <2>2, <2>5, <2>6 DEF StatusOfEvent, MissionReads
<1>7. CASE ReadTask
  <2> DEFINE value == TaskStatusIn(Body(lastEvent).summaries,
                                   IF homeRead THEN Dock ELSE IsarTask)
  <2>1. mpc = "readTask" /\ kind = "task" /\ homeRead \in BOOLEAN
      BY <1>7, <1>a DEF ReadTask, TaskReads, TypeInv, TypeOK, ReadTypeOK
  <2>2. \/ Answer(Raised)
        \/ value \in {"NotStarted", "InProgress"} /\ Answer(value)
      BY <1>7 DEF ReadTask, Proceed
  <2>3. value # TaskStatusError => value = TrueStatus("task", subject, lastEvent.phase)
      BY <1>a, <1>d, <2>1, TaskTruth
  <2>4. "NotStarted" # TaskStatusError /\ "InProgress" # TaskStatusError
      BY DEF TaskStatusError
  <2> HIDE DEF value
  <2>5. QED
      BY <1>b, <1>c, <1>d, <2>1, <2>2, <2>3, <2>4
<1>8. CASE ClearHomeFlag
  <2>1. mpc = "clearHome" /\ kind = "task" /\ Answer(valueRead)
      BY <1>8, <1>a DEF ClearHomeFlag, TaskReads
  <2>2. PICK ph \in Passed(phase[subject]) : valueRead = TrueStatus("task", subject, ph)
      BY <1>a, <2>1 DEF ReadInv
  <2>3. QED
      BY <1>c, <2>1, <2>2
<1>9. QED
    BY <1>1, <1>2, <1>3, <1>4, <1>5, <1>6, <1>7, <1>8 DEF MonitorStep

-----------------------------------------------------------------------------
(* Who supervises the newest run.                                          *)

\* Undisturbed by other clients, the newest run is the supervised mission, or
\* the one whose start is being recorded.
NewestInv ==
    Foreign = {} =>
        /\ supervised # None => newest = supervised
        /\ Settling => newest = arg

\* A run that may be going on, of a mission ISAR started.
GoesOn ==
    /\ newest \in Missions /\ newest \notin lostRuns
    /\ phase[newest] = "running" \/ (phase[newest] = "paused" /\ currentAnymal = newest)

\* Such a run is supervised or about to be; Robot.stop forgets a run only after
\* the robot paused it.
SupervisionInv ==
    /\ GoesOn => supervised = newest \/ (Settling /\ arg = newest)
    /\ /\ op = "stop" /\ newest \in Missions
       /\ pc = "recordStop" \/ (pc = "release" /\ ~failing)
       => phase[newest] # "running"

\* What was answered for a mission is true of it.
ReportInv ==
    /\ report.mission = None => report.value = "NotStarted"
    /\ ~report.overtaken \/ Undisturbed => Honest(report)

\* The steps of the command thread that write no bookkeeping.
Quiet ==
    \/ PrepareMissionPlan \/ TakeControl \/ SetUserInteractionMode
    \/ RequestAnswered \/ RequestAnswerLost \/ RequestNotDone
    \/ ReleaseControl

\* They leave the reads, the events and the supervision alone as well, and only a
\* request that is carried out moves a run.
LEMMA QuietFrame ==
    ASSUME Quiet
    PROVE  /\ UNCHANGED <<currentAnymal, currentIsar, homeRunning, storedRunning,
                         inspections>>
           /\ UNCHANGED <<lastEvent, latest, inFlight, overtaken, report, supervised,
                         requested>>
           /\ UNCHANGED <<mpc, kind, subject, storedRead, homeRead, statusRead, valueRead>>
           /\ op' = op \/ op' = "none"
           /\ arg' = arg \/ op' = "none"
           /\ lostRuns \subseteq lostRuns'
           /\ UNCHANGED <<newest, phase>>
                \/ (pc = "request" /\ CarryOut /\ (RequestAnswered \/ RequestAnswerLost))
<1>1. UNCHANGED <<robotVars, lastEvent, overtaken, report, mpc, readVars, streamVars>>
    BY DEF Quiet, PrepareMissionPlan, TakeControl, SetUserInteractionMode,
       RequestAnswered, RequestAnswerLost, RequestNotDone, ReleaseControl, AfterRelease
<1>2. UNCHANGED <<supervised, requested>>
      /\ (op' = op \/ op' = "none") /\ (arg' = arg \/ op' = "none")
      /\ lostRuns \subseteq lostRuns'
    BY DEF Quiet, PrepareMissionPlan, TakeControl, SetUserInteractionMode,
       RequestAnswered, RequestAnswerLost, RequestNotDone, ReleaseControl, AfterRelease,
       Raise, Leave, GoTo, FailInTry
<1>3. UNCHANGED <<newest, phase>>
         \/ (pc = "request" /\ CarryOut /\ (RequestAnswered \/ RequestAnswerLost))
    BY DEF Quiet, PrepareMissionPlan, TakeControl, SetUserInteractionMode,
       RequestAnswered, RequestAnswerLost, RequestNotDone, ReleaseControl, runVars
<1>4. QED
    BY <1>1, <1>2, <1>3 DEF robotVars, readVars, streamVars

\* What the records at the end of a call leave alone.
LEMMA RecordFrame ==
    ASSUME RecordRun \/ RecordMission \/ RecordStop
    PROVE  /\ UNCHANGED <<lastEvent, latest, inFlight, report, requested, newest, phase>>
           /\ UNCHANGED <<mpc, kind, subject, storedRead, homeRead, statusRead, valueRead>>
           /\ lostRuns' = lostRuns
           /\ overtaken' = (overtaken \/ mpc # "idle")
BY DEF RecordRun, RecordMission, RecordStop, GoTo, Leave, Overtake, readVars,
   streamVars, runVars

Starts == \E m \in Missions : InitiateMission(m) \/ InitiateReturnHome(m)

\* What entering a start leaves alone.
LEMMA StartFrame ==
    ASSUME Starts
    PROVE  /\ UNCHANGED <<latest, inFlight, report, newest, phase, supervised, lostRuns>>
           /\ currentAnymal' \in {currentAnymal, None}
           /\ UNCHANGED <<mpc, kind, subject, storedRead, homeRead, statusRead, valueRead>>
           /\ op = "none" /\ op' \in StartOps /\ supervised = None
           /\ arg' \notin requested /\ arg' \in Missions /\ requested \subseteq requested'
           /\ MonitorOverlapsStart \/ mpc = "idle"
           /\ overtaken' = (overtaken \/ mpc # "idle")
           /\ pc' \in {"prepare", "lease"}
BY DEF Starts, InitiateMission, InitiateReturnHome, MayStart, Enter, Overtake,
   readVars, streamVars, runVars, StartOps, FirstStep

\* What entering another call leaves alone.
LEMMA EnterFrame ==
    ASSUME PauseResumeOrStop
    PROVE  /\ UNCHANGED <<currentAnymal, currentIsar, homeRunning, storedRunning,
                         inspections>>
           /\ UNCHANGED <<lastEvent, latest, inFlight, overtaken, report, supervised,
                         requested>>
           /\ UNCHANGED <<mpc, kind, subject, storedRead, homeRead, statusRead, valueRead>>
           /\ UNCHANGED <<newest, phase, lostRuns>>
           /\ op = "none" /\ op' \in {"pause", "resume", "stop"} /\ pc' = "lease"
           /\ supervised # None
<1>1. UNCHANGED <<robotVars, readVars, streamVars, runVars>>
    BY DEF PauseResumeOrStop
<1>2. QED
    BY <1>1 DEF PauseResumeOrStop, Enter, robotVars, readVars, streamVars, runVars

\* Every step of Next is of one of these kinds.
LEMMA StepKinds ==
    ASSUME [Next]_vars
    PROVE  \/ Starts \/ PauseResumeOrStop \/ Quiet
           \/ RecordRun \/ RecordMission \/ RecordStop
           \/ Monitoring \/ Environment \/ UNCHANGED vars
BY DEF Next, Starts, Quiet, CommandStep, Monitoring, Environment

\* The newest run follows the supervision.
LEMMA NewestStep ==
    ASSUME TypeInv, CallInv, NewestInv, [Next]_vars
    PROVE  NewestInv'
<1> SUFFICES ASSUME Foreign = {}
             PROVE  /\ supervised' # None => newest' = supervised'
                    /\ Settling' => newest' = arg'
    BY DEF NewestInv
<1>a. RunTypeOK /\ RunMoves /\ pc \in Pc /\ (Starting => op \in StartOps)
    BY RunStep DEF TypeInv, TypeOK, CommandTypeOK, Starting, StartOps
<1>b. /\ supervised # None => newest = supervised
      /\ Settling => newest = arg
    BY DEF NewestInv
<1>c. newest' # newest => newest' = arg /\ pc = "request" /\ Starting
    BY <1>a, PastGrows
<1>1. CASE Starts
    BY <1>1, StartFrame DEF Settling
<1>2. CASE PauseResumeOrStop
    BY <1>2, <1>b, EnterFrame DEF Settling
<1>3. CASE Quiet
  <2>1. supervised' = supervised
      BY <1>3, QuietFrame
  <2>2. CASE newest' # newest
    <3>1. op \in StartOps /\ supervised = None /\ newest' = arg
        BY <1>a, <1>c, <2>2 DEF CallInv
    <3>2. arg' = arg \/ ~Settling'
        BY <1>3, QuietFrame DEF Settling, StartOps
    <3>3. QED
        BY <2>1, <3>1, <3>2
  <2>3. CASE newest' = newest
    <3>1. supervised' # None => newest' = supervised'
        BY <1>b, <2>1, <2>3
    <3>2. ASSUME Settling' PROVE newest' = arg'
      <4>1. CASE RequestAnswered
        <5>1. Starting /\ CarryOut /\ arg' = arg
            BY <3>2, <4>1 DEF RequestAnswered, GoTo, Settling, Starting
        <5>2. newest' = arg
            BY <5>1 DEF CarryOut, Starting, RobotStarts
        <5>3. QED
            BY <5>1, <5>2
      <4>2. CASE ReleaseControl
        <5>1. Settling /\ arg' = arg
            BY <3>2, <4>2 DEF ReleaseControl, AfterRelease, Settling, Raise, Leave, GoTo,
               StartOps, CallInv, Starting
        <5>2. QED
            BY <1>b, <2>3, <5>1
      <4>3. CASE \/ PrepareMissionPlan \/ TakeControl \/ SetUserInteractionMode
                 \/ RequestAnswerLost \/ RequestNotDone
          BY <3>2, <4>3 DEF PrepareMissionPlan, TakeControl, SetUserInteractionMode,
             RequestAnswerLost, RequestNotDone, Settling, Raise, Leave, GoTo, FailInTry,
             StartOps, Starting
      <4>4. QED
          BY <1>3, <4>1, <4>2, <4>3 DEF Quiet
    <3>3. QED
        BY <3>1, <3>2
  <2>4. QED
      BY <2>2, <2>3
<1>4. CASE RecordRun
  <2>1. Settling /\ newest' = newest /\ arg' = arg /\ supervised' = supervised
      BY <1>4 DEF RecordRun, GoTo, CallInv, Settling, runVars
  <2>2. QED
      BY <1>b, <2>1
<1>5. CASE RecordMission
  <2>1. Settling /\ newest' = newest /\ supervised' = arg /\ ~Settling'
      BY <1>5 DEF RecordMission, Leave, CallInv, Settling, runVars, StartOps
  <2>2. QED
      BY <1>b, <2>1
<1>6. CASE RecordStop
    BY <1>6 DEF RecordStop, Leave, Settling, StartOps
<1>7. CASE Monitoring
  <2>1. /\ UNCHANGED <<newest, arg, op, pc, job, failing>>
        /\ supervised' \in {supervised, None}
      BY <1>7, MonitorFrame
  <2>2. QED
      BY <1>b, <2>1 DEF Settling, Starting
<1>8. CASE Environment \/ UNCHANGED vars
  <2>1. UNCHANGED <<arg, op, pc, job, failing, supervised>>
      BY <1>8, EnvironmentFrame, StutterFrame
  <2>2. newest' = newest
    <3>1. CASE Environment
        BY <3>1 DEF Environment, RunEnds, OperatorStartsRun, Publish, StreamBreaks,
           Subscribe, UpdateMissionEvent, runVars
    <3>2. QED
        BY <1>8, <3>1, StutterFrame
  <2>3. QED
      BY <1>b, <2>1, <2>2 DEF Settling, Starting
<1>9. QED
    BY <1>1, <1>2, <1>3, <1>4, <1>5, <1>6, <1>7, <1>8, StepKinds

\* A step of a status call is its last, or goes on to the next read.
LEMMA AnswerOrProceed ==
    ASSUME MonitorStep
    PROVE  (\E value : Answer(value)) \/ (\E step \in Mpc \ {"idle"} : Proceed(step))
BY DEF MonitorStep, CheckMission, CheckEvent, ReadStoredFlag, ReadStatus, ReadSummaries,
   ReadOutcome, ReadHomeFlag, ReadTask, ClearHomeFlag, MissionAnswer, Mpc

\* ISAR stops supervising the mission of the newest run only when it has ended.
LEMMA SupervisionEnds ==
    ASSUME TypeInv, EventInv, PollInv, ReadInv, Monitoring,
           supervised' # supervised, supervised = newest
    PROVE  phase[newest] \in EndedPhase
<1>1. MonitorStep
    BY DEF Monitoring, PollMission, PollTask, Poll
<1>2. PICK v : Answer(v)
    BY <1>1, AnswerOrProceed DEF Proceed
<1>3. mpc' = "idle" /\ subject = supervised /\ supervised # None
    BY <1>2 DEF Answer
<1>4. Reliable
    BY <1>3 DEF Reliable
<1>5. PICK value : Answer(value) /\ HonestValue(kind, subject, value)
    BY <1>1, <1>3, <1>4, AnswerIsHonest
<1>6. kind = "mission" /\ value \in Finished
    BY <1>5 DEF Answer
<1>7. value \notin {"NotStarted", Raised}
    BY <1>6 DEF Finished, Raised
<1>8. PICK ph \in Passed(phase[subject]) : value = TrueStatus("mission", subject, ph)
    BY <1>5, <1>6, <1>7 DEF HonestValue
<1>9. subject \in Runs /\ phase[subject] \in Phase
    BY <1>3 DEF TypeInv, TypeOK, ReportTypeOK, RunTypeOK, Runs
<1>10. ph \in Phase /\ ph \notin {"running", "paused"}
    BY <1>6, <1>8, <1>9, FinishedHasEnded, PassedFacts
<1>11. QED
    BY <1>3, <1>8, <1>9, <1>10, PassedFacts

\* No run of ISAR goes on behind its back, and a stop forgets no running one.
LEMMA SupervisionStep ==
    ASSUME TypeInv, CallInv, EventInv, PollInv, ReadInv, SupervisionInv, [Next]_vars
    PROVE  SupervisionInv'
<1>a. /\ RunTypeOK /\ supervised \in Missions \union {None} /\ None \notin Missions
      /\ newest \in Runs \union {None} /\ phase \in [Runs -> Phase]
      /\ arg \in Missions \union {None} /\ pc \in Pc
      /\ Starting => op \in StartOps
      /\ job = "disengage" => op = "initiate"
    BY MissionsAssumption DEF TypeInv, TypeOK, ReportTypeOK, RunTypeOK, CommandTypeOK,
       Runs, Starting, StartOps
<1>b. ASSUME UNCHANGED <<op, pc, job, failing, arg, newest, currentAnymal, lostRuns, phase,
                         supervised>>
      PROVE  SupervisionInv'
    BY <1>b DEF SupervisionInv, GoesOn, Settling, Starting
<1>1. CASE Starts
  <2>1. /\ UNCHANGED <<newest, phase, supervised, lostRuns>>
        /\ currentAnymal' \in {currentAnymal, None}
        /\ op = "none" /\ op' # "stop"
      BY <1>1, StartFrame DEF StartOps
  <2>2. GoesOn' => GoesOn
      BY <1>a, <2>1 DEF GoesOn
  <2>3. QED
      BY <2>1, <2>2 DEF SupervisionInv, Settling, StartOps
<1>2. CASE PauseResumeOrStop
  <2>1. /\ UNCHANGED <<newest, phase, supervised, lostRuns, currentAnymal>>
        /\ op = "none" /\ pc' = "lease"
      BY <1>2, EnterFrame
  <2>2. QED
      BY <2>1 DEF SupervisionInv, GoesOn, Settling, StartOps
<1>3. CASE Quiet
  <2>1. /\ UNCHANGED <<currentAnymal, supervised>> /\ lostRuns \subseteq lostRuns'
        /\ op' = op \/ op' = "none"
      BY <1>3, QuietFrame
  <2>2. CASE ReleaseControl
    <3>1. UNCHANGED <<newest, phase>> /\ pc = "release"
        BY <2>2 DEF ReleaseControl, runVars
    <3>2. GoesOn' => GoesOn
        BY <2>1, <3>1 DEF GoesOn
    <3>3. ASSUME GoesOn', Settling, arg = newest PROVE Settling' /\ arg' = newest'
        BY <2>2, <3>1, <3>3 DEF ReleaseControl, AfterRelease, Raise, Leave, GoTo, Settling,
           GoesOn, StartOps, CallInv, Starting
    <3>4. op' = "stop" /\ (pc' = "recordStop" \/ (pc' = "release" /\ ~failing'))
             => op = "stop" /\ pc = "release" /\ ~failing
        BY <2>2 DEF ReleaseControl, AfterRelease, Raise, Leave, GoTo
    <3>5. QED
        BY <2>1, <3>1, <3>2, <3>3, <3>4 DEF SupervisionInv
  <2>3. CASE RequestAnswered \/ RequestAnswerLost
    <3>1. CarryOut /\ pc = "request" /\ ~failing /\ ~Settling
        BY <2>3 DEF RequestAnswered, RequestAnswerLost, CallInv, Settling
    <3>2. CASE job = "disengage" /\ UNCHANGED runVars
      <4>1. op = "initiate" /\ UNCHANGED <<newest, phase>> /\ op' # "stop"
          BY <1>a, <2>1, <3>2 DEF runVars
      <4>2. QED
          BY <2>1, <3>1, <4>1 DEF SupervisionInv, GoesOn
    <3>3. CASE Starting /\ RobotStarts(arg)
      <4>1. newest' = arg /\ op \in StartOps /\ op' # "stop"
          BY <1>a, <2>1, <3>3 DEF RobotStarts, StartOps
      <4>2. CASE RequestAnswered
          BY <3>1, <3>3, <4>1, <4>2
             DEF RequestAnswered, GoTo, SupervisionInv, Settling, Starting
      <4>3. CASE RequestAnswerLost
          BY <3>3, <4>1, <4>3 DEF RequestAnswerLost, SupervisionInv, GoesOn
      <4>4. QED
          BY <2>3, <4>2, <4>3
    <3>4. CASE job = "pause" /\ RobotTurns("running", "paused")
      <4>1. /\ newest' = newest /\ newest \in Runs
            /\ phase[newest] = "running" /\ phase'[newest] = "paused"
          BY <1>a, <3>4 DEF RobotTurns
      <4>2. GoesOn' => GoesOn
          BY <2>1, <4>1 DEF GoesOn
      <4>3. QED
          BY <2>1, <3>1, <4>1, <4>2 DEF SupervisionInv
    <3>5. CASE job = "resume" /\ RobotTurns("paused", "running")
      <4>1. /\ newest' = newest /\ newest \in Runs /\ phase[newest] = "paused"
            /\ currentAnymal = newest /\ op # "stop" /\ op' # "stop"
          BY <1>a, <2>1, <3>5 DEF RobotTurns, CallInv
      <4>2. GoesOn' => GoesOn
          BY <2>1, <4>1 DEF GoesOn
      <4>3. QED
          BY <2>1, <3>1, <4>1, <4>2 DEF SupervisionInv
    <3>6. QED
        BY <3>1, <3>2, <3>3, <3>4, <3>5 DEF CarryOut, Starting
  <2>4. CASE PrepareMissionPlan \/ TakeControl \/ SetUserInteractionMode \/ RequestNotDone
    <3>1. UNCHANGED <<newest, phase>> /\ ~Settling
        BY <2>4 DEF PrepareMissionPlan, TakeControl, SetUserInteractionMode, RequestNotDone,
           runVars, Settling
    <3>2. ~(pc' = "recordStop" \/ (pc' = "release" /\ ~failing'))
        BY <2>4 DEF PrepareMissionPlan, TakeControl, SetUserInteractionMode, RequestNotDone,
           Raise, Leave, GoTo, FailInTry
    <3>3. QED
        BY <2>1, <3>1, <3>2 DEF SupervisionInv, GoesOn
  <2>5. QED
      BY <1>3, <2>2, <2>3, <2>4 DEF Quiet
<1>4. CASE RecordRun
  <2>1. /\ UNCHANGED <<newest, phase, lostRuns, supervised>> /\ currentAnymal' = arg
        /\ Settling' /\ arg' = arg /\ supervised = None /\ op' # "stop"
      BY <1>4 DEF RecordRun, GoTo, Settling, CallInv, StartOps, runVars
  <2>2. QED
      BY <1>a, <2>1 DEF SupervisionInv, GoesOn
<1>5. CASE RecordMission
  <2>1. /\ UNCHANGED <<newest, phase, lostRuns, currentAnymal>>
        /\ supervised' = arg /\ supervised = None /\ op' = "none"
      BY <1>5 DEF RecordMission, Leave, CallInv, runVars
  <2>2. QED
      BY <1>a, <2>1 DEF SupervisionInv, GoesOn
<1>6. CASE RecordStop
  <2>1. /\ UNCHANGED <<newest, phase>> /\ currentAnymal' = None /\ op' = "none"
        /\ op = "stop" /\ pc = "recordStop"
      BY <1>6 DEF RecordStop, Leave, CallInv, runVars
  <2>2. QED
      BY <1>a, <2>1 DEF SupervisionInv, GoesOn
<1>7. CASE Monitoring
  <2>1. /\ UNCHANGED <<op, pc, job, failing, arg, newest, currentAnymal, lostRuns, phase>>
        /\ supervised' \in {supervised, None}
      BY <1>7, MonitorFrame
  <2>2. CASE supervised' = supervised
      BY <1>b, <2>1, <2>2
  <2>3. CASE supervised' # supervised
    <3>1. supervised = newest => ~GoesOn'
        BY <1>7, <2>1, <2>3, SupervisionEnds DEF GoesOn, EndedPhase
    <3>2. QED
        BY <2>1, <3>1 DEF SupervisionInv, GoesOn, Settling, Starting
  <2>4. QED
      BY <2>2, <2>3
<1>8. CASE Environment
  <2>1. UNCHANGED <<op, pc, job, failing, arg, currentAnymal, lostRuns, supervised>>
      BY <1>8, EnvironmentFrame
  <2>2. CASE RunEnds
    <3>1. newest' = newest /\ newest \in Runs /\ phase'[newest] \in EndedPhase
        BY <1>a, <2>2 DEF RunEnds
    <3>2. QED
        BY <3>1 DEF SupervisionInv, GoesOn, EndedPhase
  <2>3. ASSUME NEW r \in Foreign, OperatorStartsRun(r) PROVE SupervisionInv'
    <3>1. newest' \notin Missions
        BY <2>3, MissionsAssumption DEF OperatorStartsRun, RobotStarts
    <3>2. QED
        BY <3>1 DEF SupervisionInv, GoesOn
  <2>4. CASE Publish \/ StreamBreaks \/ Subscribe \/ UpdateMissionEvent
    <3>1. UNCHANGED <<newest, phase>>
        BY <2>4 DEF Publish, StreamBreaks, Subscribe, UpdateMissionEvent, runVars
    <3>2. QED
        BY <1>b, <2>1, <3>1
  <2>5. QED
      BY <1>8, <2>2, <2>3, <2>4 DEF Environment
<1>9. CASE UNCHANGED vars
    BY <1>9, <1>b, StutterFrame
<1>10. QED
    BY <1>1, <1>2, <1>3, <1>4, <1>5, <1>6, <1>7, <1>8, <1>9, StepKinds

\* A poll stays with its mission, and ISAR starts no other one during it unless
\* its calls overlap.
LEMMA PollStep ==
    ASSUME TypeInv, CallInv, BookInv, NewestInv, PollInv, [Next]_vars
    PROVE  PollInv'
<1>a. /\ RunTypeOK /\ RunMoves /\ supervised \in Missions \union {None}
      /\ Starting => op \in StartOps
    BY RunStep DEF TypeInv, TypeOK, ReportTypeOK, Starting, StartOps
<1>b. Undisturbed /\ op \notin StartOps => newest' = newest
    BY <1>a, PastGrows DEF Undisturbed
<1>c. ASSUME UNCHANGED <<mpc, subject, kind>>, requested \subseteq requested',
             mpc # "idle" => (op' \in StartOps => arg' # subject),
             mpc # "idle" /\ Undisturbed =>
                 /\ newest' = newest /\ op' \notin StartOps
                 /\ supervised' \in {supervised, None}
      PROVE  PollInv'
    BY <1>c DEF PollInv
<1>1. CASE Starts
  <2>1. mpc # "idle" => arg' # subject /\ ~Undisturbed
      BY <1>1, StartFrame DEF PollInv, Undisturbed
  <2>2. UNCHANGED <<mpc, subject, kind>> /\ requested \subseteq requested'
      BY <1>1, StartFrame
  <2>3. QED
      BY <1>c, <2>1, <2>2
<1>2. CASE PauseResumeOrStop
    BY <1>2, <1>c, EnterFrame DEF StartOps
<1>3. CASE Quiet
  <2>1. /\ UNCHANGED <<mpc, subject, kind, requested, supervised>>
        /\ op' \in StartOps => op \in StartOps /\ arg' = arg
      BY <1>3, QuietFrame DEF StartOps
  <2>2. QED
      BY <1>b, <1>c, <2>1 DEF PollInv
<1>4. CASE RecordRun \/ RecordMission \/ RecordStop
  <2>1. UNCHANGED <<mpc, subject, kind, requested, newest>>
      BY <1>4, RecordFrame
  <2>2. op' \in StartOps => op \in StartOps /\ arg' = arg
      BY <1>4 DEF RecordRun, RecordMission, RecordStop, GoTo, Leave, StartOps
  <2>3. op \notin StartOps => supervised' = None
      BY <1>4 DEF RecordRun, RecordMission, RecordStop, CallInv
  <2>4. QED
      BY <1>c, <2>1, <2>2, <2>3 DEF PollInv
<1>5. CASE PollMission \/ PollTask
  <2>1. /\ supervised # None /\ subject' = supervised /\ supervised' = supervised
        /\ (mpc' = "checkMission" /\ kind' = "mission") \/ mpc' = "checkEvent"
      BY <1>5 DEF PollMission, PollTask, Poll
  <2>2. UNCHANGED <<op, arg, requested, newest>>
      BY <1>5, MonitorFrame DEF Monitoring
  <2>3. op \notin StartOps /\ supervised \in requested
      BY <2>1 DEF CallInv, BookInv
  <2>4. QED
      BY <1>a, <2>1, <2>2, <2>3
         DEF PollInv, NewestInv, Undisturbed, MissionReads, TaskReads
<1>6. CASE MonitorStep
  <2>1. UNCHANGED <<op, arg, requested, newest>> /\ supervised' \in {supervised, None}
      BY <1>6, MonitorFrame DEF Monitoring
  <2>2. CASE \E value : Answer(value)
      BY <2>2 DEF Answer, PollInv
  <2>3. CASE \E step \in Mpc \ {"idle"} : Proceed(step)
    <3>1. UNCHANGED <<subject, kind, supervised>> /\ mpc # "idle"
        BY <1>6, <2>3 DEF Proceed, MonitorStep, CheckMission, CheckEvent, ReadStoredFlag,
           ReadStatus, ReadSummaries, ReadOutcome, ReadHomeFlag, ReadTask, ClearHomeFlag
    <3>2. /\ mpc' \in MissionReads => kind = "mission"
          /\ mpc' \in TaskReads => kind = "task"
      <4>1. kind \in {"mission", "task"}
          BY DEF TypeInv, TypeOK, ReadTypeOK
      <4>2. CASE CheckEvent
          BY <4>1, <4>2, <2>3 DEF CheckEvent, Answer, Proceed, MissionReads, TaskReads
      <4>3. CASE CheckMission
          BY <4>3, <2>3, <3>1
             DEF CheckMission, Answer, Proceed, MissionReads, TaskReads, PollInv
      <4>4. CASE ReadStoredFlag \/ ReadStatus \/ ReadSummaries \/ ReadOutcome
        <5>1. mpc \in MissionReads /\ mpc' \in {"idle"} \union MissionReads
            BY <4>4 DEF ReadStoredFlag, ReadStatus, ReadSummaries, ReadOutcome,
               MissionAnswer, Answer, Proceed, MissionReads
        <5>2. QED
            BY <3>1, <5>1 DEF PollInv, MissionReads, TaskReads
      <4>5. CASE ReadHomeFlag \/ ReadTask \/ ClearHomeFlag
        <5>1. mpc \in TaskReads /\ mpc' \in {"idle"} \union TaskReads
            BY <4>5 DEF ReadHomeFlag, ReadTask, ClearHomeFlag, Answer, Proceed, TaskReads
        <5>2. QED
            BY <3>1, <5>1 DEF PollInv, MissionReads, TaskReads
      <4>6. QED
          BY <1>6, <4>2, <4>3, <4>4, <4>5 DEF MonitorStep
    <3>3. QED
        BY <2>1, <3>1, <3>2 DEF PollInv
  <2>4. QED
      BY <1>6, <2>2, <2>3, AnswerOrProceed
<1>7. CASE Environment \/ UNCHANGED vars
  <2>1. UNCHANGED <<mpc, subject, kind, requested, op, arg, supervised>>
      BY <1>7, EnvironmentFrame, StutterFrame
  <2>2. QED
      BY <1>b, <1>c, <2>1 DEF PollInv
<1>8. QED
    BY <1>1, <1>2, <1>3, <1>4, <1>5, <1>6, <1>7, StepKinds DEF Monitoring

\* A read that is reliable after a step of another thread was so before it, and
\* that step neither began nor recorded a start.
LEMMA ReliableBefore ==
    ASSUME TypeInv, CallInv, PollInv, [Next]_vars, ~Monitoring, mpc # "idle", Reliable'
    PROVE  Reliable /\ ~Starts /\ ~RecordRun /\ ~RecordMission
<1>a. /\ subject \in Missions /\ subject # None /\ subject \notin Foreign
      /\ op \in StartOps => arg # subject /\ ~Undisturbed
      /\ RunTypeOK /\ RunMoves /\ (Starting => op \in StartOps)
    BY RunStep, MissionsAssumption
       DEF PollInv, Runs, TypeInv, TypeOK, Starting, StartOps
<1>b. newest' = subject => newest = subject
    BY <1>a, PastGrows
<1>1. CASE Starts
  <2>1. /\ mpc' = mpc /\ subject' = subject /\ overtaken' = TRUE /\ supervised' = None
        /\ ~Undisturbed
      BY <1>1, StartFrame DEF Undisturbed
  <2>2. QED
      BY <1>a, <2>1 DEF Reliable
<1>2. CASE PauseResumeOrStop \/ Quiet
  <2>1. UNCHANGED <<overtaken, supervised, subject>>
      BY <1>2, EnterFrame, QuietFrame
  <2>2. Reliable
      BY <1>b, <2>1 DEF Reliable
  <2>3. ~Starts /\ ~RecordRun /\ ~RecordMission
    <3>1. CASE PauseResumeOrStop
      <4>1. op = "none" /\ op' \notin StartOps /\ pc = "idle"
          BY <3>1, EnterFrame DEF StartOps, CallInv
      <4>2. QED
          BY <4>1, StartFrame DEF RecordRun, RecordMission
    <3>2. CASE Quiet
      <4>1. pc \in {"prepare", "lease", "mode", "request", "release"} /\ pc # "idle"
          BY <3>2 DEF Quiet, PrepareMissionPlan, TakeControl, SetUserInteractionMode,
             RequestAnswered, RequestAnswerLost, RequestNotDone, ReleaseControl
      <4>2. QED
          BY <4>1, StartFrame DEF RecordRun, RecordMission, CallInv
    <3>3. QED
        BY <1>2, <3>1, <3>2
  <2>4. QED
      BY <2>2, <2>3
<1>3. CASE RecordRun \/ RecordMission
  <2>1. /\ subject' = subject /\ overtaken' = TRUE /\ op \in StartOps
        /\ supervised' \in {None, arg}
    <3>1. op \in StartOps /\ supervised = None
        BY <1>3 DEF RecordRun, RecordMission, CallInv
    <3>2. QED
        BY <1>3, <3>1, RecordFrame DEF RecordRun, RecordMission
  <2>2. QED
      BY <1>a, <2>1 DEF Reliable
<1>4. CASE RecordStop
  <2>1. subject' = subject /\ overtaken' = TRUE /\ supervised' = None /\ pc = "recordStop"
      BY <1>4, RecordFrame DEF RecordStop
  <2>2. Reliable
      BY <1>a, <2>1 DEF Reliable
  <2>3. QED
      BY <2>1, <2>2, StartFrame DEF RecordRun, RecordMission, CallInv
<1>5. CASE Environment \/ UNCHANGED vars
  <2>1. /\ UNCHANGED <<supervised, subject, op, pc>>
        /\ overtaken' = overtaken \/ overtaken' = TRUE
        /\ UNCHANGED <<currentIsar, requested>>
    <3>1. CASE Environment
        BY <1>a, <3>1, EnvironmentFrame
    <3>2. CASE UNCHANGED vars
        BY <3>2, StutterFrame
    <3>3. QED
        BY <1>5, <3>1, <3>2
  <2>2. Reliable
      BY <1>b, <2>1 DEF Reliable
  <2>3. ~Starts /\ ~RecordRun /\ ~RecordMission
      BY <2>1, StartFrame DEF RecordRun, RecordMission, GoTo, Leave, CallInv, StartOps
  <2>4. QED
      BY <2>2, <2>3
<1>6. QED
    BY <1>1, <1>2, <1>3, <1>4, <1>5, StepKinds

\* What the reads of the monitor thread have found stays about their mission,
\* whatever the other threads write between them.
LEMMA ReadInterference ==
    ASSUME TypeInv, CallInv, EventInv, PollInv, ReadInv, [Next]_vars, ~Monitoring
    PROVE  ReadInv'
<1>a. UNCHANGED <<mpc, kind, subject, storedRead, statusRead, valueRead>>
  <2>1. CASE Starts \/ PauseResumeOrStop \/ Quiet
      BY <2>1, StartFrame, EnterFrame, QuietFrame
  <2>2. CASE RecordRun \/ RecordMission \/ RecordStop
      BY <2>2, RecordFrame
  <2>3. CASE Environment \/ UNCHANGED vars
      BY <2>3, EnvironmentFrame, StutterFrame
  <2>4. QED
      BY <2>1, <2>2, <2>3, StepKinds
<1> SUFFICES ASSUME mpc # "idle", Reliable'
             PROVE  ReadInv'
    BY <1>a DEF ReadInv
<1>b. Reliable /\ ~Starts /\ ~RecordRun /\ ~RecordMission
    BY ReliableBefore
<1>c. /\ subject \in Missions /\ subject \in Runs /\ RunTypeOK /\ RunMoves
      /\ StreamTypeOK /\ None \notin Runs
    BY RunStep, MissionsAssumption DEF PollInv, Runs, TypeInv, TypeOK
<1>d. Passed(phase[subject]) \subseteq Passed(phase'[subject])
    BY <1>c, PastGrows
<1>e. /\ currentAnymal' \in {currentAnymal, None} /\ storedRunning' = storedRunning
      /\ lastEvent' = lastEvent \/ UpdateMissionEvent
  <2>1. CASE PauseResumeOrStop \/ Quiet
      BY <2>1, EnterFrame, QuietFrame
  <2>2. CASE RecordStop
      BY <2>2 DEF RecordStop
  <2>3. CASE Environment
    <3>1. lastEvent' = lastEvent \/ UpdateMissionEvent
        BY <2>3 DEF Environment, RunEnds, OperatorStartsRun, Publish, StreamBreaks,
           Subscribe
    <3>2. QED
        BY <2>3, <3>1, EnvironmentFrame
  <2>4. CASE UNCHANGED vars
      BY <2>4, StutterFrame
  <2>5. QED
      BY <1>b, <2>1, <2>2, <2>3, <2>4, StepKinds
<1>1. CASE lastEvent' = lastEvent
    BY <1>a, <1>b, <1>d, <1>e, <1>1 DEF ReadInv
<1>2. CASE UpdateMissionEvent
  <2>1. /\ inFlight # <<>> /\ lastEvent' = Head(inFlight)
        /\ overtaken' = TRUE /\ newest' = newest
      BY <1>2 DEF UpdateMissionEvent, Overtake, runVars
  <2>2. newest = subject
      BY <1>a, <2>1 DEF Reliable, PollInv
  <2>3. /\ 1 \in DOMAIN inFlight /\ lastEvent' = inFlight[1] /\ inFlight[1] \in Event
      BY <1>c, <2>1 DEF StreamTypeOK
  <2>4. Later(newest, lastEvent, lastEvent')
      BY <2>3 DEF EventInv
  <2>5. lastEvent' # NoEvent
      BY <1>c, <2>3 DEF Event, NoEvent
  <2>6. lastEvent.run = subject =>
            /\ lastEvent'.run = subject
            /\ lastEvent.phase \in EndedPhase => lastEvent'.phase \in EndedPhase
      BY <1>c, <2>2, <2>4 DEF Later
  <2>7. QED
      BY <1>a, <1>b, <1>d, <1>e, <2>5, <2>6 DEF ReadInv
<1>3. QED
    BY <1>e, <1>1, <1>2

\* Each read of the monitor thread adds a fact about its mission to those before.
LEMMA ReadProgress ==
    ASSUME TypeInv, CallInv, BookInv, EventInv, PollInv, ReadInv, Monitoring
    PROVE  ReadInv'
<1>a. /\ UNCHANGED <<currentAnymal, storedRunning, lastEvent, newest, phase>>
      /\ supervised \in Missions \union {None} /\ None \notin Runs
    BY MonitorFrame, MissionsAssumption DEF TypeInv, TypeOK, ReportTypeOK
<1>1. CASE PollMission \/ PollTask
  <2>1. /\ supervised # None /\ subject' = supervised
        /\ mpc' \in {"checkMission", "checkEvent"}
      BY <1>1 DEF PollMission, PollTask, Poll
  <2>2. currentAnymal = supervised /\ storedRunning = (supervised \in Stored)
      BY <2>1 DEF CallInv, BookInv
  <2>3. QED
      BY <1>a, <2>1, <2>2 DEF ReadInv
<1>2. CASE MonitorStep /\ \E value : Answer(value)
    BY <1>2 DEF Answer, ReadInv
<1>3. CASE MonitorStep /\ \E step \in Mpc \ {"idle"} : Proceed(step)
  <2>a. PICK step \in Mpc \ {"idle"} : Proceed(step)
      BY <1>3
  <2>b. mpc' = step /\ UNCHANGED <<subject, kind, supervised, overtaken>>
      BY <2>a DEF Proceed
  <2>c. mpc # "idle"
      BY <1>3 DEF MonitorStep, CheckMission, CheckEvent, ReadStoredFlag, ReadStatus,
         ReadSummaries, ReadOutcome, ReadHomeFlag, ReadTask, ClearHomeFlag
  <2> SUFFICES ASSUME Reliable' PROVE ReadInv'
      BY DEF ReadInv
  <2>d. Reliable
      BY <1>a, <2>b DEF Reliable
  <2>e. /\ subject \in Missions /\ subject \in Runs
        /\ currentAnymal' \in {subject', None} /\ storedRunning' = (subject' \in Stored)
      BY <1>a, <2>b, <2>c, <2>d DEF ReadInv, PollInv, Runs
  <2>f. ASSUME mpc \notin {"checkMission", "checkEvent"}
        PROVE  /\ lastEvent' # NoEvent /\ lastEvent'.run = subject'
               /\ lastEvent \in Event /\ lastEvent.run = subject
               /\ lastEvent.phase \in Passed(phase[subject]) /\ lastEvent.phase \in Phase
      BY <1>a, <2>b, <2>c, <2>d, <2>f DEF ReadInv, EventInv, Told, Event
  <2>1. CASE CheckMission
    <3>1. step = "checkEvent"
        BY <2>a, <2>1 DEF CheckMission, Answer, Proceed
    <3>2. QED
        BY <2>b, <2>e, <3>1 DEF ReadInv
  <2>2. CASE CheckEvent
    <3>1. /\ step \in {"readStored", "readHome"}
          /\ lastEvent # NoEvent /\ lastEvent.run = currentAnymal
        BY <2>a, <2>2 DEF CheckEvent, CurrentMissionEvent, Answer, Proceed
    <3>2. lastEvent.run \in Runs
        BY <3>1 DEF EventInv, Told, Event
    <3>3. lastEvent'.run = subject' /\ lastEvent' # NoEvent
        BY <1>a, <2>b, <2>e, <3>1, <3>2
    <3>4. QED
        BY <2>b, <2>e, <3>1, <3>3 DEF ReadInv
  <2>3. CASE ReadStoredFlag
    <3>1. step = "readStatus" /\ storedRead' = storedRunning /\ mpc = "readStored"
        BY <2>a, <2>3 DEF ReadStoredFlag, Proceed
    <3>2. QED
        BY <1>a, <2>b, <2>e, <2>f, <3>1 DEF ReadInv
  <2>4. CASE ReadStatus
    <3>1. /\ step = "readSummaries" /\ mpc = "readStatus" /\ statusRead' = "MS_COMPLETED"
          /\ storedRead' = storedRead /\ Body(lastEvent).status = "MS_COMPLETED"
        BY <2>a, <2>4 DEF ReadStatus, Answer, Proceed
    <3>2. lastEvent.phase \notin {"running", "paused"}
        BY <3>1 DEF Body
    <3>3. phase[subject] \in Phase
        BY <2>e DEF TypeInv, TypeOK, RunTypeOK
    <3>4. lastEvent.phase \in EndedPhase
        BY <2>f, <3>1, <3>2, <3>3, PassedFacts
    <3>5. storedRead = (subject \in Stored)
        BY <2>c, <2>d, <3>1 DEF ReadInv
    <3>6. QED
        BY <1>a, <2>b, <2>e, <2>f, <3>1, <3>4, <3>5 DEF ReadInv
  <2>5. CASE ReadSummaries
    <3>1. /\ step = "readOutcome" /\ mpc = "readSummaries" /\ storedRead
          /\ UNCHANGED <<storedRead, statusRead>>
        BY <2>a, <2>5 DEF ReadSummaries, MissionAnswer, Answer, Proceed
    <3>2. /\ storedRead = (subject \in Stored) /\ statusRead = "MS_COMPLETED"
          /\ lastEvent.phase \in EndedPhase
        BY <2>c, <2>d, <3>1 DEF ReadInv
    <3>3. QED
        BY <1>a, <2>b, <2>e, <2>f, <3>1, <3>2 DEF ReadInv
  <2>6. CASE ReadOutcome
      BY <2>a, <2>6 DEF ReadOutcome, MissionAnswer, Answer, Proceed
  <2>7. CASE ReadHomeFlag
    <3>1. step = "readTask" /\ mpc = "readHome"
        BY <2>a, <2>7 DEF ReadHomeFlag, Proceed
    <3>2. QED
        BY <2>b, <2>e, <2>f, <3>1 DEF ReadInv
  <2>8. CASE ReadTask
    <3> DEFINE value == TaskStatusIn(Body(lastEvent).summaries,
                                     IF homeRead THEN Dock ELSE IsarTask)
    <3>1. /\ step = "clearHome" /\ mpc = "readTask" /\ valueRead' = value
          /\ value \in {"Paused", "Successful", "Failed"}
        BY <2>a, <2>8 DEF ReadTask, Answer, Proceed
    <3>2. homeRead \in BOOLEAN
        BY DEF TypeInv, TypeOK, ReadTypeOK
    <3>3. value # TaskStatusError /\ value # "InProgress"
        BY <3>1 DEF TaskStatusError
    <3>4. /\ value = TrueStatus("task", subject, lastEvent.phase)
          /\ lastEvent.phase = "running" => value = "InProgress"
        BY <2>e, <2>f, <3>1, <3>2, <3>3, TaskTruth
    <3>5. lastEvent.phase \in Passed(phase'[subject']) \ {"running"}
        BY <1>a, <2>b, <2>f, <3>1, <3>3, <3>4
    <3> HIDE DEF value
    <3>6. QED
        BY <2>b, <2>e, <2>f, <3>1, <3>4, <3>5 DEF ReadInv
  <2>9. CASE ClearHomeFlag
      BY <2>a, <2>9 DEF ClearHomeFlag, Answer, Proceed
  <2>10. QED
      BY <1>3, <2>1, <2>2, <2>3, <2>4, <2>5, <2>6, <2>7, <2>8, <2>9 DEF MonitorStep
<1>4. QED
    BY <1>1, <1>2, <1>3, AnswerOrProceed DEF Monitoring

\* What has been answered stays true, and every further answer is.
LEMMA ReportStep ==
    ASSUME TypeInv, EventInv, PollInv, ReadInv, ReportInv, [Next]_vars
    PROVE  ReportInv'
<1>a. /\ RunTypeOK /\ RunMoves /\ report.mission \in Missions \union {None}
    BY RunStep DEF TypeInv, TypeOK, ReportTypeOK
<1>1. CASE report' = report
  <2>1. CASE report.mission = None
      BY <1>1, <2>1 DEF ReportInv, Honest
  <2>2. CASE report.mission \in Missions
    <3>1. Passed(phase[report.mission]) \subseteq Passed(phase'[report.mission])
        BY <1>a, <2>2, PastGrows DEF Runs
    <3>2. Honest(report) => Honest(report)'
        BY <1>1, <3>1 DEF Honest
    <3>3. QED
        BY <1>1, <3>2 DEF ReportInv
  <2>3. QED
      BY <1>a, <2>1, <2>2
<1>2. CASE PollMission \/ PollTask
    BY <1>2 DEF PollMission, PollTask, Poll, NoReport, ReportInv, Honest
<1>3. CASE MonitorStep /\ \E value : Answer(value)
  <2>1. PICK v : Answer(v)
      BY <1>3
  <2>2. /\ mpc # "idle" /\ mpc' = "idle" /\ report'.mission = subject
        /\ report'.overtaken = overtaken /\ UNCHANGED phase
    <3>1. mpc # "idle"
        BY <1>3 DEF MonitorStep, CheckMission, CheckEvent, ReadStoredFlag, ReadStatus,
           ReadSummaries, ReadOutcome, ReadHomeFlag, ReadTask, ClearHomeFlag
    <3>2. QED
        BY <1>3, <2>1, <3>1, MonitorFrame DEF Answer, Monitoring
  <2>3. report'.mission # None
      BY <2>2, MissionsAssumption DEF PollInv, Runs
  <2>4. ASSUME ~report'.overtaken \/ Undisturbed PROVE Honest(report)'
    <3>1. Reliable
        BY <2>2, <2>4 DEF Reliable
    <3>2. PICK value : Answer(value) /\ HonestValue(kind, subject, value)
        BY <1>3, <2>2, <3>1, AnswerIsHonest
    <3>3. report'.value = value /\ report'.kind = kind
        BY <3>2 DEF Answer
    <3>4. QED
        BY <2>2, <3>2, <3>3 DEF HonestValue, Honest
  <2>5. QED
      BY <2>3, <2>4 DEF ReportInv
<1>4. CASE MonitorStep /\ \E step \in Mpc \ {"idle"} : Proceed(step)
    BY <1>1, <1>4 DEF Proceed
<1>5. CASE ~Monitoring
  <2>1. report' = report
      BY <1>5, StepKinds, StartFrame, EnterFrame, QuietFrame, RecordFrame,
         EnvironmentFrame, StutterFrame
  <2>2. QED
      BY <1>1, <2>1
<1>6. QED
    BY <1>2, <1>3, <1>4, <1>5, AnswerOrProceed DEF Monitoring

-----------------------------------------------------------------------------
(* The invariant, and the theorems that follow from it.                    *)

ControlInv ==
    /\ TypeInv /\ CallInv /\ BookInv
    /\ EventInv /\ NewestInv /\ SupervisionInv
    /\ PollInv /\ ReadInv /\ ReportInv

\* Before the first call nothing is supervised, read or reported.
LEMMA ControlInit == Init => ControlInv
<1> SUFFICES ASSUME Init PROVE ControlInv
    OBVIOUS
<1>1. TypeInv
    BY TypeInit
<1>2. CallInv /\ BookInv /\ PollInv /\ ReadInv /\ ReportInv
    BY DEF Init, CallInv, BookInv, PollInv, ReadInv, ReportInv, StartOps, NoReport, Honest
<1>3. NewestInv /\ SupervisionInv
    BY MissionsAssumption
       DEF Init, NewestInv, SupervisionInv, Settling, GoesOn, StartOps, Runs
<1>4. EventInv
    BY DEF Init, EventInv, Told, Later
<1>5. QED
    BY <1>1, <1>2, <1>3, <1>4 DEF ControlInv

\* No step of any thread, of the robot or of its operator breaks it.
LEMMA ControlStep == ControlInv /\ [Next]_vars => ControlInv'
<1> SUFFICES ASSUME ControlInv, [Next]_vars PROVE ControlInv'
    OBVIOUS
<1> USE DEF ControlInv
<1>1. TypeInv'
    BY TypeStep
<1>2. CallInv' /\ BookInv'
    BY CallStep, BookStep
<1>3. EventInv' /\ NewestInv' /\ SupervisionInv'
    BY EventStep, NewestStep, SupervisionStep
<1>4. PollInv' /\ ReadInv' /\ ReportInv'
    BY PollStep, ReadProgress, ReadInterference, ReportStep
<1>5. QED
    BY <1>1, <1>2, <1>3, <1>4

\* So it always holds.
LEMMA ControlInvariant == Spec => []ControlInv
BY ControlInit, ControlStep, PTL DEF Spec

\* Whenever a call of Robot has returned a mission to ISAR's supervision, both of
\* its ids, the stored flag and the inspection queue are about that mission.
THEOREM BookkeepingIsConsistent == Spec => []BookkeepingMatches
<1>1. ControlInv => BookkeepingMatches
    BY DEF ControlInv, BookInv, BookkeepingMatches, StartOps
<1>2. QED
    BY ControlInvariant, <1>1, PTL

\* No run of ours goes on that ISAR neither supervises nor can stop, unless an
\* answer to its start, or to the release after it, was lost.
THEOREM RunsAreSupervised == Spec => []RunSupervised
<1>1. ControlInv => RunSupervised
  <2> SUFFICES ASSUME ControlInv, op = "none", newest \in Missions,
                      phase[newest] = "running", newest \notin lostRuns
               PROVE  supervised = newest /\ currentAnymal = newest
      BY DEF RunSupervised
  <2>1. supervised = newest
      BY DEF ControlInv, SupervisionInv, GoesOn, Settling, StartOps
  <2>2. QED
      BY <2>1, MissionsAssumption DEF ControlInv, BookInv, StartOps, Runs
<1>2. QED
    BY ControlInvariant, <1>1, PTL

\* A status is one the mission's own run has had, if no other thread replaced
\* what the call was reading.
THEOREM UndisturbedAnswersAreHonest == Spec => []HonestUnlessOvertaken
<1>1. ControlInv => HonestUnlessOvertaken
    BY DEF ControlInv, ReportInv, HonestUnlessOvertaken
<1>2. QED
    BY ControlInvariant, <1>1, PTL

\* Every status is, whatever it was overtaken by, when the robot has no other
\* client and ISAR's calls do not overlap.
THEOREM AnswersAreHonest ==
    ASSUME Foreign = {}, ~MonitorOverlapsStart
    PROVE  Spec => []StatusIsHonest
<1>1. ControlInv => StatusIsHonest
    BY DEF ControlInv, ReportInv, StatusIsHonest, Undisturbed
<1>2. QED
    BY ControlInvariant, <1>1, PTL

\* Under the same conditions no poll but one of the supervised mission home, that
\* saw its docking task paused or ended, drops the flag that asks for that task.
THEOREM HomeFlagIsKept ==
    ASSUME Foreign = {}, ~MonitorOverlapsStart
    PROVE  Spec => HomeFlagDropped
<1> DEFINE Drops ==
        homeRunning /\ ~homeRunning' /\ op = "none" /\ supervised \in Home
<1> DEFINE Kept ==
        /\ subject = supervised
        /\ \E ph \in Passed(phase[subject]) \ {"running"} :
               valueRead = TrueStatus("task", subject, ph)
<1>1. ControlInv /\ [Next]_vars => [Drops => Kept]_vars
  <2> SUFFICES ASSUME ControlInv, [Next]_vars, Drops PROVE Kept
      OBVIOUS
  <2>a. supervised # None /\ pc = "idle" /\ supervised \in Runs
      BY MissionsAssumption DEF ControlInv, CallInv, Missions, Runs
  <2>1. ClearHomeFlag
    <3>1. ~Starts
        BY <2>a, StartFrame
    <3>2. ~PauseResumeOrStop /\ ~Environment /\ ~(UNCHANGED vars)
        BY EnterFrame, EnvironmentFrame, StutterFrame
    <3>3. ~Quiet
        BY QuietFrame
    <3>4. ~RecordRun /\ ~RecordMission /\ ~RecordStop
        BY <2>a DEF RecordRun, RecordMission, RecordStop
    <3>5. Monitoring
        BY <3>1, <3>2, <3>3, <3>4, StepKinds
    <3>6. QED
        BY <3>5 DEF Monitoring, PollMission, PollTask, Poll, MonitorStep, CheckMission,
           CheckEvent, ReadStoredFlag, ReadStatus, ReadSummaries, ReadOutcome,
           ReadHomeFlag, ReadTask, robotVars
  <2>2. mpc = "clearHome" /\ Reliable
      BY <2>1 DEF ClearHomeFlag, Reliable, Undisturbed
  <2>3. subject = supervised
      BY <2>a, <2>2 DEF ControlInv, PollInv, Undisturbed
  <2>4. QED
      BY <2>2, <2>3 DEF ControlInv, ReadInv
<1>2. QED
    BY ControlInvariant, <1>1, PTL DEF Spec, HomeFlagDropped
=============================================================================
