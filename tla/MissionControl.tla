--------------------------- MODULE MissionControl ---------------------------
(***************************************************************************)
(* One ANYmal under the control of the plugin: Robot (robotinterface.py),  *)
(* the lease protocol of API and ANYmalAPI, MissionStatusHandler, and the  *)
(* mission-progress stream its SSE thread listens to.                      *)
(*                                                                         *)
(*   - the command thread of ISAR runs one call of Robot at a time:        *)
(*     initiate_mission, initiate_return_home, pause, resume or stop;      *)
(*   - the monitor thread polls mission_status and task_status, and reads  *)
(*     last_mission_event several times in one call;                       *)
(*   - the SSE thread writes last_mission_event, and after a reconnect the *)
(*     server replays the most recent event;                               *)
(*   - the robot, its lease service and its operator are the environment.  *)
(*                                                                         *)
(* Every request to the robot may be refused or lost, and its answer may   *)
(* be lost after the robot carried it out.  A mission is started at most   *)
(* once, so the run the robot creates for mission m is identified with m.  *)
(***************************************************************************)
EXTENDS MissionStatus

CONSTANTS
    Planned,      \* ISAR missions turned into an ad hoc plan of the robot
    Stored,       \* ISAR missions with a robot_mission_id
    Home,         \* return-to-home missions of ISAR
    Foreign,      \* runs an operator starts on the robot, not ISAR's
    None,         \* Python's None
    AutoDisableProtectiveStop,   \* settings.AUTO_DISABLE_PROTECTIVE_STOP
    MonitorOverlapsStart,        \* may a status read be in flight when ISAR
                                 \* starts its next mission?
    MaxCommands,  \* bound on the calls of ISAR's command thread
    MaxInFlight   \* bound on the events between the robot and the SSE thread

Missions == Planned \union Stored \union Home
Runs == Missions \union Foreign

ASSUME MissionsAssumption ==
    /\ Planned \intersect Stored = {}
    /\ Planned \intersect Home = {}
    /\ Stored \intersect Home = {}
    /\ Missions \intersect Foreign = {}
    /\ None \notin Runs

ASSUME SettingsAssumption ==
    /\ AutoDisableProtectiveStop \in BOOLEAN
    /\ MonitorOverlapsStart \in BOOLEAN

ASSUME BoundsAssumption == MaxCommands \in Nat /\ MaxInFlight \in Nat \ {0}

VARIABLES
    \* Robot
    currentAnymal,    \* current_anymal_mission_id
    currentIsar,      \* current_isar_mission_id
    homeRunning,      \* return_to_home_mission_running
    storedRunning,    \* stored_mission_running
    inspections,      \* missions in inspection_handler.missions_inspection_queue
    \* MissionStatusHandler
    lastEvent,        \* last_mission_event
    \* the call the command thread is in
    op, arg, job, pc, leaseId, failing, commands, requested,
    \* the call the monitor thread is in, and the last answer it got
    mpc, kind, subject, storedRead, homeRead, statusRead, valueRead, overtaken,
    report,
    supervised,       \* the mission ISAR believes is going on
    \* the robot, its lease service and its event stream
    lease, granted, newest, phase, latest, connected, inFlight,
    \* history: leases and runs the plugin cannot know of, for lack of an answer
    lostLeases, lostRuns

robotVars == <<currentAnymal, currentIsar, homeRunning, storedRunning, inspections>>
commandVars == <<op, arg, job, pc, leaseId, failing, commands, requested>>
readVars == <<kind, subject, storedRead, homeRead, statusRead, valueRead>>
leaseVars == <<lease, granted, lostLeases>>
runVars == <<newest, phase>>
streamVars == <<latest, connected, inFlight>>
vars == <<robotVars, lastEvent, commandVars, mpc, readVars, overtaken, report,
          supervised, leaseVars, runVars, streamVars, lostRuns>>

-----------------------------------------------------------------------------
(* What the robot says about its runs.                                     *)

Phase == {"unstarted", "running", "paused", "success", "failure", "dropped"}
EndedPhase == {"success", "failure"}
Event == [run: Runs, phase: Phase]
Dock == "dock"
IsarTask == "isar-task"
OperatorTask == "operator-task"

TaskInPhase(ph) ==
    CASE ph = "running" -> [status |-> "TS_ONGOING", outcome |-> "OC_NA"]
      [] ph = "paused"  -> [status |-> "TS_PREEMPTED", outcome |-> "OC_NA"]
      [] ph = "success" -> [status |-> "TS_COMPLETED", outcome |-> "OC_SUCCESS"]
      [] OTHER          -> [status |-> "TS_COMPLETED", outcome |-> "OC_FAILURE"]

SummaryOf(task, ph) ==
    [task |-> task, status |-> TaskInPhase(ph).status,
     outcome |-> TaskInPhase(ph).outcome]

\* The body of a mission-progress event: an ad hoc plan undocks and then
\* executes its task, a stored mission may have no summaries at all, and the
\* mission home is the docking task.  (MissionStatus covers every other body,
\* the one without a mission summary included.)
Body(e) ==
    [status    |-> CASE e.phase = "running" -> "MS_RUNNING"
                     [] e.phase = "paused"  -> "MS_PAUSED"
                     [] OTHER               -> "MS_COMPLETED",
     summaries |-> CASE e.run \in Stored -> <<>>
                     [] e.run \in Home   -> <<SummaryOf(Dock, e.phase)>>
                     [] e.run \in Planned -> <<SummaryOf(Undock, "success"),
                                                SummaryOf(IsarTask, e.phase)>>
                     [] OTHER -> <<SummaryOf(OperatorTask, e.phase)>>,
     outcome   |-> TaskInPhase(e.phase).outcome]

NoEvent == [run |-> None, phase |-> "unstarted"]
NoReport == [kind |-> "mission", mission |-> None, value |-> "NotStarted",
             overtaken |-> FALSE]

-----------------------------------------------------------------------------
Init ==
    /\ currentAnymal = None /\ currentIsar = None
    /\ homeRunning = FALSE /\ storedRunning = FALSE
    /\ inspections = {}
    /\ lastEvent = NoEvent
    /\ op = "none" /\ arg = None /\ job = "none" /\ pc = "idle"
    /\ leaseId = 0 /\ failing = FALSE /\ commands = 0 /\ requested = {}
    /\ mpc = "idle" /\ kind = "mission" /\ subject = None
    /\ storedRead = FALSE /\ homeRead = FALSE
    /\ statusRead = "none" /\ valueRead = "none"
    /\ overtaken = FALSE
    /\ report = NoReport
    /\ supervised = None
    /\ lease = 0 /\ granted = 0 /\ lostLeases = {}
    /\ newest = None /\ phase = [r \in Runs |-> "unstarted"]
    /\ latest = NoEvent /\ connected = FALSE /\ inFlight = <<>>
    /\ lostRuns = {}

-----------------------------------------------------------------------------
(* The command thread: entering a call, and leaving it.                    *)

\* A write to what a status read in flight has looked at, or will.
Overtake == overtaken' = (overtaken \/ mpc # "idle")

Enter(o, m, j, step) ==
    /\ op = "none" /\ commands < MaxCommands
    /\ op' = o /\ arg' = m /\ job' = j /\ pc' = step
    /\ failing' = FALSE
    /\ commands' = commands + 1

Leave ==
    /\ op' = "none" /\ arg' = None /\ job' = "none" /\ pc' = "idle"
    /\ leaseId' = 0 /\ failing' = FALSE
    /\ UNCHANGED <<commands, requested>>

\* The call raises: a RobotException reaches ISAR, which starts no supervision.
Raise == Leave /\ UNCHANGED supervised

GoTo(step) ==
    /\ pc' = step
    /\ UNCHANGED <<op, arg, job, leaseId, failing, commands, requested>>

FirstStep(m) ==
    [job |-> IF m \in Planned THEN "none"
             ELSE IF AutoDisableProtectiveStop THEN "disengage" ELSE "start",
     pc  |-> IF m \in Planned THEN "prepare" ELSE "lease"]

\* ISAR hands over its next mission once it believes the last one is over.
MayStart(m) ==
    /\ supervised = None
    /\ m \notin requested
    /\ MonitorOverlapsStart \/ mpc = "idle"

\* Mutant: initiate_mission forgets that a stored mission ran before.
InitiateMission_KeepsStoredFlag(m) ==
    /\ MayStart(m) /\ m \in Planned \union Stored
    /\ Enter("initiate", m, FirstStep(m).job, FirstStep(m).pc)
    /\ requested' = requested \union {m}
    /\ currentAnymal' = None /\ currentIsar' = None /\ lastEvent' = NoEvent
    /\ homeRunning' = FALSE
    /\ Overtake
    /\ UNCHANGED <<inspections, storedRunning, leaseId, mpc, readVars, report,
                   supervised, leaseVars, runVars, streamVars, lostRuns>>

\* Robot.initiate_mission up to its first request: the bookkeeping of the
\* previous mission is reset before anything can fail.
InitiateMission(m) ==
    /\ MayStart(m) /\ m \in Planned \union Stored
    /\ Enter("initiate", m, FirstStep(m).job, FirstStep(m).pc)
    /\ requested' = requested \union {m}
    /\ currentAnymal' = None /\ currentIsar' = None /\ lastEvent' = NoEvent
    /\ homeRunning' = FALSE /\ storedRunning' = FALSE
    /\ Overtake
    /\ UNCHANGED <<inspections, leaseId, mpc, readVars, report,
                   supervised, leaseVars, runVars, streamVars, lostRuns>>

\* Robot.initiate_return_home: only the event and the stored flag are reset.
InitiateReturnHome(m) ==
    /\ MayStart(m) /\ m \in Home
    /\ Enter("home", m, "dock", "lease")
    /\ requested' = requested \union {m}
    /\ lastEvent' = NoEvent /\ storedRunning' = FALSE
    /\ Overtake
    /\ UNCHANGED <<currentAnymal, currentIsar, homeRunning, inspections, leaseId,
                   mpc, readVars, report, supervised, leaseVars, runVars,
                   streamVars, lostRuns>>

\* Robot.pause, Robot.stop and Robot.resume on the mission ISAR supervises.
PauseResumeOrStop ==
    /\ supervised # None
    /\ \/ Enter("pause", None, "pause", "lease")
       \/ Enter("stop", None, "pause", "lease")
       \/ Enter("resume", None, "resume", "lease")
    /\ UNCHANGED <<requested, robotVars, lastEvent, leaseId, mpc, readVars,
                   overtaken, report, supervised, leaseVars, runVars, streamVars,
                   lostRuns>>

\* API.prepare_mission_plan; create_ad_hoc_inspections may return (None, None)
\* or raise, and initiate_mission raises in both cases.
PrepareMissionPlan ==
    /\ pc = "prepare"
    /\ \/ /\ pc' = "lease"
          /\ job' = IF AutoDisableProtectiveStop THEN "disengage" ELSE "start"
          /\ UNCHANGED <<op, arg, leaseId, failing, commands, requested, supervised>>
       \/ Raise
    /\ UNCHANGED <<robotVars, lastEvent, mpc, readVars, overtaken, report,
                   leaseVars, runVars, streamVars, lostRuns>>

-----------------------------------------------------------------------------
(* API: every request is made under a lease of its own -- take_control, try *)
(* the request, finally release_control.                                    *)

\* take_control: the lease is granted to us, or the call raises; when only the
\* answer is lost, nobody knows the id of the lease the robot now has out.
TakeControl ==
    /\ pc = "lease"
    /\ \/ /\ lease' = granted + 1 /\ granted' = granted + 1
          /\ leaseId' = granted + 1
          /\ pc' = IF job \in {"start", "dock"} THEN "mode" ELSE "request"
          /\ UNCHANGED <<op, arg, job, failing, commands, requested, supervised,
                         lostLeases>>
       \/ Raise /\ UNCHANGED leaseVars
       \/ /\ lease' = granted + 1 /\ granted' = granted + 1
          /\ lostLeases' = lostLeases \union {granted + 1}
          /\ Raise
    /\ UNCHANGED <<robotVars, lastEvent, mpc, readVars, overtaken, report,
                   runVars, streamVars, lostRuns>>

\* An exception inside the try block: the finally clause still releases.
FailInTry ==
    /\ pc' = "release" /\ failing' = TRUE
    /\ UNCHANGED <<op, arg, job, leaseId, commands, requested>>

\* set_user_interaction_mode(UIM_AUTONOMOUS), its query included.
SetUserInteractionMode ==
    /\ pc = "mode"
    /\ GoTo("request") \/ FailInTry
    /\ UNCHANGED <<robotVars, lastEvent, mpc, readVars, overtaken, report,
                   supervised, leaseVars, runVars, streamVars, lostRuns>>

\* The robot takes a new run unless one is executing; a paused run ends.
RobotStarts(r) ==
    /\ phase[r] = "unstarted"
    /\ \A q \in Runs : q = newest => phase[q] # "running"
    /\ newest' = r
    /\ phase' = [q \in Runs |->
                    CASE q = r -> "running"
                      [] q = newest /\ phase[q] = "paused" -> "dropped"
                      [] OTHER -> phase[q]]

\* A run uid of None is sent as the empty string, which names no run.
RobotTurns(from, to) ==
    /\ newest # None /\ phase[newest] = from
    /\ currentAnymal \in {None, newest}
    /\ phase' = [phase EXCEPT ![newest] = to]
    /\ UNCHANGED newest

\* What the robot does when it carries the request out.
CarryOut ==
    \/ job = "disengage" /\ UNCHANGED runVars
    \/ job \in {"start", "dock"} /\ RobotStarts(arg)
    \/ job = "pause" /\ RobotTurns("running", "paused")
    \/ job = "resume" /\ RobotTurns("paused", "running")

Starting == job \in {"start", "dock"}

\* The request is carried out and answered, carried out and the answer lost,
\* or not carried out (refused, or lost on its way).
RequestAnswered ==
    /\ pc = "request"
    /\ CarryOut
    /\ GoTo("release")
    /\ UNCHANGED <<robotVars, lastEvent, mpc, readVars, overtaken, report,
                   supervised, leaseVars, streamVars, lostRuns>>

RequestAnswerLost ==
    /\ pc = "request"
    /\ CarryOut
    /\ FailInTry
    /\ lostRuns' = IF Starting THEN lostRuns \union {arg} ELSE lostRuns
    /\ UNCHANGED <<robotVars, lastEvent, mpc, readVars, overtaken, report,
                   supervised, leaseVars, streamVars>>

\* Mutant: control is released only after a request that succeeded.
RequestNotDone_NoFinally ==
    /\ pc = "request"
    /\ Raise
    /\ UNCHANGED <<robotVars, lastEvent, mpc, readVars, overtaken, report,
                   leaseVars, runVars, streamVars, lostRuns>>

\* Mutant: Robot.stop forgets the run whether or not it was paused.
RequestNotDone_StopForgets ==
    /\ pc = "request"
    /\ FailInTry
    /\ currentAnymal' = IF op = "stop" THEN None ELSE currentAnymal
    /\ UNCHANGED <<currentIsar, homeRunning, storedRunning, inspections,
                   lastEvent, mpc, readVars, overtaken, report, supervised,
                   leaseVars, runVars, streamVars, lostRuns>>

RequestNotDone ==
    /\ pc = "request"
    /\ FailInTry
    /\ UNCHANGED <<robotVars, lastEvent, mpc, readVars, overtaken, report,
                   supervised, leaseVars, runVars, streamVars, lostRuns>>

\* What follows a lease that was released in good order.
AfterRelease ==
    /\ \/ /\ job = "disengage"
          /\ job' = "start" /\ pc' = "lease" /\ leaseId' = 0
          /\ UNCHANGED <<op, arg, failing, commands, requested>>
       \/ Starting /\ GoTo("recordRun")
       \/ op = "stop" /\ GoTo("recordStop")
       \/ op \in {"pause", "resume"} /\ Leave
    /\ UNCHANGED supervised

\* release_control.  An exception of the release replaces the result of the
\* request, so a run that was started is never recorded.
ReleaseControl ==
    /\ pc = "release"
    /\ \/ /\ lease' = 0
          /\ IF failing THEN Raise ELSE AfterRelease
          /\ UNCHANGED <<granted, lostLeases, lostRuns>>
       \/ /\ \/ lease' = 0 /\ UNCHANGED lostLeases
             \/ UNCHANGED lease /\ lostLeases' = lostLeases \union {leaseId}
          /\ lostRuns' = IF Starting /\ ~failing THEN lostRuns \union {arg}
                                                ELSE lostRuns
          /\ Raise
          /\ UNCHANGED granted
    /\ UNCHANGED <<robotVars, lastEvent, mpc, readVars, overtaken, report,
                   runVars, streamVars>>

-----------------------------------------------------------------------------
(* Robot's bookkeeping after a successful request.                         *)

\* Mutant: the id of the lease is taken for the id of the run.
RecordRun_LeaseForRun ==
    /\ pc = "recordRun"
    /\ currentAnymal' = leaseId
    /\ GoTo("recordMission")
    /\ Overtake
    /\ UNCHANGED <<currentIsar, homeRunning, storedRunning, inspections,
                   lastEvent, mpc, readVars, report, supervised, leaseVars,
                   runVars, streamVars, lostRuns>>

RecordRun ==
    /\ pc = "recordRun"
    /\ currentAnymal' = arg
    /\ GoTo("recordMission")
    /\ Overtake
    /\ UNCHANGED <<currentIsar, homeRunning, storedRunning, inspections,
                   lastEvent, mpc, readVars, report, supervised, leaseVars,
                   runVars, streamVars, lostRuns>>

\* Mutant: the event of the previous mission is discarded only now.
RecordMission_LateReset ==
    /\ pc = "recordMission"
    /\ currentIsar' = arg /\ lastEvent' = NoEvent
    /\ homeRunning' = (homeRunning \/ op = "home")
    /\ storedRunning' = (storedRunning \/ arg \in Stored)
    /\ inspections' = inspections \union ({arg} \intersect Planned)
    /\ supervised' = arg
    /\ Leave /\ Overtake
    /\ UNCHANGED <<currentAnymal, mpc, readVars, report, leaseVars, runVars,
                   streamVars, lostRuns>>

\* The call returns, and ISAR supervises the mission from here on.
RecordMission ==
    /\ pc = "recordMission"
    /\ currentIsar' = arg
    /\ homeRunning' = (homeRunning \/ op = "home")
    /\ storedRunning' = (storedRunning \/ arg \in Stored)
    /\ inspections' = inspections \union ({arg} \intersect Planned)
    /\ supervised' = arg
    /\ Leave /\ Overtake
    /\ UNCHANGED <<currentAnymal, lastEvent, mpc, readVars, report, leaseVars,
                   runVars, streamVars, lostRuns>>

\* Robot.stop: the run is forgotten once it is paused.
RecordStop ==
    /\ pc = "recordStop"
    /\ homeRunning' = FALSE
    /\ currentAnymal' = None
    /\ supervised' = None
    /\ Leave /\ Overtake
    /\ UNCHANGED <<currentIsar, storedRunning, inspections, lastEvent, mpc,
                   readVars, report, leaseVars, runVars, streamVars, lostRuns>>

CommandStep ==
    \/ PrepareMissionPlan
    \/ TakeControl \/ SetUserInteractionMode
    \/ RequestAnswered \/ RequestAnswerLost \/ RequestNotDone
    \/ ReleaseControl
    \/ RecordRun \/ RecordMission \/ RecordStop

-----------------------------------------------------------------------------
(* The monitor thread: one status call, one read of shared state per step. *)

\* RobotException: ISAR logs it and polls again.
Raised == "raised"

Answer(value) ==
    /\ mpc' = "idle"
    /\ report' = [kind |-> kind, mission |-> subject, value |-> value,
                  overtaken |-> overtaken]
    /\ supervised' = IF kind = "mission" /\ value \in Finished /\ supervised = subject
                     THEN None ELSE supervised
    /\ subject' = None /\ overtaken' = FALSE
    /\ storedRead' = FALSE /\ homeRead' = FALSE
    /\ statusRead' = "none" /\ valueRead' = "none"
    /\ UNCHANGED kind

\* A read of the call that is not its last.
Proceed(step) ==
    /\ mpc' = step
    /\ UNCHANGED <<report, supervised, overtaken, kind, subject>>

MonitorOnly == UNCHANGED <<commandVars, leaseVars, runVars, streamVars, lostRuns>>

Poll(k, step) ==
    /\ mpc = "idle" /\ supervised # None
    /\ mpc' = step /\ kind' = k /\ subject' = supervised
    /\ overtaken' = FALSE /\ report' = NoReport
    /\ UNCHANGED <<robotVars, lastEvent, supervised, storedRead, homeRead,
                   statusRead, valueRead>>
    /\ MonitorOnly

PollMission == Poll("mission", "checkMission")

\* A stored mission has no ISAR tasks to ask for.
PollTask == supervised \notin Stored /\ Poll("task", "checkEvent")

\* _mission_status: is the mission asked for the current one?
CheckMission ==
    /\ mpc = "checkMission"
    /\ IF currentIsar # subject
       THEN Answer(Raised)
       ELSE Proceed("checkEvent")
            /\ UNCHANGED <<storedRead, homeRead, statusRead, valueRead>>
    /\ UNCHANGED <<robotVars, lastEvent>> /\ MonitorOnly

\* Mutant: the run an event belongs to is not compared.
CurrentMissionEvent_AnyRun == lastEvent

\* _current_mission_event
CurrentMissionEvent ==
    IF lastEvent.run = currentAnymal THEN lastEvent ELSE NoEvent

CheckEvent ==
    /\ mpc = "checkEvent"
    /\ IF CurrentMissionEvent = NoEvent
       THEN Answer("NotStarted")
       ELSE Proceed(IF kind = "mission" THEN "readStored" ELSE "readHome")
            /\ UNCHANGED <<storedRead, homeRead, statusRead, valueRead>>
    /\ UNCHANGED <<robotVars, lastEvent>> /\ MonitorOnly

\* _mission_status chooses the mapping by stored_mission_running.
ReadStoredFlag ==
    /\ mpc = "readStored"
    /\ storedRead' = storedRunning
    /\ Proceed("readStatus")
    /\ UNCHANGED <<robotVars, lastEvent, homeRead, statusRead, valueRead>>
    /\ MonitorOnly

\* get_mission_status, first read.  The event may be reset before the None
\* check (not started) or right after it (AttributeError, turned into a
\* RobotMissionStatusException).
ReadStatus ==
    /\ mpc = "readStatus"
    /\ IF lastEvent = NoEvent
       THEN Answer("NotStarted") \/ Answer(Raised)
       ELSE IF Body(lastEvent).status = "MS_COMPLETED"
            THEN /\ statusRead' = "MS_COMPLETED"
                 /\ Proceed("readSummaries")
                 /\ UNCHANGED <<storedRead, homeRead, valueRead>>
            ELSE Answer(StatusOfEvent(Body(lastEvent), storedRead))
    /\ UNCHANGED <<robotVars, lastEvent>> /\ MonitorOnly

MissionAnswer(status) ==
    Answer(IF status = MissionStatusError THEN Raised
           ELSE ReportedStatus(status, storedRead))

\* get_mission_status, second read: the summaries, which may be another event's.
ReadSummaries ==
    /\ mpc = "readSummaries"
    /\ IF lastEvent = NoEvent THEN Answer(Raised)
       ELSE IF storedRead /\ Body(lastEvent).summaries = <<>>
       THEN /\ Proceed("readOutcome")
            /\ UNCHANGED <<storedRead, homeRead, statusRead, valueRead>>
       ELSE MissionAnswer(MissionStatusFrom(statusRead, Body(lastEvent).summaries,
                                            "OC_NA", storedRead))
    /\ UNCHANGED <<robotVars, lastEvent>> /\ MonitorOnly

\* get_mission_status, third read: the outcome of a stored mission.
ReadOutcome ==
    /\ mpc = "readOutcome"
    /\ IF lastEvent = NoEvent THEN Answer(Raised)
       ELSE MissionAnswer(StoredVerdict(statusRead, Body(lastEvent).outcome))
    /\ UNCHANGED <<robotVars, lastEvent>> /\ MonitorOnly

\* _task_status asks for the docking task while a mission home is running.
ReadHomeFlag ==
    /\ mpc = "readHome"
    /\ homeRead' = homeRunning
    /\ Proceed("readTask")
    /\ UNCHANGED <<robotVars, lastEvent, storedRead, statusRead, valueRead>>
    /\ MonitorOnly

\* Mutant: only a task that has not started keeps the mission home going.
ReadTask_DropsInProgress ==
    /\ mpc = "readTask"
    /\ IF lastEvent = NoEvent THEN Answer(Raised)
       ELSE LET value == TaskStatusIn(Body(lastEvent).summaries,
                                      IF homeRead THEN Dock ELSE IsarTask)
            IN  \/ value = TaskStatusError /\ Answer(Raised)
                \/ value = "NotStarted" /\ Answer(value)
                \/ /\ value \notin {TaskStatusError, "NotStarted"}
                   /\ valueRead' = value
                   /\ Proceed("clearHome")
                   /\ UNCHANGED <<storedRead, homeRead, statusRead>>
    /\ UNCHANGED <<robotVars, lastEvent>> /\ MonitorOnly

ReadTask ==
    /\ mpc = "readTask"
    /\ IF lastEvent = NoEvent THEN Answer(Raised)
       ELSE LET value == TaskStatusIn(Body(lastEvent).summaries,
                                      IF homeRead THEN Dock ELSE IsarTask)
            IN  \/ value = TaskStatusError /\ Answer(Raised)
                \/ value \in {"NotStarted", "InProgress"} /\ Answer(value)
                \/ /\ value \in {"Paused", "Successful", "Failed"}
                   /\ valueRead' = value
                   /\ Proceed("clearHome")
                   /\ UNCHANGED <<storedRead, homeRead, statusRead>>
    /\ UNCHANGED <<robotVars, lastEvent>> /\ MonitorOnly

\* A task that is neither waiting nor going on ends the mission home.
ClearHomeFlag ==
    /\ mpc = "clearHome"
    /\ homeRunning' = FALSE
    /\ Answer(valueRead)
    /\ UNCHANGED <<currentAnymal, currentIsar, storedRunning, inspections, lastEvent>>
    /\ MonitorOnly

MonitorStep ==
    \/ CheckMission \/ CheckEvent
    \/ ReadStoredFlag \/ ReadStatus \/ ReadSummaries \/ ReadOutcome
    \/ ReadHomeFlag \/ ReadTask \/ ClearHomeFlag

-----------------------------------------------------------------------------
(* The robot, its operator, and the mission-progress stream.               *)

PluginIdle == UNCHANGED <<robotVars, commandVars, mpc, readVars, report, supervised,
                          lostRuns>>

RunEnds ==
    /\ newest # None /\ phase[newest] = "running"
    /\ \E ph \in EndedPhase : phase' = [phase EXCEPT ![newest] = ph]
    /\ PluginIdle
    /\ UNCHANGED <<newest, lastEvent, overtaken, leaseVars, streamVars>>

OperatorStartsRun(r) ==
    /\ lease = 0
    /\ RobotStarts(r)
    /\ PluginIdle
    /\ UNCHANGED <<lastEvent, overtaken, leaseVars, streamVars>>

\* The robot publishes where its newest run is; only a connected client hears.
Publish ==
    LET e == [run |-> newest, phase |-> phase[newest]]
    IN  /\ newest # None
        /\ e # latest
        /\ latest' = e
        /\ IF connected
           THEN Len(inFlight) < MaxInFlight /\ inFlight' = Append(inFlight, e)
           ELSE UNCHANGED inFlight
        /\ PluginIdle
        /\ UNCHANGED <<connected, lastEvent, overtaken, leaseVars, runVars>>

\* The stream ends, times out or is cut; what was under way on it is gone.
StreamBreaks ==
    /\ connected
    /\ connected' = FALSE /\ inFlight' = <<>>
    /\ PluginIdle
    /\ UNCHANGED <<latest, lastEvent, overtaken, leaseVars, runVars>>

\* Every subscribe replays the most recent event.
Subscribe ==
    /\ ~connected
    /\ connected' = TRUE
    /\ inFlight' = IF latest = NoEvent THEN <<>> ELSE <<latest>>
    /\ PluginIdle
    /\ UNCHANGED <<latest, lastEvent, overtaken, leaseVars, runVars>>

\* MissionStatusHandler.update_mission_event_callback
UpdateMissionEvent ==
    /\ inFlight # <<>>
    /\ lastEvent' = Head(inFlight)
    /\ inFlight' = Tail(inFlight)
    /\ Overtake
    /\ PluginIdle
    /\ UNCHANGED <<latest, connected, leaseVars, runVars>>

Next ==
    \/ \E m \in Missions : InitiateMission(m) \/ InitiateReturnHome(m)
    \/ PauseResumeOrStop
    \/ CommandStep
    \/ PollMission \/ PollTask
    \/ MonitorStep
    \/ RunEnds
    \/ \E r \in Foreign : OperatorStartsRun(r)
    \/ Publish \/ StreamBreaks \/ Subscribe \/ UpdateMissionEvent

Spec == Init /\ [][Next]_vars

\* Requests have timeouts, so a call of either thread goes on; ISAR's monitor
\* loop keeps polling the mission it supervises; the SSE thread reconnects for
\* ever, and not every connection breaks before its first event.
Fairness ==
    /\ WF_vars(CommandStep)
    /\ SF_vars(PollMission) /\ WF_vars(MonitorStep)
    /\ WF_vars(Publish) /\ WF_vars(Subscribe) /\ SF_vars(UpdateMissionEvent)

FairSpec == Spec /\ Fairness

-----------------------------------------------------------------------------
(* Properties.                                                             *)

Pc == {"idle", "prepare", "lease", "mode", "request", "release", "recordRun",
       "recordMission", "recordStop"}
Mpc == {"idle", "checkMission", "checkEvent", "readStored", "readStatus",
        "readSummaries", "readOutcome", "readHome", "readTask", "clearHome"}
Answers == IsarMissionStatus \union {Raised}

RobotTypeOK ==
    /\ currentAnymal \in Missions \union {None}
    /\ currentIsar \in Missions \union {None}
    /\ homeRunning \in BOOLEAN
    /\ storedRunning \in BOOLEAN
    /\ inspections \subseteq Planned

CommandTypeOK ==
    /\ op \in {"none", "initiate", "home", "pause", "resume", "stop"}
    /\ arg \in Missions \union {None}
    /\ job \in {"none", "disengage", "start", "dock", "pause", "resume"}
    /\ pc \in Pc
    /\ leaseId \in Nat
    /\ failing \in BOOLEAN
    /\ commands \in Nat
    /\ requested \subseteq Missions

ReadTypeOK ==
    /\ mpc \in Mpc
    /\ kind \in {"mission", "task"}
    /\ subject \in Missions \union {None}
    /\ storedRead \in BOOLEAN
    /\ homeRead \in BOOLEAN
    /\ statusRead \in {"none", "MS_COMPLETED"}
    /\ valueRead \in IsarTaskStatus \union {"none"}

ReportTypeOK ==
    /\ report \in [kind: {"mission", "task"}, mission: Missions \union {None},
                   value: Answers, overtaken: BOOLEAN]
    /\ supervised \in Missions \union {None}

LeaseTypeOK == lease \in Nat /\ granted \in Nat /\ lostLeases \subseteq Nat

RunTypeOK == newest \in Runs \union {None} /\ phase \in [Runs -> Phase]

StreamTypeOK ==
    /\ lastEvent \in Event \union {NoEvent}
    /\ latest \in Event \union {NoEvent}
    /\ connected \in BOOLEAN
    /\ inFlight \in Seq(Event)

\* Type invariant: every variable holds a value of the kind the code gives it;
\* in particular the mission ids are None or ids that were handed out.
TypeOK ==
    /\ RobotTypeOK /\ CommandTypeOK /\ ReadTypeOK /\ ReportTypeOK
    /\ LeaseTypeOK /\ RunTypeOK /\ StreamTypeOK
    /\ overtaken \in BOOLEAN
    /\ lostRuns \subseteq Missions

\* Control is never kept by accident: between calls the robot has no lease out,
\* except one whose grant was never answered or whose release never got through
\* (the finally clauses of API).
LeaseReturned == op = "none" /\ lease # 0 => lease \in lostLeases

\* When a call of Robot has returned a mission to ISAR's supervision, all of the
\* bookkeeping is about that mission: both ids, the stored flag that selects the
\* status mapping, and the queue its inspections are looked up in.
BookkeepingMatches ==
    op = "none" /\ supervised # None =>
        /\ currentIsar = supervised /\ currentAnymal = supervised
        /\ storedRunning = (supervised \in Stored)
        /\ supervised \in inspections <=> supervised \in Planned

\* The robot executes no run of ours behind ISAR's back: between calls a running
\* mission is supervised and its id is known, so that it can be stopped, unless
\* the answer to its start, or the release after it, was lost.
RunSupervised ==
    LET m == newest
    IN  op = "none" /\ m \in Missions /\ phase[m] = "running" =>
            (supervised = m /\ currentAnymal = m) \/ m \in lostRuns

\* The phases a run that is now in phase ph may have gone through.
Passed(ph) ==
    CASE ph = "unstarted" -> {}
      [] ph \in EndedPhase -> {"running", "paused", ph}
      [] OTHER -> {"running", "paused"}

TrueStatus(k, m, ph) ==
    LET body == Body([run |-> m, phase |-> ph])
    IN  IF k = "mission" THEN StatusOfEvent(body, m \in Stored)
        ELSE TaskStatusIn(body.summaries, IF m \in Home THEN Dock ELSE IsarTask)

Honest(r) ==
    \/ r.value \in {"NotStarted", Raised}
    \/ \E ph \in Passed(phase[r.mission]) :
           r.value = TrueStatus(r.kind, r.mission, ph)

\* A status reported for a mission is one that mission's own run has had: not
\* the outcome of another run, not a mix of two (the promise of
\* Robot._current_mission_event).
StatusIsHonest == Honest(report)

\* The same promise for every call during which no other thread replaced what
\* the call was reading.
HonestUnlessOvertaken == ~report.overtaken => Honest(report)

\* While a mission home is supervised, the flag that makes task_status ask for
\* the docking task is dropped by no poll except one of that mission, which saw
\* its docking task paused or ended; any other loss would leave ISAR asking the
\* robot for a task it does not have.
HomeFlagDropped ==
    [][ homeRunning /\ ~homeRunning' /\ op = "none" /\ supervised \in Home =>
            /\ subject = supervised
            /\ \E ph \in Passed(phase[subject]) \ {"running"} :
                   valueRead = TrueStatus("task", subject, ph) ]_vars

\* The end of a run gets through: when the run of the supervised mission has
\* ended, ISAR learns it and its supervision ends, however often the event
\* stream breaks and whenever the answer to the start arrives.
FinishedRunIsReported ==
    \A m \in Missions :
        (supervised = m /\ phase[m] \in EndedPhase) ~> (supervised # m)
=============================================================================
