# Verification of isar-anymal

isar-anymal is the plugin through which ISAR runs inspection missions on an
ANYmal robot. This directory holds TLA+ models of the parts in which its
mistakes would be hard to see and hard to test, the TLC runs that check them,
and TLAPS proofs of the results that matter most. `PROJECT.json` is the machine
readable index: components, runs, mutants, findings, hazards, theorems, and for
each definition the lines of code it stands for.

    tlc -workers 2 -config MissionControl.cfg MissionControl
    tlapm MissionControlProofs.tla

## 1. The system

| Component | State | Operations | Works with |
|---|---|---|---|
| `Robot` (robotinterface.py) | `current_anymal_mission_id`, `current_isar_mission_id`, `return_to_home_mission_running`, `stored_mission_running` | `initiate_mission`, `initiate_return_home`, `pause`, `resume`, `stop`, `task_status`, `mission_status` | called by ISAR's threads; calls `API`; fills the queues of `InspectionHandler` |
| `API`, `ANYmalAPI` (robot/api) | none of their own; the lease is the robot's | take and release control, start, dock, pause, resume, disengage | REST requests that can fail before or after they take effect |
| `MissionStatusHandler` | `last_mission_event` | replace it; derive task and mission status from it | written by an SSE thread, read by ISAR's |
| `SSEHandler` | the listener thread, the reconnect delay | subscribe, read, call back, reconnect for ever | one per event stream |
| `InspectionHandler` | `inspections_queue`, `missions_inspection_queue` (bounded deques without a lock) | match an event with task and mission, fetch the file, deliver, remove | filled by ISAR's thread, read and emptied by an SSE thread |
| `AnymalMissionRecorder`, `SessionFinalizer` | sessions (memory and `session.json`), workers, footage files | start, stop, capture, finalize, maintain, shut down, recover | one asyncio loop; ISAR's publisher; LiveKit; ffmpeg |
| `ANYmalADSFileTransfer`, mission and environment templates, ads-api | `environment_cleaned`; files on the robot | fetch and clean the environment, add objects, write environment and mission | ads-api service, robot |
| `capture_livekit` (livekit_capture.py) | one task and encoder per track, keep-alive task, failure future, last frame times | subscribe, encode, monitor, cancel, disconnect | run by a capture worker; room callbacks; encoding threads |
| Battery, control, pose and main-body handlers | last telemetry values | replace them, read them | SSE threads; ISAR; metrics |
| `MediaStream` | one keep-alive thread, a lock | activate, recover, expire | media configuration requests; LiveKit capture |
| `RequestHandler` | bearer token and its expiry | log in, request | shared by threads |

What makes the system hard: three kinds of threads share plain attributes and
deques without locks (ISAR's command thread, its monitor thread, one SSE thread
per stream), the media worker comes on top of them, and all of them share one
token; every request can be lost together with its answer or with the
answer alone; event streams break, lose what was on them and replay their last
event; the recorder and the file transfer have work that a crash can interrupt
at any point and that must not be lost or done twice.

What makes the components correct:

- *Robot/API*: control of the robot is always given back; no run of ours drives
  on without supervision; the bookkeeping is about the mission ISAR supervises;
  a reported status is one that this very run has had; the end of a run reaches
  ISAR.
- *MissionStatusHandler*: the two statuses ISAR polls agree with each other, and
  every input is a status or a `RobotException`.
- *InspectionHandler*: a result goes to the mission whose run made it, remains
  pending until it is delivered, is delivered once; no event stops the listener.
- *Recorder*: one finalizer per session; footage is kept until its fate is on
  disk; one attempt per camera over all restarts; every session gets a verdict
  that the catalogue shows in the end.
- *Capture*: no segment after the stop and no return before it; an encoder is
  closed, and not under a thread that writes to it; silence, loss and stop end
  the capture.
- *Telemetry*: what ISAR is answered was said by the robot during the call or
  just before it, although it is written and read in pieces; an engaged
  protective stop is never hidden; values follow the robot again after anything
  a stream can do.
- *MediaStream*: one worker; it gives up a recovery window after its last
  success and no earlier; the cameras are active again once the service works.
- *RequestHandler*: no request leaves with an expired token.
- *Mission plan*: the plant's own files survive; a plan is started only when the
  robot has all it needs; every task is tried.

`hazards` in PROJECT.json lists, line by line, where this can go wrong.

## 2. Modules

| Module | Models | Built on |
|---|---|---|
| `MissionStatus` | the mapping of mission_status_handler.py as operators | - |
| `MCMissionStatus` | every event body up to a size, one state each | `MissionStatus` |
| `MissionStatusProofs` | theorems | `MCMissionStatus` |
| `MissionControl` | `Robot`, `API`, the lease, the monitor thread, the mission-progress stream | `MissionStatus` |
| `MissionControlProofs` | theorems | `MissionControl` |
| `RecordingArchive` | abstract: what recordings promise | - |
| `MissionRecorder` | mission_recorder.py, session_finalizer.py | implements `RecordingArchive` |
| `MissionRecorderProofs` | theorems, the refinement included | `MissionRecorder` |
| `InspectionHandler` | the queueing in `initiate_mission`, inspection_handler.py, the stream it listens to | - |
| `InspectionHandlerProofs` | theorems | `InspectionHandler` |
| `CaptureContract` | abstract: what the recorder relies on when it runs a capture | - |
| `LiveKitCapture` | livekit_capture.py | implements `CaptureContract` |
| `LiveKitCaptureProofs` | theorems, the refinement included | `LiveKitCapture` |
| `RobotTelemetry` | battery and control-status handlers, `get_robot_status`, the battery telemetry | - |
| `RobotTelemetryProofs` | theorems | `RobotTelemetry` |
| `RequestHandler` | request_handler.py: the token | - |
| `MediaStream` | media_stream.py, `generate_media_config` | `RequestHandler` |
| `MediaStreamProofs` | theorems | `MediaStream` |
| `MissionPlan` | preparation, transfer and run of an ad hoc plan | - |
| `MCMissionPlan` | missions and a plant for TLC | `MissionPlan` |
| `MissionPlanProofs` | theorems | `MissionPlan` |

Definitions whose name ends in an underscore and a word (`Verdict_AnySuccess`)
are mutants: the definition of the same name with a plausible mistake. Each
checked property is violated when the mutant PROJECT.json pairs it with takes
the place of the definition, which shows that the property depends on the code
being right there.

### MissionStatus, MissionControl

`MissionStatus` translates `get_task_status`, `get_mission_status` and the
remapping of stored missions in `_mission_status`. Exceptions are values. An
event may carry no mission summary (`NoSummary`), which the handler reads without
a check: the resulting `AttributeError` is what `Guarded`, the outer `try` of
`task_status` and `mission_status`, turns into a `RobotException`. The agreement of
the two views says also when a mission that the robot does not call running may
be reported waiting or going on: if one of its tasks is, and in one more case,
an ad hoc mission that completed without any task summary, which the code
reports as not started (`all` of an empty list) and about which nothing in the
repository says otherwise.

`MissionControl` has two program counters. `pc` walks the command thread through
one call of `Robot`: the reset of the bookkeeping, the preparation (which may
fail), then for each request *lease - (mode) - request - release* as `API` does
it with its `finally`, then the assignments behind the call. A step is what
happens between two points where another thread or the robot can interfere;
`initiate_return_home` therefore sets the ANYmal id and the ISAR id in two
steps (`RecordRun`, `RecordMission`). `mpc` walks the monitor thread through
`mission_status` and `task_status`, one read of shared state per step, because
the handler reads `last_mission_event` anew for the status, the summaries and
the outcome. `report` is the last answer, `overtaken` a history bit: some other
thread replaced what the call was reading. The environment is the robot
(`newest`, `phase` of each run), its operator, the lease service and the event
stream, which replays its last event on every subscription. `supervised` is
ISAR's view: a mission is supervised from the return of the call that started it
until a final status was reported for it or it was stopped. `lostLeases` and
`lostRuns` record which leases and runs the plugin was never told of.
`RunSupervised` exempts the latter, because the code has no way to learn the id of
such a run; that its events are not taken for those of another mission is what
the properties about honest answers say.

### MissionRecorder, RecordingArchive

Sessions live in memory and, written atomically after every change, in
`session.json`; as the two agree between steps, one set of variables stands for
both, and a crash (`ProcessEnds`) resets everything else. `worker` is where the
capture worker of each mission is, `stage` where each *runner* of
`finalize_session` is: a worker for its own mission, or the maintenance task for
the session it is at (`current`). The finalizer's awaits are the boundaries of
its steps, with more where a crash could tell the difference: between the
storing of a video and the answer (`stored`), and between the removal of one
file and the next. `snapshot` is the session as it was when `publish_session`
was called; it arrives later. What a capture does to a session (`OpenSegment`,
`CaptureFails`, its return after the stop) is what `CaptureContract` allows,
segments opened after a failure included.

`RecordingArchive` says what all this is for, in three variables: a fate
per camera, a verdict per mission, a count of stored videos. `Promise` is its
instance with `fate` and `verdict` computed from what is on disk, and the run
`recorder` checks `Promise!Spec` as a property.

### InspectionHandler

`caller` is `initiate_mission` from the start of the run to the end of the
queueing, `at` the listener between two accesses to shared state. `view` is a
deque as it was when an iteration or a removal began: an iteration over a
changed deque raises `RuntimeError`, `remove` raises `IndexError`, and neither
is caught by the handler. `Raises` is what SSEHandler then does. `accepted` and
`delivered` are history. Tasks of a mission have ids of their own, so that each
has one point of interest in the plan; the branch of `initiate_mission` for any
other number is not taken.

### LiveKitCapture, CaptureContract

`place` is where `capture` is, `task` where each `_record_track` is, `muxing`
which tracks have a frame on an encoding thread. `CloseCapture` cancels what
there is, each task with the effect a cancellation has where it stands: a task
that has not run never will, one waiting for a frame closes its stream, one that
encodes finishes its frame first, one that is already closing its stream is cut
off before its encoder (`cut`). Tracks can still be subscribed while the others
drain, as the callbacks stay registered until the disconnect; such a task is not
among those the capture waits for. A tick is half of the grace for first frames;
the monitor polls at least once a tick. A member of `Tracks` is one subscription: a
camera that is subscribed again gets a task, an encoder and a file of its own in
the code, and is another member here.

`CaptureContract` has three variables: the stop, the outcome, and which tracks
were given a segment. `Contract` is its instance, checked as a property and
proved; `MissionRecorder` is written against the same contract.

### RobotTelemetry

Two event threads and a reader. A callback stores the level and then the state
(`SetBatteryLevel`, `SetBatteryState`), and the reader reads the state, the
level, the state and the level again, as `robot_is_home` does. An event the
callback cannot take raises: the battery handler swallows that, the
control-status handler does not, and its stream is dropped. `last`, `lastStop`,
`batteryEvents` and `stopEvents` are history: the last event of either stream
before the call and those stored during it, from which each answer must follow.
`lastStop` is kept apart from the stored `engaged`, so that a value lost between two
calls is noticed as well.

Two things the code does are left out of the properties, on purpose. A full
robot that takes up charging again just below the threshold shows as Available
between the two assignments, so `DockedIsHome` speaks of levels that do not
fall. And `get_battery_state` reads the state twice, so that its payload may
carry no state although the first read found one, or the construction of the
payload raises (`ValidationError`): `AnswersAreCurrent` allows the former, because
an event of the call said so, and says nothing of a call that raises.

### RequestHandler, MediaStream

Time is kept as what has passed (`age` of the stored token, `carried` of the one
a thread has in hand) or is left (`expiresIn`, `left`), never as a clock, so
that runs have no horizon. A login stores the token and the expiry in two steps,
and `get_token` reads the token again when it returns it (`TakeToken`).
`loginFailed` marks a request that goes out with the old token because the login
was refused.

`MediaStream` extends `RequestHandler`: callers and workers make their requests
with its steps, and `up` says whether robot and server answer. `call` walks a
caller through the lock of `activate_stream`, `place` a worker through its loop;
`quiet` is history. A request that raises something the worker does not catch ends
it, the keep-alive post included. The waits of 3 to 30 seconds are short compared
with a tick.

### MissionPlan

Files on the robot are functions from names to contents, so that *put with
prune* (`Put`) is a function of one name, or, cut off, keeps some of the others
and is an exception. The service puts a file as a whole before it prunes; a file
whose hash does not match counts as not put. `GetFile` is the retrieval with its retries,
`Answered` and `PutFails` the outcomes of a transfer, `ProcessEnds` a crash
anywhere. A plan is a sequence of states with a target for each outcome;
`RobotSteps` walks it. The template constants of mission_utils.py appear as
`Template`, the linking functions as `SetNextTaskName` and
`SetLastTaskTransitions`.

## 3. Runs

| Run | Checks | Distinct states |
|---|---|---|
| `mission_status` | `TypeOK`, `TaskAndMissionAgree`, `OrderIrrelevant` | 94 thousand |
| `mission_control` | `TypeOK`, `LeaseReturned`, `RunSupervised`, `HonestUnlessOvertaken` | 4 million |
| `mission_control_live` | `StatusIsHonest`, `BookkeepingMatches`, `HomeFlagDropped`, `FinishedRunIsReported` | 130 thousand |
| `mission_control_race` | `StatusIsHonest`, violated | |
| `recorder` | `TypeOK`, `OneFinalizer`, `FootageKept`, `KeepsPromise`, `ProcessingEnds`, `CatalogueSettles` | 118 thousand |
| `recorder_stuck` | `EndedIsDecided`, violated | |
| `inspection` | `TypeOK`, `DeliveredToItsMission`, `TasksRemainPending`, `ListenerReturns` | 98 thousand |
| `inspection_twice` | `DeliveredOnce`, violated | |
| `mission_plan` | `TypeOK`, `PlantKept`, `StartedPlanIsReady`, `EveryTaskIsTried` | 3.3 thousand |
| `telemetry` | `TypeOK`, `DockedIsHome`, `AnswersAreCurrent`, `EngagedIsReported`, `TelemetryFollows` | 1.8 million |
| `media` | `TypeOK`, `OneWorker`, `TokenIsFresh`, `GivesUpInTime`, `StreamsComeBack` | 726 thousand |
| `capture` | `TypeOK`, `FootageClosed`, `KeepsContract`, `SilenceEnds`, `CaptureEnds` | 216 thousand |

Bounds, and why they are enough:

- *mission_status*: the event without a mission summary, and up to two task
  summaries, which are the smallest list in which order, duplicates and a failed
  undock beside a task can matter; all five statuses and four of the six outcomes
  (the others are treated like one of these).
- *mission_control*: a planned and a home mission and three commands. Three are the
  fewest with which a poll can still be under way when ISAR starts the next
  mission (`MonitorOverlapsStart`): start, stop, start. An operator has a run of
  his own as well (`Foreign`). Under both disturbances only the weaker
  `HonestUnlessOvertaken` holds; `StatusIsHonest` fails under each of them alone:
  with an operator as `mission_control_race` shows, and with an overlap when a
  return home has set the one id and not yet the other
  (robotinterface.py:142): the docking run is then reported as the mission before
  it. One event is under way at a time: an older one that is still on the
  stream shows as one that is read late.
- *mission_control_live*: a mission of each of the three kinds, and two commands,
  which give every order of a start and another start, a stop, pause or resume,
  the failed and the unanswered ones included. It gives up both disturbances,
  which is how ISAR's state machine and an undisturbed robot behave, and checks
  the full `StatusIsHonest`. `MaxInFlight = 2` lets a stale event precede the last
  one.
- *recorder*: one mission, because sessions share nothing but the order of the
  maintenance round (the proofs cover any number), two cameras so that one can
  fail alone, one restart. The safety properties also passed with two segments
  and two restarts, so that a recovery is itself cut off (2.7 million states);
  the proofs cover any number of both.
- *inspection*: two missions of two tasks on a queue of three, so that the second
  mission evicts; two runs, one of which the plugin may not know of.
  `inspection_twice` needs two events about one task.
- *mission_plan*: a mission of two tasks with different templates, one of one
  task, one that cannot be converted; three preparations in a row.

- *telemetry*: a level on each side of the threshold, and one that is missing;
  two changes of the robot's condition put three events into one call.
- *media*: two callers contend for the lock, and a caller and a worker for the
  token. A token lives six ticks and is refreshed two before its end, which is
  the ratio of the code; a login takes at most one, so that two that overlap use
  up the margin exactly. A window of six ticks outlives a failing attempt.
- *capture*: two tracks, so that one can be silent while the other sends, or be
  late while the other drains; stall and grace as in the code, the grace being
  twice the stall.

Deadlock is checked, except in `mission_plan`, where the number of missions is
bounded and the system comes to rest after the last, and in `capture`, which is
one capture and ends.

Fairness. `FairSpec` of `MissionControl`: calls of both threads go on because
requests have a timeout (the login that may precede one has none: it is assumed
to be answered); ISAR polls a supervised mission again and again,
which is strong fairness because a poll is enabled only between two others; the
SSE thread reconnects for ever, and delivers (strongly fair) because not every
connection breaks before its first event. `MissionRecorder`: weak fairness for
what the asyncio loop runs, for ffmpeg (called with a timeout) and for a capture
told to stop; strong fairness for publishing and for removing files, which are
retried every five seconds and do not fail for ever (on this rests that
`ProcessingEnds` asks for the footage to be gone as well as for a verdict), and
for a session's turn in the round; a shutdown ends the process and it is restarted. No fairness for
opening segments, capture failures, crashes or calls. `InspectionHandler`: the
listener thread is scheduled and its waits are bounded. Without this last
assumption nothing is promised: a server that cannot be reached for ever is
outside `ListenerReturns`. `RobotTelemetry`: listeners reconnect, and strongly,
events of both streams are read again and again, as the robot repeats them; no
fairness for readers and changes. `MediaStream`: threads are scheduled, and
configurations are asked for again and again (a capture asks every 20 seconds);
logins are answered, at once by a working service and in the end by another.
`StreamsComeBack` presumes a service that works for good from some time on.
`LiveKitCapture`: the loop runs the capture, a frame gets encoded, a stream
closes, time goes by. Nobody has to send a frame, to answer the keep-alive or to
stop the capture. A stream whose `aclose`, a room whose `disconnect` or a
`generate_config` that never returns would hold a capture for ever, and is
outside `CaptureEnds`.

## 4. Findings

- `mission_control_race`: `_current_mission_event` checks one event and
  `MissionStatusHandler` reads another. When an operator's run gets its event in
  between, its outcome is reported for ISAR's mission. Reading the event once
  and passing it on would remove this.
- `recorder_stuck`: the stop of a session is persisted before its worker hands
  it over. A process that ends in between leaves a session which recovery takes
  for finished and maintenance for unfinished; it stays as it is for ever, with
  its footage.
- `inspection_twice`: `deque.remove` raises `IndexError`, not only `ValueError`,
  when another thread appends during it; the delivered task stays and can be
  delivered again.

## 5. Proofs

| Theorem | Module | Property |
|---|---|---|
| `MappingIsTotal`, `ViewsAgree`, `OrderDoesNotMatter` | `MissionStatusProofs` | `TypeOK`, `TaskAndMissionAgree`, `OrderIrrelevant` |
| `TypeCorrect`, `LeaseIsReturned` | `MissionControlProofs` | `TypeOK`, `LeaseReturned` |
| `BookkeepingIsConsistent`, `RunsAreSupervised`, `UndisturbedAnswersAreHonest` | `MissionControlProofs` | `BookkeepingMatches`, `RunSupervised`, `HonestUnlessOvertaken` |
| `AnswersAreHonest`, `HomeFlagIsKept` | `MissionControlProofs` | `StatusIsHonest`, `HomeFlagDropped`, both under `Foreign = {}` and `~MonitorOverlapsStart` |
| `RecorderTypeCorrect`, `FinalizersApart`, `FootageIsKept`, `RecordingsKeepPromise` | `MissionRecorderProofs` | `TypeOK`, `OneFinalizer`, `FootageKept`, `KeepsPromise` |
| `SegmentsAreNew` | `MissionRecorderProofs` | `NoFootageOverwritten`, stated there |
| `InspectionTypeCorrect`, `DeliveriesMatch`, `TasksStayPending` | `InspectionHandlerProofs` | `TypeOK`, `DeliveredToItsMission`, `TasksRemainPending` |
| `CaptureTypes`, `FootageIsClosed`, `CaptureKeepsContract` | `LiveKitCaptureProofs` | `TypeOK`, `FootageClosed`, `KeepsContract` |
| `TelemetryTypes`, `DockedRobotsAreHome`, `AnswersWereTold`, `EngagedStopIsReported` | `RobotTelemetryProofs` | `TypeOK`, `DockedIsHome`, `AnswersAreCurrent`, `EngagedIsReported` |
| `StreamTypeCorrect`, `OneWorkerRuns`, `WorkersGiveUpInTime` | `MediaStreamProofs` | `TypeOK`, `OneWorker`, `GivesUpInTime` |
| `HandlerTokenFresh`, `StreamTokenFresh` | `MediaStreamProofs` | `TokenIsFresh`, of `RequestHandler` alone and in `MediaStream` |
| `PlanTypeCorrect`, `PlantIsKept`, `StartIsReady`, `RunsTryEveryTask` | `MissionPlanProofs` | `TypeOK`, `PlantKept`, `StartedPlanIsReady`, `EveryTaskIsTried` |

They hold for every value of the constants that satisfies the named assumptions
of the modules: missions, runs and `None` are distinct, bounds are numbers, the
plant's objects do not have names of ours, a queue holds at least one mission's
tasks, callers are not workers, a worker thread can be created at all, two
logins and the way of a request fit the margin before the expiry. Most follow the
same argument: an inductive invariant, true initially, kept by every action (a
step per action), and stronger than the property. The invariants of the state
machines also hold in TLC on the instances of their runs.

### Mission status

The mapping is a set of pure operators, and its theorems are about every event
body, with task summaries in any number. `MappingIsTotal`: each answer is a status
of ISAR or an exception of the mapping. `ViewsAgree`: what
`task_status` and `mission_status` say about one event cannot contradict: a
mission is successful only with all its tasks, failed or partially successful
only with a failed one. `get_task_status` takes the last summary of a task, so
that this needs that a list in which a task occurs has a last such position, the
one induction here; it is had from the well-foundedness of `<` on the numbers
(`LastPosition`). `OrderDoesNotMatter`: listed the other way round, the summaries
give the same mission status, and the same task statuses if each task has one.

### Mission control

`LeaseReturned` speaks of the moments between calls only. Its invariant adds what
holds during one: a lease that is out is the one the call holds, or lost; a call
holds one exactly at the steps between grant and release. `TypeOK` needs, besides
the types, where `arg` is a mission, since that is what `RecordRun` and
`RecordMission` store.

The other five theorems share `ControlInv`, whose parts lean on each other:

- `CallInv`: what the program counter says about the call. A call that starts a
  run has dropped the supervision before anything else can happen, and a stop
  is about a mission of ours.
- `BookInv` is `BookkeepingMatches` without its restriction to moments between
  calls: a pause, resume or stop does not disturb the bookkeeping until its end.
- `EventInv`: the events that are stored, under way and last published are in
  the order the robot published them, so that an end is never followed by a
  phase before it. This is what makes a late reader's answer an old truth
  and not an untruth.
- `NewestInv`, `SupervisionInv`: the newest run, if it may go on, is the supervised
  one, or one whose start is just being recorded. `Robot.stop` gives up the
  supervision only of a run that the robot has paused.
- `PollInv`, `ReadInv`: a poll is about a mission handed over before it began,
  and what it has found at each of its reads is about that mission, as
  long as nothing has overtaken it.
- `ReportInv`: hence the answer is one that was true.

With an operator's runs or a poll that overlaps the next start, `ReadInv` holds
only until the overtaking, which is what `HonestUnlessOvertaken` says. Without
either (the hypotheses of `AnswersAreHonest` and `HomeFlagIsKept`, and the constants
of the run `mission_control_live`) it always holds. `HomeFlagDropped` is a property
of steps: the flag is cleared only after the docking task was seen paused or
ended.

### Recorder and capture

- *OneFinalizer*, *FootageKept*: a worker runs a finalizer only at the step
  `finalize`; maintenance takes only ended sessions, in a final status, without
  a worker; and a session with such a status never gets a worker again. From
  this follows that footage is written only before, and removed only after every
  camera has its fate.
- *KeepsPromise* is a step simulation on top of that invariant, strengthened by
  how often a video was stored at each stage (not before `stored`, once after)
  and by which cameras can still be attempted. Every step of the recorder is a
  step of `RecordingArchive` or leaves its variables alone.
- *TypeOK*, *NoFootageOverwritten* (`Counted`): every file there ever was has a
  number that `session.json` has counted before, because `open_segment` saves the
  count before it returns. A new segment's number is therefore above those of
  all earlier files, also after a restart and after segments whose file was
  never made.
- *FootageClosed*, *KeepsContract*: an encoder belongs to its task (it is open
  only between the first frame and the end), a frame on a thread means a task
  that waits for it, a drained task never leaves the ways to its end, and a
  capture leaves its `try` block without an exception only after the stop. The
  contract is a step simulation on top of that.

### Inspections

- *DeliveredToItsMission*: queue entries, the listener's locals and the caller
  agree with the history of runs; the property is the same agreement for what
  was delivered.
- *TypeOK* (`LimitsInv`) is about the bounds of the two deques and of the attempts.
- *TasksRemainPending* (`TaskInv`) is about a full deque, which drops its oldest
  entry, and a removal under way, which drops one from wherever it stands. That
  all tasks of the latest mission are queued or delivered is not inductive: one
  has to know that the oldest entry is none of them. The invariant is that a
  task's distance from the end of the deque and its number together are less than
  the number of the task that comes next (`NextNumber`). An append adds one to
  both sides, a removal only lowers the left one, and as the deque holds at least
  one mission's tasks, an entry of the latest mission cannot be the oldest of
  a full deque to which a task of the same mission is appended.

### Telemetry, token and media stream

- *DockedIsHome*, *AnswersAreCurrent*, *EngagedIsReported*: the invariant
  explains what the handlers hold by the history of the call. The level is that
  of the newest event, the state that of the newest event completely stored, the
  protective stop that of the last event (`engaged = lastStop`), and each step of
  a reader that has passed a test keeps an event of the call for
  which the test was true.
- *TokenIsFresh*: the expiry that is stored can be late for the token that is
  stored, but by no more than two overlapping logins make it:
  `age + expiresIn` exceeds `Lifetime` by at most twice `LoginDelay`. With more
  than `Margin` left when a thread decided, less than that plus `SendDelay` has
  passed when the server looks, which `DelayAssumption` makes small enough. A
  step of `MediaStream` is one of `RequestHandler` or leaves its variables alone.
- *OneWorker*: a worker is started only by the holder of the lock, after it saw
  that the one it knows had ended.
- *GivesUpInTime* (`DeadlineInv`): `left` is what the code's deadline leaves a
  worker, `quiet` the history of how long it has been without success; of a live
  worker they add up to the recovery window. A worker that has ended has neither,
  so that the next one starts with a window of its own.
  `ThreadsAssumption` says that there is a worker at all: the code starts a
  thread whenever it needs one.

### Mission plan

- *PlantKept*, *StartedPlanIsReady*: what the process holds in memory between
  clean-up and the last transfer contains the plant and nothing of ours, and each
  transfer that took effect leaves on the robot what the next one presumes. What a
  put with prune can leave, a prune that was cut off included, is stated once
  (`PutEffect`) for both environment files.
- *TypeOK* (`FilesInv`): nothing but the plant's objects and those of convertible
  tasks ever gets into an environment. It presumes that `None` is no mission
  (`MissionsAssumption`): ISAR hands `initiate_mission` a mission.
- *EveryTaskIsTried* (`RunInv`): a run has visited the states of its plan from the
  first on without a gap, and where it stands follows from the outcome of the last
  one. `Transition` says what the linking functions make of each state of a plan
  of any length: on to the next for every outcome but a preemption, and a
  failure only from the undock state and from the last one.

### Only model-checked

The liveness properties: `FinishedRunIsReported`, `ProcessingEnds`,
`CatalogueSettles`, `ListenerReturns`, `TelemetryFollows`, `StreamsComeBack`,
`SilenceEnds`, `CaptureEnds`. They rest on fairness, which is defined by `ENABLED`,
for which TLAPS 1.4.5 has no rules. All invariants and action properties of the
runs that pass are proved; the three properties that a run shows violated are not
theorems, of course.

## 6. Not modelled

- Pose and main-body handlers: registers replaced whole, read whole, with
  nothing decided from them. The client in control and the timestamps of the
  telemetry for the same reason.
- The lengths of reconnect delays and retry waits. The code promises nothing
  about the rate at which it reconnects (see the hazard at sse_handler.py:87).
- A write of `session.json` that fails.
- The geometry of waypoints and regions of interest, the temporary files and the
  command line of the ads-api service.
- Metrics, settings, maps and data conversions, which have no behaviour of their
  own.
- In what is modelled: texts, poses, file contents, timestamps, gaps and
  metadata of recordings, pixels and packets; the sync delay of the environment
  is assumed to be long enough.

## 7. Plan

1. Done: mission status, mission control, recorder with its archive,
   inspections, mission plan, telemetry, token, media stream, LiveKit capture
   with its contract; a theorem for every invariant and action property of the
   runs that pass.
2. Theorems: safety counterparts of the liveness properties where the code has a
   bound (how many attempts an event takes, how many ticks a capture lasts after
   the last frame), which need no fairness and can be proved.
3. A variant of `MissionRecorder` in which a write of `session.json` fails.
   `MissionPlan` composed with `MissionStatus`: what ISAR reports for a plan is
   what the robot did.
4. `AdsApi`: temporary files and the outcome of a transfer, implementing the
   transfer of `MissionPlan`. `WaypointGeometry`: the choice of a waypoint
   against a reference definition.
