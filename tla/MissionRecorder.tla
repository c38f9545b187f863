-------------------------- MODULE MissionRecorder --------------------------
(***************************************************************************)
(* AnymalMissionRecorder and SessionFinalizer: one asyncio loop that owns  *)
(* the recording sessions, a capture worker per mission, a maintenance     *)
(* task that retries what the workers left undone, and the directory from  *)
(* which a restarted process takes up its sessions.                        *)
(*                                                                         *)
(* Every change to a session ends with _persist, which replaces            *)
(* session.json atomically, so between steps memory and disk agree and     *)
(* status, ended, camera, started and segments are what a restart reads.   *)
(* A step here is what the loop does between two awaits, cut finer where a *)
(* crash could tell the parts apart.  Gaps, timestamps and capture         *)
(* metadata are left out.                                                  *)
(***************************************************************************)
EXTENDS Naturals, Sequences, FiniteSets

CONSTANTS
    Missions, Cameras,
    None,
    Maintenance,   \* the maintenance task, as a runner of the finalizer
    MaxSegments,   \* bound on the segments of a camera
    MaxCalls,      \* bound on the calls waiting for the loop
    MaxRestarts    \* bound on the times the process ends

ASSUME RunnersAssumption ==
    /\ Maintenance \notin Missions
    /\ None \notin Missions \union Cameras
ASSUME BoundsAssumption ==
    MaxSegments \in Nat /\ MaxCalls \in Nat /\ MaxRestarts \in Nat

Runners == Missions \union {Maintenance}

VARIABLES
    \* session.json and the footage beside it, per mission
    status, ended, camera, started, segments, footage,
    written,       \* history: every segment file there ever was
    \* the process
    process, closing, calls, restarts,
    worker, stopSet,       \* workers: where each one is, and its stop event
    todo, current,         \* the round of _maintain_sessions
    \* the run of finalize_session each runner is in
    stage, subject, snapshot,
    \* the publisher
    archive, published

sessionVars == <<status, ended, camera, started, segments>>
fileVars == <<footage, written>>
processVars == <<process, closing, restarts>>
workerVars == <<worker, stopSet>>
roundVars == <<todo, current>>
stageVars == <<stage, subject, snapshot>>
publisherVars == <<archive, published>>
vars == <<sessionVars, fileVars, processVars, calls, workerVars, roundVars,
          stageVars, publisherVars>>

Terminal == {"Ready", "Expired"}
SessionStatus ==
    {"none", "Starting", "Recording", "Reconnecting", "Processing"} \union Terminal
CameraStatus == {"none", "Recording", "Processing"} \union Terminal
Finalizable == {"Processing", "Failed", "Ready", "Expired"}

Known == {m \in Missions : status[m] # "none"}

Init ==
    /\ status = [m \in Missions |-> "none"]
    /\ ended = [m \in Missions |-> FALSE]
    /\ camera = [m \in Missions |-> [c \in Cameras |-> "none"]]
    /\ started = [m \in Missions |-> [c \in Cameras |-> FALSE]]
    /\ segments = [m \in Missions |-> [c \in Cameras |-> 0]]
    /\ footage = [m \in Missions |-> [c \in Cameras |-> {}]]
    /\ written = footage
    /\ process = "up" /\ closing = FALSE /\ calls = <<>> /\ restarts = 0
    /\ worker = [m \in Missions |-> "none"]
    /\ stopSet = [m \in Missions |-> FALSE]
    /\ todo = {} /\ current = None
    /\ stage = [r \in Runners |-> "idle"]
    /\ subject = [r \in Runners |-> None]
    /\ snapshot = [r \in Runners |-> "none"]
    /\ archive = segments /\ published = [m \in Missions |-> "none"]

-----------------------------------------------------------------------------
(* start, stop and close are called by ISAR's threads and run by the loop  *)
(* in the order of call_soon_threadsafe.                                   *)

Call(kind, m) ==
    /\ process = "up" /\ Len(calls) < MaxCalls
    /\ kind = "close" => restarts < MaxRestarts
    /\ calls' = Append(calls, [kind |-> kind, mission |-> m])
    /\ UNCHANGED <<sessionVars, fileVars, processVars, workerVars, roundVars,
                   stageVars, publisherVars>>

RunNext(kind) ==
    /\ process = "up" /\ calls # <<>> /\ Head(calls).kind = kind
    /\ calls' = Tail(calls)
    /\ UNCHANGED <<camera, started, segments, fileVars, process, restarts,
                   roundVars, stageVars, publisherVars>>

\* _start_session
StartSession ==
    LET m == Head(calls).mission
    IN  /\ RunNext("start")
        /\ IF closing \/ worker[m] # "none" \/ ended[m]
           THEN UNCHANGED <<status, workerVars>>
           ELSE /\ status' = [status EXCEPT ![m] = IF @ = "none" THEN "Starting" ELSE @]
                /\ worker' = [worker EXCEPT ![m] = "loop"]
                /\ stopSet' = [stopSet EXCEPT ![m] = FALSE]
        /\ UNCHANGED <<ended, closing>>

\* _stop_session of every mission of a set; a stop event exists with its worker.
Stopped(missions) ==
    /\ ended' = [m \in Missions |-> ended[m] \/ m \in missions \intersect Known]
    /\ stopSet' = [m \in Missions |->
                      stopSet[m] \/ /\ m \in missions \intersect Known /\ ~ended[m]
                                    /\ worker[m] # "none"]

StopSession ==
    /\ RunNext("stop")
    /\ Stopped({Head(calls).mission})
    /\ UNCHANGED <<status, closing, worker>>

\* _shutdown, up to its wait for the workers.  What follows is the end of the
\* process, which may come before the workers are done.
Shutdown ==
    /\ RunNext("close")
    /\ closing' = TRUE
    /\ Stopped({m \in Missions : worker[m] # "none"})
    /\ UNCHANGED <<status, worker>>

-----------------------------------------------------------------------------
(* _capture_session: one worker per mission.                               *)

WorkerAt(m, place) ==
    /\ process = "up" /\ worker[m] = place
    /\ UNCHANGED <<fileVars, processVars, calls, roundVars, publisherVars>>

WorkerTo(m, place) == worker' = [worker EXCEPT ![m] = place]

\* while not stop.is_set(); behind the loop, the session is handed over.
WorkerChecks(m) ==
    /\ WorkerAt(m, "loop")
    /\ IF stopSet[m]
       THEN /\ status' = [status EXCEPT ![m] = "Processing"]
            /\ ended' = [ended EXCEPT ![m] = TRUE]
            /\ WorkerTo(m, "finalize")
            /\ stage' = [stage EXCEPT ![m] = "camera"]
       ELSE WorkerTo(m, "capture") /\ UNCHANGED <<status, ended, stage>>
    /\ UNCHANGED <<camera, started, segments, stopSet, subject, snapshot>>

\* open_segment, and the file the capture creates at the path it returns --
\* unless that fails, or the process ends first.  The capture keeps to
\* CaptureContract: it opens no segment once the stop event is set, but one that
\* has failed may leave a task behind that still does.
OpenSegment(m, c) ==
    LET n == segments[m][c] + 1
    IN  /\ process = "up" /\ ~stopSet[m]
        /\ \/ worker[m] = "capture"
           \/ worker[m] \in {"sleep", "loop"} /\ status[m] # "Starting"
        /\ n <= MaxSegments
        /\ segments' = [segments EXCEPT ![m][c] = n]
        /\ camera' = [camera EXCEPT ![m][c] = "Recording"]
        /\ status' = [status EXCEPT ![m] = "Recording"]
        /\ \/ /\ footage' = [footage EXCEPT ![m][c] = @ \union {n}]
              /\ written' = [written EXCEPT ![m][c] = @ \union {n}]
           \/ UNCHANGED fileVars
        /\ UNCHANGED <<ended, started, processVars, calls, workerVars, roundVars,
                       stageVars, publisherVars>>

\* The capture raises: the gap is recorded, and the worker pauses unless stopped.
CaptureFails(m) ==
    /\ WorkerAt(m, "capture")
    /\ status' = [status EXCEPT ![m] = "Reconnecting"]
    /\ WorkerTo(m, IF stopSet[m] THEN "loop" ELSE "sleep")
    /\ UNCHANGED <<ended, camera, started, segments, stopSet, stageVars>>

\* capture_livekit returns only when it is told to stop.
CaptureReturns(m) ==
    /\ WorkerAt(m, "capture") /\ stopSet[m]
    /\ WorkerTo(m, "loop")
    /\ UNCHANGED <<sessionVars, stopSet, stageVars>>

WorkerWakes(m) ==
    /\ WorkerAt(m, "sleep")
    /\ WorkerTo(m, "loop")
    /\ UNCHANGED <<sessionVars, stopSet, stageVars>>

-----------------------------------------------------------------------------
(* SessionFinalizer.finalize_session, run by a worker for its own mission  *)
(* or by the maintenance task for the one it is on.                        *)

MissionOf(r) == IF r = Maintenance THEN current ELSE r

Runs(r, at) == process = "up" /\ stage[r] = at

StageTo(r, at, c) ==
    /\ stage' = [stage EXCEPT ![r] = at]
    /\ subject' = [subject EXCEPT ![r] = c]
    /\ UNCHANGED snapshot

LoopOnly == UNCHANGED <<processVars, calls, todo>>

CameraBecomes(m, c, value) == camera' = [camera EXCEPT ![m][c] = value]

\* Mutant: an attempt that was cut off is made again.
AttemptCamera_Again(r, c) ==
    LET m == MissionOf(r)
    IN  /\ Runs(r, "camera")
        /\ camera[m][c] \notin {"none"} \union Terminal
        /\ CameraBecomes(m, c, "Processing")
        /\ started' = [started EXCEPT ![m][c] = TRUE]
        /\ StageTo(r, "convert", c)
        /\ UNCHANGED <<status, ended, segments, fileVars, workerVars, current,
                       publisherVars>> /\ LoopOnly

\* _finalize_camera_recording up to its first await: a camera whose attempt was
\* cut off expires, any other is marked before it is attempted.
AttemptCamera(r, c) ==
    LET m == MissionOf(r)
    IN  /\ Runs(r, "camera")
        /\ camera[m][c] \notin {"none"} \union Terminal
        /\ IF started[m][c]
           THEN CameraBecomes(m, c, "Expired") /\ UNCHANGED <<started, stageVars>>
           ELSE /\ CameraBecomes(m, c, "Processing")
                /\ started' = [started EXCEPT ![m][c] = TRUE]
                /\ StageTo(r, "convert", c)
        /\ UNCHANGED <<status, ended, segments, fileVars, workerVars, current,
                       publisherVars>> /\ LoopOnly

\* _convert_segments and _combine_segments; without footage they raise.
ConvertSegments(r) ==
    /\ Runs(r, "convert")
    /\ footage[MissionOf(r)][subject[r]] # {}
    /\ StageTo(r, "upload", subject[r])
    /\ UNCHANGED <<sessionVars, fileVars, workerVars, current, publisherVars>>
    /\ LoopOnly

\* The publisher has stored the video, but has not answered.
VideoStored(r) ==
    LET m == MissionOf(r)
    IN  /\ Runs(r, "upload")
        /\ archive' = [archive EXCEPT ![m][subject[r]] = @ + 1]
        /\ StageTo(r, "stored", subject[r])
        /\ UNCHANGED <<sessionVars, fileVars, workerVars, current, published>>
        /\ LoopOnly

AttemptEnds(r, value) ==
    /\ CameraBecomes(MissionOf(r), subject[r], value)
    /\ StageTo(r, "camera", None)
    /\ UNCHANGED <<status, ended, started, segments, fileVars, workerVars, current,
                   publisherVars>> /\ LoopOnly

UploadAnswered(r) == Runs(r, "stored") /\ AttemptEnds(r, "Ready")

\* An exception at any stage expires the camera, also one of an upload whose
\* video was stored.
AttemptFails(r) ==
    /\ Runs(r, "convert") \/ Runs(r, "upload") \/ Runs(r, "stored")
    /\ AttemptEnds(r, "Expired")

Decided(m) == \A c \in Cameras : camera[m][c] \in {"none"} \union Terminal

Verdict(m) ==
    IF /\ \E c \in Cameras : camera[m][c] # "none"
       /\ \A c \in Cameras : camera[m][c] \in {"none", "Ready"}
    THEN "Ready" ELSE "Expired"

\* Mutant: the first camera that expires ends the loop.
FinalizeSession_FirstFailureEnds(r) ==
    LET m == MissionOf(r)
    IN  /\ Runs(r, "camera")
        /\ Decided(m) \/ \E c \in Cameras : camera[m][c] = "Expired"
        /\ status' = [status EXCEPT ![m] = Verdict(m)]
        /\ StageTo(r, "remove", None)
        /\ UNCHANGED <<ended, camera, started, segments, fileVars, workerVars,
                       current, publisherVars>> /\ LoopOnly

FinalizeSession(r) ==
    LET m == MissionOf(r)
    IN  /\ Runs(r, "camera")
        /\ Decided(m)
        /\ status' = [status EXCEPT ![m] = Verdict(m)]
        /\ StageTo(r, "remove", None)
        /\ UNCHANGED <<ended, camera, started, segments, fileVars, workerVars,
                       current, publisherVars>> /\ LoopOnly

\* _remove_local_footage, file by file; then the session is published as it is.
RemoveFootage(r) ==
    LET m == MissionOf(r)
    IN  /\ Runs(r, "remove")
        /\ \/ \E c \in Cameras : \E n \in footage[m][c] :
                 /\ footage' = [footage EXCEPT ![m][c] = @ \ {n}]
                 /\ UNCHANGED stageVars
           \/ /\ \A c \in Cameras : footage[m][c] = {}
              /\ stage' = [stage EXCEPT ![r] = "publish"]
              /\ snapshot' = [snapshot EXCEPT ![r] = status[m]]
              /\ UNCHANGED <<footage, subject>>
        /\ UNCHANGED <<sessionVars, written, workerVars, current, publisherVars>>
        /\ LoopOnly

\* The runner is done, or an exception ends its run: the worker is removed, the
\* maintenance task goes on to its next session.
RunEnds(r) ==
    /\ stage' = [stage EXCEPT ![r] = "idle"]
    /\ subject' = [subject EXCEPT ![r] = None]
    /\ snapshot' = [snapshot EXCEPT ![r] = "none"]
    /\ current' = IF r = Maintenance THEN None ELSE current
    /\ worker' = [m \in Missions |-> IF m = r THEN "none" ELSE worker[m]]
    /\ stopSet' = [m \in Missions |-> m # r /\ stopSet[m]]
    /\ UNCHANGED <<sessionVars, fileVars, archive>> /\ LoopOnly

\* What publish_session was given arrives, however late.
PublishSession(r) ==
    /\ Runs(r, "publish")
    /\ published' = [published EXCEPT ![MissionOf(r)] = snapshot[r]]
    /\ RunEnds(r)

PublishOrRemovalFails(r) ==
    /\ Runs(r, "publish") \/ Runs(r, "remove")
    /\ RunEnds(r) /\ UNCHANGED published

FinalizerStep(r) ==
    \/ \E c \in Cameras : AttemptCamera(r, c)
    \/ ConvertSegments(r) \/ VideoStored(r) \/ UploadAnswered(r) \/ AttemptFails(r)
    \/ FinalizeSession(r) \/ RemoveFootage(r)
    \/ PublishSession(r) \/ PublishOrRemovalFails(r)

-----------------------------------------------------------------------------
(* _maintain_sessions: every five seconds, a round over the sessions.      *)

MaintainSessions ==
    /\ process = "up" /\ current = None /\ todo = {} /\ Known # {}
    /\ todo' = Known
    /\ UNCHANGED <<sessionVars, fileVars, processVars, calls, workerVars, current,
                   stageVars, publisherVars>>

Maintain(m, take) ==
    /\ process = "up" /\ current = None /\ m \in todo
    /\ todo' = todo \ {m} /\ current' = m
    /\ IF take
       THEN stage' = [stage EXCEPT ![Maintenance] = "camera"] /\ UNCHANGED snapshot
       ELSE /\ stage' = [stage EXCEPT ![Maintenance] = "publish"]
            /\ snapshot' = [snapshot EXCEPT ![Maintenance] = status[m]]
    /\ UNCHANGED <<sessionVars, fileVars, processVars, calls, workerVars, subject,
                   publisherVars>>

\* Mutant: maintenance does not look whether the session has a worker.
MaintainSession_WithWorker(m) == Maintain(m, status[m] \in Finalizable /\ ended[m])

\* Mutant: only sessions that are not decided yet are maintained.
MaintainSession_Undecided(m) ==
    /\ status[m] \notin Terminal
    /\ Maintain(m, status[m] = "Processing" /\ ended[m] /\ worker[m] = "none")

\* Mutant: what was being processed is left to the worker it once had.
MaintainSession_SkipsProcessing(m) ==
    Maintain(m, status[m] \in Terminal /\ ended[m] /\ worker[m] = "none")

\* _maintain_session: finalize what has ended and has no worker, publish the rest.
MaintainSession(m) ==
    Maintain(m, status[m] \in Finalizable /\ ended[m] /\ worker[m] = "none")

-----------------------------------------------------------------------------
(* The process ends, by a crash or after a shutdown that waited 15 seconds *)
(* at most, and is started again.                                          *)

ProcessEnds ==
    /\ process # "down" /\ restarts < MaxRestarts
    /\ process' = "down" /\ restarts' = restarts + 1
    /\ closing' = FALSE /\ calls' = <<>>
    /\ worker' = [m \in Missions |-> "none"]
    /\ stopSet' = [m \in Missions |-> FALSE]
    /\ todo' = {} /\ current' = None
    /\ stage' = [r \in Runners |-> "idle"]
    /\ subject' = [r \in Runners |-> None]
    /\ snapshot' = [r \in Runners |-> "none"]
    /\ UNCHANGED <<sessionVars, fileVars, publisherVars>>

ProcessRestarts ==
    /\ process = "down"
    /\ process' = "recovering"
    /\ UNCHANGED <<sessionVars, fileVars, closing, restarts, calls, workerVars,
                   roundVars, stageVars, publisherVars>>

\* Mutant: the session is given a status of its own.
RecoverSession_Interrupted(m) ==
    /\ process = "recovering" /\ m \in Known /\ ~ended[m]
    /\ status' = [status EXCEPT ![m] = "Interrupted"]
    /\ ended' = [ended EXCEPT ![m] = TRUE]
    /\ UNCHANGED <<camera, started, segments, fileVars, processVars, calls,
                   workerVars, roundVars, stageVars, publisherVars>>

\* _run_loop: a session that was cut off is ended, with a gap.
RecoverSession(m) ==
    /\ process = "recovering" /\ m \in Known /\ ~ended[m]
    /\ status' = [status EXCEPT ![m] = "Processing"]
    /\ ended' = [ended EXCEPT ![m] = TRUE]
    /\ UNCHANGED <<camera, started, segments, fileVars, processVars, calls,
                   workerVars, roundVars, stageVars, publisherVars>>

LoopStarts ==
    /\ process = "recovering" /\ \A m \in Known : ended[m]
    /\ process' = "up"
    /\ UNCHANGED <<sessionVars, fileVars, closing, restarts, calls, workerVars,
                   roundVars, stageVars, publisherVars>>

-----------------------------------------------------------------------------
RunCall == StartSession \/ StopSession \/ Shutdown

WorkerStep(m) ==
    WorkerChecks(m) \/ CaptureReturns(m) \/ WorkerWakes(m)

Restart == ProcessRestarts \/ (\E m \in Missions : RecoverSession(m)) \/ LoopStarts

Next ==
    \/ \E m \in Missions : Call("start", m) \/ Call("stop", m)
    \/ Call("close", None)
    \/ RunCall
    \/ \E m \in Missions :
          \/ WorkerStep(m) \/ CaptureFails(m)
          \/ \E c \in Cameras : OpenSegment(m, c)
    \/ \E r \in Runners : FinalizerStep(r)
    \/ MaintainSessions \/ \E m \in Missions : MaintainSession(m)
    \/ ProcessEnds \/ Restart

Spec == Init /\ [][Next]_vars

\* The loop runs every callback and every task that is ready; ffmpeg is called
\* with a timeout; a capture that is told to stop returns; a shutdown ends the
\* process, which is started again; and neither the removal of files nor the
\* publisher fails, or keeps its caller waiting, every time.
Fairness ==
    /\ WF_vars(RunCall) /\ WF_vars(Restart)
    /\ \A m \in Missions : WF_vars(WorkerStep(m)) /\ SF_vars(MaintainSession(m))
    /\ \A r \in Runners : /\ WF_vars(FinalizerStep(r))
                          /\ SF_vars(RemoveFootage(r)) /\ SF_vars(PublishSession(r))
    /\ WF_vars(closing /\ ProcessEnds)
    /\ WF_vars(MaintainSessions)

FairSpec == Spec /\ Fairness

-----------------------------------------------------------------------------
(* Properties.                                                             *)

SegmentNumbers == 1..MaxSegments

\* Type invariant.
TypeOK ==
    /\ status \in [Missions -> SessionStatus]
    /\ ended \in [Missions -> BOOLEAN]
    /\ camera \in [Missions -> [Cameras -> CameraStatus]]
    /\ started \in [Missions -> [Cameras -> BOOLEAN]]
    /\ segments \in [Missions -> [Cameras -> 0..MaxSegments]]
    /\ footage \in [Missions -> [Cameras -> SUBSET SegmentNumbers]]
    /\ written \in [Missions -> [Cameras -> SUBSET SegmentNumbers]]
    /\ process \in {"up", "down", "recovering"}
    /\ closing \in BOOLEAN
    /\ calls \in Seq([kind: {"start", "stop", "close"},
                      mission: Missions \union {None}])
    /\ restarts \in Nat
    /\ worker \in [Missions -> {"none", "loop", "capture", "sleep", "finalize"}]
    /\ stopSet \in [Missions -> BOOLEAN]
    /\ todo \subseteq Missions /\ current \in Missions \union {None}
    /\ stage \in [Runners -> {"idle", "camera", "convert", "upload", "stored", "remove",
                           "publish"}]
    /\ subject \in [Runners -> Cameras \union {None}]
    /\ snapshot \in [Runners -> SessionStatus]
    /\ archive \in [Missions -> [Cameras -> Nat]]
    /\ published \in [Missions -> SessionStatus]

Finalizing(r, m) ==
    MissionOf(r) = m /\ stage[r] \in {"camera", "convert", "upload", "stored", "remove"}

\* A session is in the hands of one finalizer at a time, and of none while it is
\* still being captured: two would convert into the same files, and one would
\* remove the footage the other is reading.
OneFinalizer ==
    \A m \in Missions :
        /\ \A r, s \in Runners : Finalizing(r, m) /\ Finalizing(s, m) => r = s
        /\ worker[m] \in {"loop", "capture", "sleep"} =>
               \A r \in Runners : ~Finalizing(r, m)

\* Footage that was ever written is discarded only after the fate of its camera
\* is on disk, whatever fails and whenever the process ends.
FootageKept ==
    \A m \in Missions : \A c \in Cameras :
        written[m][c] # footage[m][c] => camera[m][c] \in Terminal

\* The fate of each camera's footage and the verdict on each session, as they
\* stand on disk.
Fate ==
    [m \in Missions |-> [c \in Cameras |->
        IF camera[m][c] \in Terminal THEN camera[m][c]
        ELSE IF started[m][c] THEN "attempted"
        ELSE IF camera[m][c] # "none" THEN "recorded" ELSE "none"]]

SessionVerdict ==
    [m \in Missions |-> IF status[m] \in Terminal THEN status[m] ELSE "open"]

Promise == INSTANCE RecordingArchive WITH fate <- Fate, verdict <- SessionVerdict

\* What the recordings promise is kept (RecordingArchive): one attempt at the
\* archive per camera over all restarts, ready only with a stored video, fates
\* and verdicts that never change, and no verdict before every fate.
KeepsPromise == Promise!Spec

\* A session that is being processed is decided and its footage removed in the
\* end, over restarts too and whatever publication or removal failed on the way.
ProcessingEnds ==
    \A m \in Missions :
        status[m] = "Processing" ~>
            /\ status[m] \in Terminal
            /\ \A c \in Cameras : footage[m][c] = {}

\* What ISAR's catalogue says of a recording settles on its verdict, although
\* an older snapshot may arrive after it.
CatalogueSettles ==
    \A m \in Missions :
        status[m] \in Terminal ~> [](published[m] = status[m])

\* Every recording that was stopped is decided: its segments are recoverable
\* (module docstring of mission_recorder.py).
EndedIsDecided == \A m \in Missions : ended[m] ~> status[m] \in Terminal
=============================================================================
