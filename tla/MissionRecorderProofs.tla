----------------------- MODULE MissionRecorderProofs -----------------------
(***************************************************************************)
(* MissionRecorder keeps the promise of RecordingArchive, for every set of *)
(* missions and cameras and every bound.                                   *)
(***************************************************************************)
EXTENDS MissionRecorder, TLAPS

Capturing == {"loop", "capture", "sleep"}
Attempting == {"convert", "upload", "stored"}
FinalizerStage == {"camera", "remove"} \union Attempting

-----------------------------------------------------------------------------
(* The inductive invariant.                                                *)

\* The values the proof works with.
Shape ==
    /\ status \in [Missions -> SessionStatus]
    /\ ended \in [Missions -> BOOLEAN]
    /\ camera \in [Missions -> [Cameras -> CameraStatus]]
    /\ started \in [Missions -> [Cameras -> BOOLEAN]]
    /\ footage \in [Missions -> [Cameras -> SUBSET Nat]]
    /\ written \in [Missions -> [Cameras -> SUBSET Nat]]
    /\ segments \in [Missions -> [Cameras -> Nat]]
    /\ archive \in [Missions -> [Cameras -> Nat]]
    /\ worker \in [Missions -> {"none", "finalize"} \union Capturing]
    /\ stopSet \in [Missions -> BOOLEAN]
    /\ stage \in [Runners -> {"idle", "publish"} \union FinalizerStage]
    /\ subject \in [Runners -> Cameras \union {None}]
    /\ snapshot \in [Runners -> SessionStatus]
    /\ published \in [Missions -> SessionStatus]
    /\ current \in Missions \union {None}
    /\ todo \subseteq Missions

\* Who works on what: a worker finalizes at its end, the maintenance task only
\* what has ended and has no worker, and nobody works while the process is down.
Division ==
    /\ process # "up" => \A m \in Missions : worker[m] = "none"
    /\ stage[Maintenance] # "idle" => current \in Missions
    /\ stage[Maintenance] \in FinalizerStage =>
           ended[current] /\ worker[current] = "none"
    /\ \A m \in Missions :
           /\ worker[m] = "finalize" <=> stage[m] # "idle"
           /\ worker[m] = "finalize" => ended[m]

\* Nothing is decided, or even attempted, before a session has ended and its
\* capture is over.
Undecided ==
    \A m \in Missions : ~ended[m] \/ worker[m] \in Capturing =>
        /\ status[m] \notin {"Processing"} \union Terminal
        /\ \A c \in Cameras : ~started[m][c] /\ camera[m][c] \in {"none", "Recording"}

\* What an attempt in progress knows of its camera.
Attempts ==
    /\ \A m \in Missions : \A c \in Cameras :
           /\ ~started[m][c] => archive[m][c] = 0
           /\ camera[m][c] = "none" => ~started[m][c]
    /\ \A r \in Runners : stage[r] \in Attempting =>
           /\ subject[r] \in Cameras
           /\ started[MissionOf(r)][subject[r]]
           /\ camera[MissionOf(r)][subject[r]] = "Processing"
           /\ archive[MissionOf(r)][subject[r]] = IF stage[r] = "stored" THEN 1 ELSE 0

\* A verdict stands on fates that are decided.
Judged ==
    /\ \A m \in Missions : status[m] \in Terminal => Decided(m) /\ status[m] = Verdict(m)
    /\ \A r \in Runners : stage[r] = "remove" => status[MissionOf(r)] \in Terminal

\* Footage belongs to a camera of the session.
FootageInv ==
    \A m \in Missions : \A c \in Cameras :
        /\ camera[m][c] = "none" => footage[m][c] = {}
        /\ written[m][c] # footage[m][c] => camera[m][c] \in Terminal

RecorderInv ==
    Shape /\ Division /\ Undecided /\ Attempts /\ Judged /\ FootageInv

-----------------------------------------------------------------------------
(* It holds initially, and every step preserves it.                        *)

\* Nothing has been recorded in the initial state.
LEMMA RecorderInit == Init => RecorderInv
<1> SUFFICES ASSUME Init PROVE RecorderInv
    OBVIOUS
<1>1. Shape
    BY DEF Init, Shape, SessionStatus, CameraStatus, Terminal
<1>2. Division /\ Undecided /\ Attempts /\ Judged /\ FootageInv
    BY RunnersAssumption
    DEF Init, Division, Undecided, Attempts, Judged, FootageInv, Runners,
        FinalizerStage, Attempting, Capturing, Terminal
<1>3. QED
    BY <1>1, <1>2 DEF RecorderInv


\* An update of one camera of one mission, point by point.
LEMMA CameraUpdate ==
    ASSUME NEW S, NEW f \in [Missions -> [Cameras -> S]],
           NEW m \in Missions, NEW c \in Cameras, NEW v \in S
    PROVE  LET g == [f EXCEPT ![m][c] = v]
           IN  /\ g \in [Missions -> [Cameras -> S]]
               /\ \A n \in Missions : \A d \in Cameras :
                     g[n][d] = IF n = m /\ d = c THEN v ELSE f[n][d]
OBVIOUS

\* A runner that is in a finalizing stage has a session of its own.
LEMMA RunnerAlone ==
    ASSUME RecorderInv, NEW r \in Runners, stage[r] \in FinalizerStage
    PROVE  /\ MissionOf(r) \in Missions
           /\ ended[MissionOf(r)]
           /\ worker[MissionOf(r)] \notin Capturing
           /\ \A s \in Runners : stage[s] \in FinalizerStage /\ MissionOf(s) = MissionOf(r)
                                     => s = r
BY RunnersAssumption
DEF RecorderInv, Shape, Division, Runners, FinalizerStage, Attempting, Capturing, MissionOf

\* The worker looks at its stop event, and hands its session to the finalizer.
LEMMA WorkerChecksStep ==
    ASSUME RecorderInv, NEW m \in Missions, WorkerChecks(m)
    PROVE  RecorderInv'
<1>1. /\ stage[m] = "idle" /\ worker[m] = "loop"
      /\ stage \in [Runners -> {"idle", "publish"} \union FinalizerStage]
    BY DEF RecorderInv, Shape, Division, Capturing, WorkerChecks, WorkerAt
<1>2. CASE stopSet[m]
  <2>1. /\ status' = [status EXCEPT ![m] = "Processing"]
        /\ ended' = [ended EXCEPT ![m] = TRUE]
        /\ worker' = [worker EXCEPT ![m] = "finalize"]
        /\ stage' = [stage EXCEPT ![m] = "camera"]
        /\ UNCHANGED <<camera, started, segments, stopSet, subject, snapshot, footage,
                       written, process, current, todo, archive, published>>
    BY <1>2
        DEF WorkerChecks, WorkerAt, WorkerTo, fileVars, processVars, roundVars,
        publisherVars
  <2>2. Shape'
    BY <2>1 DEF RecorderInv, Shape, Runners, FinalizerStage, Attempting, Capturing,
        SessionStatus, Terminal
  <2>3. Division'
    BY <2>1, <1>1, RunnersAssumption
        DEF RecorderInv, Shape, Division, Runners, FinalizerStage, Attempting, Capturing
  <2>4. Undecided'
    BY <2>1 DEF RecorderInv, Shape, Undecided, Capturing
  <2>5. Attempts'
    BY <2>1, <1>1 DEF RecorderInv, Shape, Attempts, Attempting, Runners, MissionOf
  <2>6. Judged'
    <3>1. \A r \in Runners : stage'[r] = "remove" => stage[r] = "remove" /\ MissionOf(r) # m
        BY <2>1, <1>1, RunnersAssumption
            DEF RecorderInv, Shape, Division, Runners, MissionOf, FinalizerStage, Attempting
    <3>2. \A n \in Missions \ {m} : status'[n] = status[n]
        BY <2>1 DEF RecorderInv, Shape
    <3>3. status'[m] = "Processing"
        BY <2>1 DEF RecorderInv, Shape
    <3>4. \A r \in Runners : stage[r] = "remove" => MissionOf(r) \in Missions
        BY RunnerAlone DEF FinalizerStage
    <3>. QED
      BY <2>1, <3>1, <3>2, <3>3, <3>4
          DEF RecorderInv, Judged, Decided, Verdict, Terminal, MissionOf
  <2>7. FootageInv'
    BY <2>1 DEF RecorderInv, FootageInv
  <2>. QED
    BY <2>2, <2>3, <2>4, <2>5, <2>6, <2>7 DEF RecorderInv
<1>3. CASE ~stopSet[m]
  <2>1. /\ worker' = [worker EXCEPT ![m] = "capture"]
        /\ UNCHANGED <<status, ended, camera, started, segments, stopSet, stage, subject,
                       snapshot, footage, written, process, current, todo, archive,
                       published>>
    BY <1>3
        DEF WorkerChecks, WorkerAt, WorkerTo, fileVars, processVars, roundVars,
        publisherVars
  <2>. QED
    BY <2>1, <1>1, RunnersAssumption DEF RecorderInv, Shape, Division, Undecided, Attempts,
        Judged, FootageInv, Decided, Verdict, MissionOf, Capturing
<1>. QED
    BY <1>2, <1>3

\* A segment is opened.
LEMMA OpenSegmentStep ==
    ASSUME RecorderInv, NEW m \in Missions, NEW c \in Cameras, OpenSegment(m, c)
    PROVE  RecorderInv'
<1> DEFINE n == segments[m][c] + 1
<1>1. /\ segments' = [segments EXCEPT ![m][c] = n]
      /\ camera' = [camera EXCEPT ![m][c] = "Recording"]
      /\ status' = [status EXCEPT ![m] = "Recording"]
      /\ \/ /\ footage' = [footage EXCEPT ![m][c] = footage[m][c] \union {n}]
            /\ written' = [written EXCEPT ![m][c] = written[m][c] \union {n}]
         \/ footage' = footage /\ written' = written
      /\ UNCHANGED <<ended, started, process, worker, stopSet, todo, current, stage,
                     subject, snapshot, archive, published>>
    BY DEF OpenSegment, fileVars, processVars, workerVars, roundVars, stageVars,
        publisherVars
<1>2. /\ n \in Nat /\ worker[m] \in Capturing
      /\ camera[m][c] \in {"none", "Recording"} /\ written[m][c] = footage[m][c]
      /\ status[m] \notin {"Processing"} \union Terminal
  <2>1. worker[m] \in Capturing
    BY DEF OpenSegment, Capturing
  <2>2. n \in Nat
    BY DEF RecorderInv, Shape
  <2>3. /\ camera[m][c] \in {"none", "Recording"}
        /\ status[m] \notin {"Processing"} \union Terminal
    BY <2>1 DEF RecorderInv, Undecided
  <2>4. written[m][c] = footage[m][c]
    BY <2>3 DEF RecorderInv, FootageInv, Terminal
  <2>. QED
    BY <2>1, <2>2, <2>3, <2>4
<1>3. /\ camera' \in [Missions -> [Cameras -> CameraStatus]]
      /\ \A k \in Missions : \A d \in Cameras :
            camera'[k][d] = IF k = m /\ d = c THEN "Recording" ELSE camera[k][d]
    BY <1>1, CameraUpdate DEF RecorderInv, Shape, CameraStatus
<1>4. segments' \in [Missions -> [Cameras -> Nat]]
    BY <1>1, <1>2, CameraUpdate DEF RecorderInv, Shape
<1>5. /\ footage' \in [Missions -> [Cameras -> SUBSET Nat]]
      /\ written' \in [Missions -> [Cameras -> SUBSET Nat]]
      /\ \A k \in Missions : \A d \in Cameras : 
           \/ footage'[k][d] = footage[k][d] /\ written'[k][d] = written[k][d]
           \/ k = m /\ d = c /\ footage'[k][d] = written'[k][d]
  <2>1. CASE footage' = footage /\ written' = written
    BY <2>1 DEF RecorderInv, Shape
  <2>2. CASE /\ footage' = [footage EXCEPT ![m][c] = footage[m][c] \union {n}]
             /\ written' = [written EXCEPT ![m][c] = written[m][c] \union {n}]
    <3>1. /\ footage \in [Missions -> [Cameras -> SUBSET Nat]]
          /\ written \in [Missions -> [Cameras -> SUBSET Nat]]
          /\ footage[m][c] \union {n} \in SUBSET Nat
          /\ written[m][c] \union {n} \in SUBSET Nat
      BY <1>2 DEF RecorderInv, Shape
    <3>. QED
      BY <2>2, <3>1, <1>2, CameraUpdate
  <2>. QED
    BY <1>1, <2>1, <2>2
<1>6. Shape'
    BY <1>1, <1>3, <1>4, <1>5 DEF RecorderInv, Shape, SessionStatus
<1>7. Division'
    BY <1>1 DEF RecorderInv, Division
<1>8. Undecided'
    BY <1>1, <1>3 DEF RecorderInv, Shape, Undecided, Terminal
<1>9. \A r \in Runners : stage[r] \in FinalizerStage => MissionOf(r) \in Missions \ {m}
    BY <1>2, RunnerAlone DEF Capturing
<1>10. Attempts'
  BY <1>1, <1>3, <1>9 DEF RecorderInv, Attempts, MissionOf, FinalizerStage
<1>11. Judged'
  <2>1. \A k \in Missions : status'[k] = IF k = m THEN "Recording" ELSE status[k]
    BY <1>1 DEF RecorderInv, Shape
  <2>2. \A r \in Runners : stage[r] = "remove" => status'[MissionOf(r)]  = status[MissionOf(r)]
    BY <2>1, <1>9 DEF FinalizerStage
  <2>3. \A k \in Missions \ {m} : Decided(k)' = Decided(k) /\ Verdict(k)' = Verdict(k)
    BY <1>3 DEF Decided, Verdict
  <2>4. \A r \in Runners : stage'[r] = "remove" => status'[MissionOf(r)'] \in Terminal
    BY <1>1, <2>2 DEF RecorderInv, Judged, MissionOf
  <2>5. \A k \in Missions : status'[k] \in Terminal => Decided(k)' /\ status'[k] = Verdict(k)'
    BY <2>1, <2>3 DEF RecorderInv, Judged, Terminal
  <2>. QED
    BY <2>4, <2>5 DEF Judged, Terminal
<1>12. FootageInv'
  <2> SUFFICES ASSUME NEW k \in Missions, NEW d \in Cameras
               PROVE  /\ camera'[k][d] = "none" => footage'[k][d] = {}
                      /\ written'[k][d] # footage'[k][d] => camera'[k][d] \in Terminal
    BY DEF FootageInv
  <2>1. /\ camera[k][d] = "none" => footage[k][d] = {}
        /\ written[k][d] # footage[k][d] => camera[k][d] \in Terminal
    BY DEF RecorderInv, FootageInv
  <2>2. CASE k = m /\ d = c
    <3>1. camera'[k][d] = "Recording" /\ footage'[k][d] = written'[k][d]
      BY <1>2, <1>3, <1>5, <2>1, <2>2 DEF Terminal
    <3>2. QED
      BY <3>1
  <2>3. CASE ~(k = m /\ d = c)
    BY <1>3, <1>5, <2>1, <2>3
  <2>4. QED
    BY <2>2, <2>3
<1>. QED
  BY <1>6, <1>7, <1>8, <1>10, <1>11, <1>12 DEF RecorderInv

\* A worker is created only for a session that has not ended.
LEMMA StartSessionStep ==
    ASSUME RecorderInv, StartSession
    PROVE  RecorderInv'
<1> DEFINE m == Head(calls).mission
<1>1. UNCHANGED <<ended, camera, started, segments, footage, written, process,
                  todo, current, stage, subject, snapshot, archive, published>>
    BY DEF StartSession, RunNext, fileVars, roundVars, stageVars, publisherVars
<1>2. CASE UNCHANGED <<status, worker, stopSet>>
    BY <1>1, <1>2 DEF RecorderInv, Shape, Division, Undecided, Attempts, Judged,
                      FootageInv, Decided, Verdict, MissionOf
<1>3. CASE ~ UNCHANGED <<status, worker, stopSet>>
  <2>1. /\ process = "up" /\ worker[m] = "none" /\ ~ended[m]
        /\ status' = [status EXCEPT ![m] = IF status[m] = "none" THEN "Starting"
                                                                 ELSE status[m]]
        /\ worker' = [worker EXCEPT ![m] = "loop"]
        /\ stopSet' = [stopSet EXCEPT ![m] = FALSE]
    BY <1>3 DEF StartSession, RunNext, workerVars
  <2>2. m \in Missions
    <3>1. SUFFICES ASSUME m \notin Missions PROVE FALSE
      OBVIOUS
    <3>2. status' = status /\ worker' = worker /\ stopSet' = stopSet
      BY <2>1, <3>1 DEF RecorderInv, Shape
    <3>. QED
      BY <1>3, <3>2
  <2>3. /\ status' \in [Missions -> SessionStatus]
        /\ worker' \in [Missions -> {"none", "finalize"} \union Capturing]
        /\ \A k \in Missions :
              /\ status'[k] = IF k = m /\ status[k] = "none" THEN "Starting" ELSE status[k]
              /\ worker'[k] = IF k = m THEN "loop" ELSE worker[k]
    BY <2>1, <2>2 DEF RecorderInv, Shape, SessionStatus, Capturing
  <2>4. stopSet' \in [Missions -> BOOLEAN]
    BY <2>1, <2>2 DEF RecorderInv, Shape
  <2>5. Shape'
    BY <1>1, <2>3, <2>4 DEF RecorderInv, Shape
  <2>6. Division'
    BY <1>1, <2>1, <2>3, RunnersAssumption DEF RecorderInv, Shape, Division
  <2>7. Undecided'
    BY <1>1, <2>1, <2>2, <2>3 DEF RecorderInv, Undecided, Terminal
  <2>8. Attempts' /\ FootageInv'
    BY <1>1 DEF RecorderInv, Attempts, FootageInv, MissionOf
  <2>9. status[m] \notin Terminal
    BY <2>1, <2>2 DEF RecorderInv, Undecided
  <2>10. \A r \in Runners : stage[r] = "remove" => MissionOf(r) \in Missions
    BY RunnerAlone DEF FinalizerStage
  <2>11. Judged'
    BY <1>1, <2>3, <2>9, <2>10
        DEF RecorderInv, Judged, Decided, Verdict, MissionOf, Terminal
  <2>. QED
    BY <2>5, <2>6, <2>7, <2>8, <2>11 DEF RecorderInv
<1>. QED
    BY <1>2, <1>3

\* An attempt starts, or a camera whose attempt was cut off expires.
LEMMA AttemptCameraStep ==
    ASSUME RecorderInv, NEW r \in Runners, NEW c \in Cameras, AttemptCamera(r, c)
    PROVE  RecorderInv'
<1> DEFINE m == MissionOf(r)
<1>1. /\ stage[r] = "camera" /\ camera[m][c] \notin {"none"} \union Terminal
      /\ UNCHANGED <<status, ended, segments, footage, written, process, worker,
                     stopSet, todo, current, snapshot, archive, published>>
    BY DEF AttemptCamera, Runs, StageTo, LoopOnly, fileVars, processVars,
           workerVars, publisherVars, stageVars
<1>2. /\ m \in Missions /\ ended[m] /\ worker[m] \notin Capturing
      /\ \A s \in Runners : stage[s] \in FinalizerStage /\ MissionOf(s) = m => s = r
    BY <1>1, RunnerAlone DEF FinalizerStage
<1>3. status[m] \notin Terminal
    BY <1>1, <1>2 DEF RecorderInv, Judged, Decided
<1>4. \A s \in Runners : MissionOf(s)' = MissionOf(s)
    BY <1>1 DEF MissionOf
<1>5. /\ status \in [Missions -> SessionStatus]
      /\ stage \in [Runners -> {"idle", "publish"} \union FinalizerStage]
      /\ subject \in [Runners -> Cameras \union {None}]
      /\ camera \in [Missions -> [Cameras -> CameraStatus]]
      /\ started \in [Missions -> [Cameras -> BOOLEAN]]
    BY DEF RecorderInv, Shape
<1>6. CASE started[m][c]
  <2>1. /\ camera' = [camera EXCEPT ![m][c] = "Expired"]
        /\ UNCHANGED <<started, stage, subject>>
    BY <1>6 DEF AttemptCamera, CameraBecomes, stageVars
  <2>2. /\ camera' \in [Missions -> [Cameras -> CameraStatus]]
        /\ \A k \in Missions : \A d \in Cameras :
              camera'[k][d] = IF k = m /\ d = c THEN "Expired" ELSE camera[k][d]
    BY <2>1, <1>2, <1>5, CameraUpdate DEF CameraStatus, Terminal
  <2>3. Shape'
    BY <1>1, <2>1, <2>2 DEF RecorderInv, Shape
  <2>4. Division'
    BY <1>1, <2>1 DEF RecorderInv, Division
  <2>5. Undecided'
    BY <1>1, <1>2, <2>1, <2>2 DEF RecorderInv, Undecided
  <2>6. Attempts'
    <3>1. \A s \in Runners : stage[s] \in Attempting => MissionOf(s) \in Missions \ {m}
      BY <1>1, <1>2, RunnerAlone DEF FinalizerStage, Attempting
    <3>. QED
      BY <1>1, <1>4, <2>1, <2>2, <3>1 DEF RecorderInv, Attempts
  <2>7. Judged'
    <3>1. \A k \in Missions \ {m} : Decided(k)' = Decided(k) /\ Verdict(k)' = Verdict(k)
      BY <2>2 DEF Decided, Verdict
    <3>. QED
      BY <1>1, <1>3, <1>4, <2>1, <3>1 DEF RecorderInv, Judged, Terminal
  <2>8. FootageInv'
    BY <1>1, <2>2 DEF RecorderInv, FootageInv, Terminal
  <2>. QED
    BY <2>3, <2>4, <2>5, <2>6, <2>7, <2>8 DEF RecorderInv
<1>7. CASE ~started[m][c]
  <2>1. /\ camera' = [camera EXCEPT ![m][c] = "Processing"]
        /\ started' = [started EXCEPT ![m][c] = TRUE]
        /\ stage' = [stage EXCEPT ![r] = "convert"]
        /\ subject' = [subject EXCEPT ![r] = c]
    BY <1>7 DEF AttemptCamera, CameraBecomes, StageTo
  <2>2. /\ camera' \in [Missions -> [Cameras -> CameraStatus]]
        /\ \A k \in Missions : \A d \in Cameras :
              camera'[k][d] = IF k = m /\ d = c THEN "Processing" ELSE camera[k][d]
    BY <2>1, <1>2, <1>5, CameraUpdate DEF CameraStatus
  <2>3. /\ started' \in [Missions -> [Cameras -> BOOLEAN]]
        /\ started'[m][c]
        /\ \A k \in Missions \ {m} : started'[k] = started[k]
        /\ \A d \in Cameras \ {c} : started'[m][d] = started[m][d]
    BY <2>1, <1>2, <1>5
  <2>4. /\ stage' \in [Runners -> {"idle", "publish"} \union FinalizerStage]
        /\ subject' \in [Runners -> Cameras \union {None}]
        /\ \A s \in Runners : /\ stage'[s] = IF s = r THEN "convert" ELSE stage[s]
                              /\ subject'[s] = IF s = r THEN c ELSE subject[s]
    BY <2>1, <1>5 DEF FinalizerStage, Attempting
  <2>5. Shape'
    BY <1>1, <2>2, <2>3, <2>4 DEF RecorderInv, Shape
  <2>6. Division'
    BY <1>1, <2>4 DEF RecorderInv, Shape, Division, Runners, FinalizerStage, Attempting
  <2>7. Undecided'
    BY <1>1, <1>2, <2>2, <2>3 DEF RecorderInv, Undecided
  <2>8. Attempts'
    <3>1. \A s \in Runners \ {r} : stage[s] \in Attempting => MissionOf(s) \in Missions \ {m}
      BY <1>1, <1>2, RunnerAlone DEF FinalizerStage, Attempting
    <3>2. archive[m][c] = 0
      BY <1>2, <1>7 DEF RecorderInv, Attempts
    <3>3. \A s \in Runners \ {r} : stage[s] \in Attempting => subject[s] \in Cameras
      BY DEF RecorderInv, Attempts
    <3>4. ASSUME NEW s \in Runners, stage'[s] \in Attempting
          PROVE  /\ subject'[s] \in Cameras
                 /\ started'[MissionOf(s)][subject'[s]]
                 /\ camera'[MissionOf(s)][subject'[s]] = "Processing"
                 /\ archive[MissionOf(s)][subject'[s]] = IF stage'[s] = "stored" THEN 1 ELSE 0
      <4>1. CASE s = r
        BY <1>2, <2>2, <2>3, <2>4, <3>2, <4>1
      <4>2. CASE s # r
        BY <2>2, <2>3, <2>4, <3>1, <3>3, <3>4, <4>2 DEF RecorderInv, Attempts
      <4>. QED
        BY <4>1, <4>2
    <3>5. ASSUME NEW k \in Missions, NEW d \in Cameras, ~started'[k][d]
          PROVE  archive[k][d] = 0
      <4>1. ~started[k][d]
        BY <2>3, <3>5
      <4>. QED
        BY <4>1 DEF RecorderInv, Attempts
    <3>6. \A k \in Missions : \A d \in Cameras : camera'[k][d] = "none" => ~started'[k][d]
      BY <2>2, <2>3 DEF RecorderInv, Attempts
    <3>. QED
      BY <1>1, <1>4, <3>4, <3>5, <3>6 DEF Attempts
  <2>9. Judged'
    <3>1. \A k \in Missions \ {m} : Decided(k)' = Decided(k) /\ Verdict(k)' = Verdict(k)
      BY <2>2 DEF Decided, Verdict
    <3>2. \A s \in Runners : stage'[s] = "remove" => stage[s] = "remove"
      BY <2>4
    <3>. QED
      BY <1>1, <1>3, <1>4, <3>1, <3>2 DEF RecorderInv, Judged, Terminal
  <2>10. FootageInv'
    BY <1>1, <2>2 DEF RecorderInv, FootageInv, Terminal
  <2>. QED
    BY <2>5, <2>6, <2>7, <2>8, <2>9, <2>10 DEF RecorderInv
<1>. QED
    BY <1>6, <1>7

\* An attempt ends with a fate for its camera.
LEMMA AttemptEndsStep ==
    ASSUME RecorderInv, NEW r \in Runners, stage[r] \in Attempting,
           NEW value \in Terminal, AttemptEnds(r, value)
    PROVE  RecorderInv'
<1> DEFINE m == MissionOf(r)
           c == subject[r]
<1>1. /\ camera' = [camera EXCEPT ![m][c] = value]
      /\ stage' = [stage EXCEPT ![r] = "camera"]
      /\ subject' = [subject EXCEPT ![r] = None]
      /\ UNCHANGED <<status, ended, started, segments, footage, written, process, worker,
                     stopSet, todo, current, snapshot, archive, published>>
    BY DEF AttemptEnds, CameraBecomes, StageTo, LoopOnly, fileVars, processVars,
           workerVars, publisherVars
<1>2. /\ m \in Missions /\ ended[m] /\ worker[m] \notin Capturing
      /\ \A s \in Runners : stage[s] \in FinalizerStage /\ MissionOf(s) = m => s = r
    BY RunnerAlone DEF FinalizerStage
<1>3. c \in Cameras /\ started[m][c] /\ camera[m][c] = "Processing"
    BY DEF RecorderInv, Attempts
<1>4. status[m] \notin Terminal
    BY <1>2, <1>3 DEF RecorderInv, Judged, Decided, Terminal
<1>5. \A s \in Runners : MissionOf(s)' = MissionOf(s)
    BY <1>1 DEF MissionOf
<1>6. /\ camera' \in [Missions -> [Cameras -> CameraStatus]]
      /\ \A k \in Missions : \A d \in Cameras :
            camera'[k][d] = IF k = m /\ d = c THEN value ELSE camera[k][d]
    <2>1. camera \in [Missions -> [Cameras -> CameraStatus]] /\ value \in CameraStatus
      BY DEF RecorderInv, Shape, CameraStatus
    <2>. QED
      BY <1>1, <1>2, <1>3, <2>1, CameraUpdate
<1>7. /\ stage' \in [Runners -> {"idle", "publish"} \union FinalizerStage]
      /\ subject' \in [Runners -> Cameras \union {None}]
      /\ \A s \in Runners : /\ stage'[s] = IF s = r THEN "camera" ELSE stage[s]
                            /\ subject'[s] = IF s = r THEN None ELSE subject[s]
    BY <1>1 DEF RecorderInv, Shape, FinalizerStage
<1>8. Shape'
    BY <1>1, <1>6, <1>7 DEF RecorderInv, Shape
<1>9. Division'
    BY <1>1, <1>7 DEF RecorderInv, Shape, Division, Runners, FinalizerStage, Attempting
<1>10. Undecided'
    BY <1>1, <1>2, <1>6 DEF RecorderInv, Undecided
<1>11. Attempts'
    <2>1. \A s \in Runners \ {r} : stage[s] \in Attempting => MissionOf(s) \in Missions \ {m}
      BY <1>2, RunnerAlone DEF FinalizerStage
    <2>2. \A s \in Runners : stage'[s] \in Attempting =>
              s # r /\ stage'[s] = stage[s] /\ subject'[s] = subject[s]
      BY <1>7 DEF Attempting
    <2>3. \A k \in Missions : \A d \in Cameras : camera'[k][d] = "none" => camera[k][d] = "none"
      BY <1>6 DEF Terminal
    <2>. QED
      BY <1>1, <1>5, <1>6, <2>1, <2>2, <2>3 DEF RecorderInv, Attempts
<1>12. Judged'
    <2>1. \A k \in Missions \ {m} : Decided(k)' = Decided(k) /\ Verdict(k)' = Verdict(k)
      BY <1>6 DEF Decided, Verdict
    <2>2. \A s \in Runners : stage'[s] = "remove" => stage[s] = "remove"
      BY <1>7
    <2>. QED
      BY <1>1, <1>4, <1>5, <2>1, <2>2 DEF RecorderInv, Judged, Terminal
<1>13. FootageInv'
    BY <1>1, <1>3, <1>6 DEF RecorderInv, FootageInv, Terminal
<1>. QED
    BY <1>8, <1>9, <1>10, <1>11, <1>12, <1>13 DEF RecorderInv

\* Footage is removed behind a verdict only.
LEMMA RemoveFootageStep ==
    ASSUME RecorderInv, NEW r \in Runners, RemoveFootage(r)
    PROVE  RecorderInv'
<1> DEFINE m == MissionOf(r)
<1>1. /\ stage[r] = "remove"
      /\ UNCHANGED <<status, ended, camera, started, segments, written, process, worker,
                     stopSet, todo, current, archive, published>>
    BY DEF RemoveFootage, Runs, LoopOnly, sessionVars, processVars, workerVars,
        publisherVars
<1>2. m \in Missions /\ Decided(m)
    BY <1>1, RunnerAlone DEF FinalizerStage, RecorderInv, Judged
<1>3. CASE UNCHANGED stageVars
  <2>0. PICK c \in Cameras : \E n \in footage[m][c] :
               footage' = [footage EXCEPT ![m][c] = @ \ {n}]
    <3>1. stage'[r] # "publish"
      BY <1>1, <1>3 DEF stageVars
    <3>2. stage \in [Runners -> {"idle", "publish"} \union FinalizerStage]
      BY DEF RecorderInv, Shape
    <3>. QED
      BY <3>1, <3>2 DEF RemoveFootage
  <2>1. PICK n \in footage[m][c] :
               footage' = [footage EXCEPT ![m][c] = footage[m][c] \ {n}]
    BY <2>0
  <2>2. /\ footage' \in [Missions -> [Cameras -> SUBSET Nat]]
        /\ \A k \in Missions : \A d \in Cameras :
              footage'[k][d] = IF k = m /\ d = c THEN footage[m][c] \ {n} ELSE footage[k][d]
    <3>1. footage \in [Missions -> [Cameras -> SUBSET Nat]] /\ footage[m][c] \ {n} \in SUBSET Nat
      BY <1>2 DEF RecorderInv, Shape
    <3>. QED
      BY <1>2, <2>1, <3>1, CameraUpdate
  <2>3. camera[m][c] \in Terminal
    BY <1>2, <2>1 DEF RecorderInv, FootageInv, Decided
  <2>4. FootageInv'
    BY <1>1, <2>2, <2>3 DEF RecorderInv, FootageInv, Terminal
  <2>5. Shape'
    BY <1>1, <1>3, <2>2 DEF RecorderInv, Shape, stageVars
  <2>6. Division' /\ Undecided' /\ Attempts' /\ Judged'
    BY <1>1, <1>3 DEF RecorderInv, Division, Undecided, Attempts, Judged, Decided, Verdict,
        MissionOf, stageVars
  <2>. QED
    BY <2>4, <2>5, <2>6 DEF RecorderInv
<1>4. CASE ~UNCHANGED stageVars
  <2>1. /\ stage' = [stage EXCEPT ![r] = "publish"]
        /\ snapshot' = [snapshot EXCEPT ![r] = status[m]]
        /\ footage' = footage /\ subject' = subject
    BY <1>4 DEF RemoveFootage
  <2>2. /\ stage' \in [Runners -> {"idle", "publish"} \union FinalizerStage]
        /\ \A s \in Runners : stage'[s] = IF s = r THEN "publish" ELSE stage[s]
    BY <2>1 DEF RecorderInv, Shape
  <2>3. snapshot' \in [Runners -> SessionStatus]
    BY <1>2, <2>1 DEF RecorderInv, Shape
  <2>4. Shape'
    BY <1>1, <2>1, <2>2, <2>3 DEF RecorderInv, Shape
  <2>5. Division'
    BY <1>1, <2>1, <2>2 DEF RecorderInv, Division, Runners, FinalizerStage, Attempting
  <2>6. Undecided' /\ FootageInv'
    BY <1>1, <2>1 DEF RecorderInv, Undecided, FootageInv
  <2>7. Attempts' /\ Judged'
    BY <1>1, <2>1, <2>2
        DEF RecorderInv, Attempts, Judged, Decided, Verdict, MissionOf, Attempting
  <2>. QED
    BY <2>4, <2>5, <2>6, <2>7 DEF RecorderInv
<1>. QED
    BY <1>3, <1>4

\* A failed capture decides nothing.
LEMMA CaptureFailsStep ==
    \A m \in Missions : RecorderInv /\ CaptureFails(m) => RecorderInv'
BY RunnersAssumption
DEF RecorderInv, Shape, Division, Undecided, Attempts, Judged, FootageInv,
    Runners, FinalizerStage, Attempting, Capturing, Terminal, SessionStatus,
    CameraStatus, MissionOf, Decided, Verdict, sessionVars, processVars,
    fileVars, stageVars, publisherVars, roundVars, workerVars, CaptureFails,
    WorkerAt, WorkerTo

\* Neither does one that returns.
LEMMA CaptureReturnsStep ==
    \A m \in Missions : RecorderInv /\ CaptureReturns(m) => RecorderInv'
BY RunnersAssumption
DEF RecorderInv, Shape, Division, Undecided, Attempts, Judged, FootageInv,
    Runners, FinalizerStage, Attempting, Capturing, Terminal, SessionStatus,
    CameraStatus, MissionOf, Decided, Verdict, sessionVars, processVars,
    fileVars, stageVars, publisherVars, roundVars, workerVars, CaptureReturns,
    WorkerAt, WorkerTo

\* Nor a pause.
LEMMA WorkerWakesStep ==
    \A m \in Missions : RecorderInv /\ WorkerWakes(m) => RecorderInv'
BY RunnersAssumption
DEF RecorderInv, Shape, Division, Undecided, Attempts, Judged, FootageInv,
    Runners, FinalizerStage, Attempting, Capturing, Terminal, SessionStatus,
    CameraStatus, MissionOf, Decided, Verdict, sessionVars, processVars,
    fileVars, stageVars, publisherVars, roundVars, workerVars, WorkerWakes,
    WorkerAt, WorkerTo

\* Conversion leaves the attempt as it is.
LEMMA ConvertSegmentsStep ==
    \A r \in Runners : RecorderInv /\ ConvertSegments(r) => RecorderInv'
BY RunnersAssumption
DEF RecorderInv, Shape, Division, Undecided, Attempts, Judged, FootageInv,
    Runners, FinalizerStage, Attempting, Capturing, Terminal, SessionStatus,
    CameraStatus, MissionOf, Decided, Verdict, sessionVars, processVars,
    fileVars, stageVars, publisherVars, roundVars, workerVars, ConvertSegments,
    Runs, StageTo, LoopOnly

\* The attempt stores the video it is about, once.
LEMMA VideoStoredStep ==
    \A r \in Runners : RecorderInv /\ VideoStored(r) => RecorderInv'
BY RunnersAssumption
DEF RecorderInv, Shape, Division, Undecided, Attempts, Judged, FootageInv,
    Runners, FinalizerStage, Attempting, Capturing, Terminal, SessionStatus,
    CameraStatus, MissionOf, Decided, Verdict, sessionVars, processVars,
    fileVars, stageVars, publisherVars, roundVars, workerVars, VideoStored,
    Runs, StageTo, LoopOnly

\* A verdict is given on decided fates.
LEMMA FinalizeSessionStep ==
    \A r \in Runners : RecorderInv /\ FinalizeSession(r) => RecorderInv'
BY RunnersAssumption
DEF RecorderInv, Shape, Division, Undecided, Attempts, Judged, FootageInv,
    Runners, FinalizerStage, Attempting, Capturing, Terminal, SessionStatus,
    CameraStatus, MissionOf, Decided, Verdict, sessionVars, processVars,
    fileVars, stageVars, publisherVars, roundVars, workerVars, FinalizeSession,
    Runs, StageTo, LoopOnly

\* Publication, successful or not, ends the run of a runner.
LEMMA PublishSessionStep ==
    \A r \in Runners : RecorderInv /\ PublishSession(r) => RecorderInv'
BY RunnersAssumption
DEF RecorderInv, Shape, Division, Undecided, Attempts, Judged, FootageInv,
    Runners, FinalizerStage, Attempting, Capturing, Terminal, SessionStatus,
    CameraStatus, MissionOf, Decided, Verdict, sessionVars, processVars,
    fileVars, stageVars, publisherVars, roundVars, workerVars, PublishSession,
    RunEnds, Runs, LoopOnly

\* So does a failure.
LEMMA PublishOrRemovalFailsStep ==
    \A r \in Runners : RecorderInv /\ PublishOrRemovalFails(r) => RecorderInv'
BY RunnersAssumption
DEF RecorderInv, Shape, Division, Undecided, Attempts, Judged, FootageInv,
    Runners, FinalizerStage, Attempting, Capturing, Terminal, SessionStatus,
    CameraStatus, MissionOf, Decided, Verdict, sessionVars, processVars,
    fileVars, stageVars, publisherVars, roundVars, workerVars,
    PublishOrRemovalFails, RunEnds, Runs, LoopOnly

\* A round of maintenance begins.
LEMMA MaintainSessionsStep ==
    RecorderInv /\ MaintainSessions => RecorderInv'
BY RunnersAssumption
DEF RecorderInv, Shape, Division, Undecided, Attempts, Judged, FootageInv,
    Runners, FinalizerStage, Attempting, Capturing, Terminal, SessionStatus,
    CameraStatus, MissionOf, Decided, Verdict, sessionVars, processVars,
    fileVars, stageVars, publisherVars, roundVars, workerVars,
    MaintainSessions, Known

\* Maintenance takes what has ended and has no worker.
LEMMA MaintainSessionStep ==
    \A m \in Missions : RecorderInv /\ MaintainSession(m) => RecorderInv'
BY RunnersAssumption
DEF RecorderInv, Shape, Division, Undecided, Attempts, Judged, FootageInv,
    Runners, FinalizerStage, Attempting, Capturing, Terminal, SessionStatus,
    CameraStatus, MissionOf, Decided, Verdict, sessionVars, processVars,
    fileVars, stageVars, publisherVars, roundVars, workerVars, MaintainSession,
    Maintain, Finalizable

\* The end of the process leaves nobody at work.
LEMMA ProcessEndsStep ==
    RecorderInv /\ ProcessEnds => RecorderInv'
BY RunnersAssumption
DEF RecorderInv, Shape, Division, Undecided, Attempts, Judged, FootageInv,
    Runners, FinalizerStage, Attempting, Capturing, Terminal, SessionStatus,
    CameraStatus, MissionOf, Decided, Verdict, sessionVars, processVars,
    fileVars, stageVars, publisherVars, roundVars, workerVars, ProcessEnds

\* Nor does its start put anybody to work,
LEMMA ProcessRestartsStep ==
    RecorderInv /\ ProcessRestarts => RecorderInv'
BY RunnersAssumption
DEF RecorderInv, Shape, Division, Undecided, Attempts, Judged, FootageInv,
    Runners, FinalizerStage, Attempting, Capturing, Terminal, SessionStatus,
    CameraStatus, MissionOf, Decided, Verdict, sessionVars, processVars,
    fileVars, stageVars, publisherVars, roundVars, workerVars, ProcessRestarts

\* or recovery,
LEMMA RecoverSessionStep ==
    \A m \in Missions : RecorderInv /\ RecoverSession(m) => RecorderInv'
BY RunnersAssumption
DEF RecorderInv, Shape, Division, Undecided, Attempts, Judged, FootageInv,
    Runners, FinalizerStage, Attempting, Capturing, Terminal, SessionStatus,
    CameraStatus, MissionOf, Decided, Verdict, sessionVars, processVars,
    fileVars, stageVars, publisherVars, roundVars, workerVars, RecoverSession,
    Known

\* or the start of the loop.
LEMMA LoopStartsStep ==
    RecorderInv /\ LoopStarts => RecorderInv'
BY RunnersAssumption
DEF RecorderInv, Shape, Division, Undecided, Attempts, Judged, FootageInv,
    Runners, FinalizerStage, Attempting, Capturing, Terminal, SessionStatus,
    CameraStatus, MissionOf, Decided, Verdict, sessionVars, processVars,
    fileVars, stageVars, publisherVars, roundVars, workerVars, LoopStarts

\* Calls only queue.
LEMMA CallStep ==
    \A k, x : RecorderInv /\ Call(k, x) => RecorderInv'
BY RunnersAssumption
DEF RecorderInv, Shape, Division, Undecided, Attempts, Judged, FootageInv,
    Runners, FinalizerStage, Attempting, Capturing, Terminal, SessionStatus,
    CameraStatus, MissionOf, Decided, Verdict, sessionVars, processVars,
    fileVars, stageVars, publisherVars, roundVars, workerVars, Call

\* Ending a session decides nothing about it.
LEMMA StopSessionStep ==
    RecorderInv /\ StopSession => RecorderInv'
BY RunnersAssumption
DEF RecorderInv, Shape, Division, Undecided, Attempts, Judged, FootageInv,
    Runners, FinalizerStage, Attempting, Capturing, Terminal, SessionStatus,
    CameraStatus, MissionOf, Decided, Verdict, sessionVars, processVars,
    fileVars, stageVars, publisherVars, roundVars, workerVars, StopSession,
    RunNext, Stopped, Known

\* Nor does ending all of them.
LEMMA ShutdownStep ==
    RecorderInv /\ Shutdown => RecorderInv'
BY RunnersAssumption
DEF RecorderInv, Shape, Division, Undecided, Attempts, Judged, FootageInv,
    Runners, FinalizerStage, Attempting, Capturing, Terminal, SessionStatus,
    CameraStatus, MissionOf, Decided, Verdict, sessionVars, processVars,
    fileVars, stageVars, publisherVars, roundVars, workerVars, Shutdown,
    RunNext, Stopped, Known

\* Every step of Next preserves the invariant.
LEMMA RecorderStep == RecorderInv /\ [Next]_vars => RecorderInv'
<1> SUFFICES ASSUME RecorderInv, [Next]_vars PROVE RecorderInv'
    OBVIOUS
<1>1. CASE UNCHANGED vars
    BY <1>1 DEF vars, RecorderInv, Shape, Division, Undecided, Attempts, Judged,
                FootageInv, Decided, Verdict, MissionOf, sessionVars, fileVars,
                processVars, workerVars, roundVars, stageVars, publisherVars
<1>2. CASE \E k, x : Call(k, x)
    BY <1>2, CallStep
<1>3. CASE RunCall
    BY <1>3, StartSessionStep, StopSessionStep, ShutdownStep DEF RunCall
<1>4. ASSUME NEW m \in Missions, WorkerStep(m) \/ CaptureFails(m)
      PROVE  RecorderInv'
    BY <1>4, WorkerChecksStep, CaptureReturnsStep, WorkerWakesStep, CaptureFailsStep
       DEF WorkerStep
<1>5. ASSUME NEW m \in Missions, NEW c \in Cameras, OpenSegment(m, c)
      PROVE  RecorderInv'
    BY <1>5, OpenSegmentStep
<1>6. ASSUME NEW r \in Runners, FinalizerStep(r)
      PROVE  RecorderInv'
  <2>1. ASSUME NEW c \in Cameras, AttemptCamera(r, c) PROVE RecorderInv'
    BY <2>1, AttemptCameraStep
  <2>2. CASE UploadAnswered(r)
    BY <2>2, AttemptEndsStep DEF UploadAnswered, Runs, Attempting, Terminal
  <2>3. CASE AttemptFails(r)
    BY <2>3, AttemptEndsStep DEF AttemptFails, Runs, Attempting, Terminal
  <2>4. CASE ConvertSegments(r) \/ VideoStored(r)
    BY <2>4, ConvertSegmentsStep, VideoStoredStep
  <2>5. CASE FinalizeSession(r) \/ RemoveFootage(r)
    BY <2>5, FinalizeSessionStep, RemoveFootageStep
  <2>6. CASE PublishSession(r) \/ PublishOrRemovalFails(r)
    BY <2>6, PublishSessionStep, PublishOrRemovalFailsStep
  <2>. QED
    BY <1>6, <2>1, <2>2, <2>3, <2>4, <2>5, <2>6 DEF FinalizerStep
<1>7. CASE MaintainSessions \/ \E m \in Missions : MaintainSession(m)
    BY <1>7, MaintainSessionsStep, MaintainSessionStep
<1>8. CASE ProcessEnds \/ Restart
    BY <1>8, ProcessEndsStep, ProcessRestartsStep, RecoverSessionStep, LoopStartsStep
       DEF Restart
<1>. QED
    BY <1>1, <1>2, <1>3, <1>4, <1>5, <1>6, <1>7, <1>8 DEF Next

\* The invariant holds throughout.
LEMMA RecorderAlways == Spec => []RecorderInv
<1>. QED
    BY RecorderInit, RecorderStep, PTL DEF Spec

-----------------------------------------------------------------------------
(* What follows.                                                           *)

\* A session is in one finalizer's hands at a time, and in none while it is
\* captured, for every number of missions and restarts: the check of the workers
\* in _maintain_session and that of ended_at in _start_session suffice.
THEOREM FinalizersApart == Spec => []OneFinalizer
<1>1. RecorderInv => OneFinalizer
  <2> SUFFICES ASSUME RecorderInv PROVE OneFinalizer
    OBVIOUS
  <2>1. ASSUME NEW m \in Missions, NEW r \in Runners, Finalizing(r, m)
        PROVE  stage[r] \in FinalizerStage /\ MissionOf(r) = m
    BY <2>1 DEF Finalizing, FinalizerStage, Attempting
  <2>. QED
    BY <2>1, RunnerAlone DEF OneFinalizer, Capturing
<1>. QED
    BY <1>1, RecorderAlways, PTL

\* No footage is discarded before the fate of its camera is on disk.
THEOREM FootageIsKept == Spec => []FootageKept
<1>1. RecorderInv => FootageKept
    BY DEF RecorderInv, FootageInv, FootageKept
<1>. QED
    BY <1>1, RecorderAlways, PTL

-----------------------------------------------------------------------------
(* Types, and where the numbers of segments come from.                     *)

\* The values Shape leaves open.  Every file there ever was has a number that
\* session.json has counted before.
Counted ==
    /\ segments \in [Missions -> [Cameras -> 0..MaxSegments]]
    /\ footage \in [Missions -> [Cameras -> SUBSET SegmentNumbers]]
    /\ written \in [Missions -> [Cameras -> SUBSET SegmentNumbers]]
    /\ \A m \in Missions : \A c \in Cameras :
          footage[m][c] \subseteq written[m][c] /\ written[m][c] \subseteq 1..segments[m][c]
    /\ process \in {"up", "down", "recovering"} /\ closing \in BOOLEAN /\ restarts \in Nat
    /\ calls \in Seq([kind : {"start", "stop", "close"}, mission : Missions \union {None}])

\* It holds initially.
LEMMA CountedInit == Init => Counted
<1> SUFFICES ASSUME Init PROVE Counted
    OBVIOUS
<1>1. /\ segments \in [Missions -> [Cameras -> 0..MaxSegments]]
      /\ footage \in [Missions -> [Cameras -> SUBSET SegmentNumbers]]
      /\ written = footage
      /\ \A m \in Missions : \A c \in Cameras : footage[m][c] = {}
    BY BoundsAssumption DEF Init
<1>2. process = "up" /\ closing = FALSE /\ restarts = 0 /\ calls = <<>>
    BY DEF Init
<1>3. \A m \in Missions : \A c \in Cameras :
          footage[m][c] \subseteq written[m][c] /\ written[m][c] \subseteq 1..segments[m][c]
    BY <1>1
<1>4. /\ process \in {"up", "down", "recovering"} /\ closing \in BOOLEAN /\ restarts \in Nat
      /\ calls \in Seq([kind : {"start", "stop", "close"}, mission : Missions \union {None}])
  <2>1. closing \in BOOLEAN
    BY <1>2, Zenon
  <2>2. calls \in Seq([kind : {"start", "stop", "close"}, mission : Missions \union {None}])
    BY <1>2
  <2>. QED
    BY <1>2, <2>1, <2>2
<1>. QED
    BY <1>1, <1>3, <1>4 DEF Counted

\* Opening a segment takes the next number, whether or not the file appears.
LEMMA CountedOpenSegment ==
    ASSUME Counted, NEW m \in Missions, NEW c \in Cameras, OpenSegment(m, c)
    PROVE  /\ Counted'
           /\ segments' = [segments EXCEPT ![m][c] = segments[m][c] + 1]
           /\ \A k \in Missions : \A d \in Cameras :
                 written'[k][d] # written[k][d] =>
                     k = m /\ d = c /\ written'[k][d] = written[k][d] \union {segments'[k][d]}
<1> DEFINE n == segments[m][c] + 1
<1>1. /\ n <= MaxSegments /\ segments' = [segments EXCEPT ![m][c] = n]
      /\ \/ /\ footage' = [footage EXCEPT ![m][c] = footage[m][c] \union {n}]
            /\ written' = [written EXCEPT ![m][c] = written[m][c] \union {n}]
         \/ footage' = footage /\ written' = written
      /\ UNCHANGED <<process, closing, restarts, calls>>
    BY DEF OpenSegment, fileVars, processVars
<1>2. segments[m][c] \in Nat /\ n \in 0..MaxSegments /\ n \in SegmentNumbers
    BY <1>1, BoundsAssumption DEF Counted, SegmentNumbers
<1>3. /\ segments' \in [Missions -> [Cameras -> 0..MaxSegments]]
      /\ \A k \in Missions : \A d \in Cameras :
            segments'[k][d] = IF k = m /\ d = c THEN n ELSE segments[k][d]
    BY <1>1, <1>2, CameraUpdate DEF Counted
<1>4. /\ footage' \in [Missions -> [Cameras -> SUBSET SegmentNumbers]]
      /\ written' \in [Missions -> [Cameras -> SUBSET SegmentNumbers]]
      /\ \A k \in Missions : \A d \in Cameras :
            \/ footage'[k][d] = footage[k][d] /\ written'[k][d] = written[k][d]
            \/ /\ k = m /\ d = c
               /\ footage'[k][d] = footage[k][d] \union {n}
               /\ written'[k][d] = written[k][d] \union {n}
  <2>1. CASE footage' = footage /\ written' = written
    BY <2>1 DEF Counted
  <2>2. CASE /\ footage' = [footage EXCEPT ![m][c] = footage[m][c] \union {n}]
             /\ written' = [written EXCEPT ![m][c] = written[m][c] \union {n}]
    <3>1. /\ footage \in [Missions -> [Cameras -> SUBSET SegmentNumbers]]
          /\ written \in [Missions -> [Cameras -> SUBSET SegmentNumbers]]
          /\ footage[m][c] \union {n} \in SUBSET SegmentNumbers
          /\ written[m][c] \union {n} \in SUBSET SegmentNumbers
      BY <1>2 DEF Counted
    <3> HIDE DEF n
    <3>. QED
      BY <2>2, <3>1, CameraUpdate
  <2>. QED
    BY <1>1, <2>1, <2>2
<1>5. ASSUME NEW k \in Missions, NEW d \in Cameras
      PROVE  /\ footage'[k][d] \subseteq written'[k][d]
             /\ written'[k][d] \subseteq 1..segments'[k][d]
  <2>1. /\ footage[k][d] \subseteq written[k][d]
        /\ written[k][d] \subseteq 1..segments[k][d] /\ segments[k][d] \in Nat
    BY DEF Counted
  <2>2. footage'[k][d] \subseteq written'[k][d]
    BY <1>4, <2>1
  <2>3. ASSUME NEW x \in written'[k][d] PROVE x \in 1..segments'[k][d]
    <3> HIDE DEF n
    <3>1. CASE x \in written[k][d]
      <4>1. x \in 1..segments[k][d]
        BY <2>1, <3>1
      <4>2. segments'[k][d] \in {segments[k][d], segments[k][d] + 1}
        BY <1>3 DEF n
      <4>. QED
        BY <2>1, <4>1, <4>2
    <3>2. CASE x \notin written[k][d]
      <4>1. x = n /\ segments'[k][d] = n
        BY <1>3, <1>4, <2>3, <3>2
      <4>. QED
        BY <1>2, <4>1 DEF n
    <3>. QED
      BY <3>1, <3>2
  <2>. QED
    BY <2>2, <2>3
<1>6. Counted'
    BY <1>1, <1>3, <1>4, <1>5 DEF Counted
<1>. QED
    BY <1>1, <1>2, <1>3, <1>4, <1>6

\* Removing footage opens nothing.
LEMMA CountedRemoveFootage ==
    ASSUME RecorderInv, Counted, NEW r \in Runners, RemoveFootage(r)
    PROVE  Counted' /\ UNCHANGED <<segments, written>>
<1>1. UNCHANGED <<segments, written, process, closing, restarts, calls>>
    BY DEF RemoveFootage, sessionVars, LoopOnly, processVars
<1>2. CASE footage' = footage
    BY <1>1, <1>2 DEF Counted
<1>3. CASE footage' # footage
  <2> DEFINE m == MissionOf(r)
  <2>1. m \in Missions
    BY RunnerAlone DEF RemoveFootage, Runs, FinalizerStage
  <2>2. PICK c \in Cameras : \E n \in footage[m][c] :
            footage' = [footage EXCEPT ![m][c] = footage[m][c] \ {n}]
    BY <1>3 DEF RemoveFootage
  <2>3. PICK n \in footage[m][c] : footage' = [footage EXCEPT ![m][c] = footage[m][c] \ {n}]
    BY <2>2
  <2>4. /\ footage \in [Missions -> [Cameras -> SUBSET SegmentNumbers]]
        /\ footage[m][c] \ {n} \in SUBSET SegmentNumbers
    BY <2>1 DEF Counted
  <2> HIDE DEF m
  <2>5. /\ footage' \in [Missions -> [Cameras -> SUBSET SegmentNumbers]]
        /\ \A k \in Missions : \A d \in Cameras : footage'[k][d] \subseteq footage[k][d]
    BY <2>1, <2>3, <2>4, CameraUpdate
  <2>. QED
    BY <1>1, <2>5 DEF Counted
<1>. QED
    BY <1>1, <1>2, <1>3

\* The steps that leave the files and their numbers alone.
CountsNothing ==
    \/ UNCHANGED vars
    \/ \E m \in Missions : \/ Call("start", m) \/ Call("stop", m)
                            \/ WorkerStep(m) \/ CaptureFails(m) \/ MaintainSession(m)
    \/ Call("close", None)
    \/ RunCall \/ MaintainSessions \/ ProcessEnds \/ Restart
    \/ \E r \in Runners :
          \/ \E c \in Cameras : AttemptCamera(r, c)
          \/ ConvertSegments(r) \/ VideoStored(r) \/ UploadAnswered(r) \/ AttemptFails(r)
          \/ FinalizeSession(r) \/ PublishSession(r) \/ PublishOrRemovalFails(r)

LEMMA CountedOther ==
    ASSUME Counted, CountsNothing
    PROVE  Counted' /\ UNCHANGED <<segments, written>>
<1>1. UNCHANGED <<segments, footage, written>>
    BY DEF CountsNothing, vars, sessionVars, fileVars, Call, WorkerStep, WorkerChecks,
           CaptureReturns, WorkerWakes, WorkerAt, CaptureFails, MaintainSession, Maintain,
           RunCall, StartSession, StopSession, Shutdown, RunNext, MaintainSessions, ProcessEnds,
           Restart, ProcessRestarts, RecoverSession, LoopStarts, AttemptCamera,
           ConvertSegments, VideoStored, UploadAnswered, AttemptFails, AttemptEnds,
           FinalizeSession, PublishSession, PublishOrRemovalFails, RunEnds
<1> DEFINE Same == UNCHANGED <<process, closing, restarts, calls>>
           Entry(e) == e \in [kind : {"start", "stop", "close"},
                              mission : Missions \union {None}]
           Fits == /\ process' \in {"up", "down", "recovering"}
                   /\ closing' \in BOOLEAN /\ restarts' \in Nat
                   /\ \/ calls' = calls \/ calls' = <<>>
                      \/ calls # <<>> /\ calls' = Tail(calls)
                      \/ \E e : Entry(e) /\ calls' = Append(calls, e)
<1>2. Same \/ Fits
  <2>1. CASE UNCHANGED vars \/ MaintainSessions
    BY <2>1 DEF vars, processVars, MaintainSessions
  <2>2. ASSUME NEW m \in Missions,
               WorkerStep(m) \/ CaptureFails(m) \/ MaintainSession(m)
        PROVE  Same
    BY <2>2 DEF WorkerStep, WorkerChecks, CaptureReturns, WorkerWakes, WorkerAt, CaptureFails,
                MaintainSession, Maintain, processVars
  <2>3. ASSUME NEW kind \in {"start", "stop", "close"}, NEW x \in Missions \union {None},
               Call(kind, x)
        PROVE  Fits
    <3>1. /\ calls' = Append(calls, [kind |-> kind, mission |-> x])
          /\ UNCHANGED <<process, closing, restarts>>
      BY <2>3 DEF Call, processVars
    <3>2. Entry([kind |-> kind, mission |-> x])
      OBVIOUS
    <3> HIDE DEF Entry
    <3>. QED
      BY <3>1, <3>2 DEF Counted
  <2>4. CASE RunCall
    BY <2>4 DEF RunCall, StartSession, StopSession, Shutdown, RunNext, Counted
  <2>5. CASE ProcessEnds \/ Restart
    <3>1. /\ process' \in {process, "down", "recovering", "up"} /\ closing' \in {closing, FALSE}
          /\ restarts' \in {restarts, restarts + 1} /\ calls' \in {calls, <<>>}
      BY <2>5 DEF ProcessEnds, Restart, ProcessRestarts, RecoverSession, LoopStarts, processVars
    <3>2. closing' \in BOOLEAN
      <4>1. closing' = closing \/ closing' = FALSE
        BY <3>1
      <4>. QED
        BY <4>1, Zenon DEF Counted
    <3>3. process' \in {"up", "down", "recovering"} /\ restarts' \in Nat
      BY <3>1 DEF Counted
    <3>4. calls' = calls \/ calls' = <<>>
      BY <3>1
    <3>. QED
      BY <3>2, <3>3, <3>4
  <2>6. ASSUME NEW r \in Runners,
               \/ \E c \in Cameras : AttemptCamera(r, c)
               \/ ConvertSegments(r) \/ VideoStored(r) \/ UploadAnswered(r) \/ AttemptFails(r)
               \/ FinalizeSession(r) \/ PublishSession(r) \/ PublishOrRemovalFails(r)
        PROVE  Same
    BY <2>6 DEF AttemptCamera, ConvertSegments, VideoStored, UploadAnswered, AttemptFails,
                AttemptEnds, FinalizeSession, PublishSession, PublishOrRemovalFails, RunEnds,
                LoopOnly, processVars
  <2> HIDE DEF Same, Fits
  <2>. QED
    BY <2>1, <2>2, <2>3, <2>4, <2>5, <2>6 DEF CountsNothing
<1>3. /\ process' \in {"up", "down", "recovering"} /\ closing' \in BOOLEAN
      /\ restarts' \in Nat
    BY <1>2 DEF Counted
<1>4. calls' \in Seq([kind : {"start", "stop", "close"}, mission : Missions \union {None}])
  <2>1. CASE calls' = calls
    BY <2>1 DEF Counted
  <2>2. CASE calls' = <<>>
    BY <2>2
  <2>3. CASE calls # <<>> /\ calls' = Tail(calls)
    BY <2>3 DEF Counted
  <2>4. ASSUME NEW e, Entry(e), calls' = Append(calls, e)
        PROVE  calls' \in Seq([kind : {"start", "stop", "close"},
                               mission : Missions \union {None}])
    BY <2>4 DEF Counted
  <2>. QED
    BY <1>2, <2>1, <2>2, <2>3, <2>4
<1>. QED
    BY <1>1, <1>3, <1>4 DEF Counted

\* Every step is of one of the three kinds.
LEMMA CountedStep ==
    RecorderInv /\ Counted /\ [Next]_vars =>
        /\ Counted'
        /\ \A m \in Missions : \A c \in Cameras : \A n \in written'[m][c] \ written[m][c] :
              n = segments[m][c] + 1
<1> SUFFICES ASSUME RecorderInv, Counted, [Next]_vars
             PROVE  /\ Counted'
                    /\ \A m \in Missions : \A c \in Cameras :
                          \A n \in written'[m][c] \ written[m][c] : n = segments[m][c] + 1
    OBVIOUS
<1>1. ASSUME NEW m \in Missions, NEW c \in Cameras, OpenSegment(m, c)
      PROVE  /\ Counted'
             /\ \A k \in Missions : \A d \in Cameras :
                   \A n \in written'[k][d] \ written[k][d] : n = segments[k][d] + 1
  <2>1. segments'[m][c] = segments[m][c] + 1
    BY <1>1, CountedOpenSegment, CameraUpdate DEF Counted
  <2>. QED
    BY <1>1, <2>1, CountedOpenSegment
<1>2. ASSUME NEW r \in Runners, RemoveFootage(r)
      PROVE  Counted' /\ UNCHANGED <<segments, written>>
    BY <1>2, CountedRemoveFootage
<1>3. CASE CountsNothing
    BY <1>3, CountedOther
<1>. QED
    BY <1>1, <1>2, <1>3 DEF Next, FinalizerStep, CountsNothing

\* Every variable has its type, whatever the sessions go through.
THEOREM RecorderTypeCorrect == Spec => []TypeOK
<1>1. RecorderInv /\ Counted => TypeOK
    BY DEF RecorderInv, Shape, Counted, TypeOK, Capturing, FinalizerStage, Attempting
<1>. QED
    BY <1>1, CountedInit, CountedStep, RecorderAlways, PTL DEF Spec

\* A segment goes into a file that never existed before, also after a restart and
\* also when the file of an earlier number was never made: its number is on disk
\* before open_segment returns, so that no footage is written over.
NoFootageOverwritten ==
    [][\A m \in Missions : \A c \in Cameras : \A n \in written'[m][c] \ written[m][c] :
          n = segments[m][c] + 1 /\ \A k \in written[m][c] : k < n]_vars

\* Every segment is given a number above those of all files there ever were.
THEOREM SegmentsAreNew == Spec => NoFootageOverwritten
<1>1. Counted => \A m \in Missions : \A c \in Cameras : \A k \in written[m][c] :
                     k < segments[m][c] + 1
  <2> SUFFICES ASSUME Counted, NEW m \in Missions, NEW c \in Cameras, NEW k \in written[m][c]
               PROVE  k < segments[m][c] + 1
    OBVIOUS
  <2>1. k \in 1..segments[m][c] /\ segments[m][c] \in Nat
    BY DEF Counted
  <2>. QED
    BY <2>1
<1>2. RecorderInv /\ Counted /\ [Next]_vars =>
          [\A m \in Missions : \A c \in Cameras : \A n \in written'[m][c] \ written[m][c] :
              n = segments[m][c] + 1 /\ \A k \in written[m][c] : k < n]_vars
    BY <1>1, CountedStep
<1>. QED
    BY <1>2, CountedInit, CountedStep, RecorderAlways, PTL DEF Spec, NoFootageOverwritten

-----------------------------------------------------------------------------
(* The recorder implements RecordingArchive.                               *)

\* Before the first call nothing is promised.
LEMMA PromiseInit == Init => Promise!Init
BY DEF Init, Promise!Init, Fate, SessionVerdict, Terminal

\* A step that leaves the cameras and the archive alone, and gives or changes no
\* verdict, is none of RecordingArchive's business.
LEMMA PromiseStutter ==
    ASSUME UNCHANGED <<camera, started, archive>>,
           \A m \in Missions : status'[m] = status[m]
                                  \/ {status[m], status'[m]} \intersect Terminal = {}
    PROVE  UNCHANGED Promise!vars
<1>1. Fate' = Fate
    BY DEF Fate
<1>2. SessionVerdict' = SessionVerdict
  <2>1. \A m \in Missions : (IF status'[m] \in Terminal THEN status'[m] ELSE "open")
                              = (IF status[m] \in Terminal THEN status[m] ELSE "open")
    OBVIOUS
  <2>. QED
    BY <2>1 DEF SessionVerdict, Terminal
<1>. QED
    BY <1>1, <1>2 DEF Promise!vars

\* A step that changes one camera, and no verdict, changes one fate.
LEMMA PromiseFate ==
    ASSUME NEW m \in Missions, NEW c \in Cameras, NEW old, NEW new,
           Fate[m][c] = old,
           \A k \in Missions : \A d \in Cameras : k # m \/ d # c =>
               camera'[k][d] = camera[k][d] /\ started'[k][d] = started[k][d],
           new = IF camera'[m][c] \in Terminal THEN camera'[m][c]
                 ELSE IF started'[m][c] THEN "attempted"
                 ELSE IF camera'[m][c] # "none" THEN "recorded" ELSE "none"
    PROVE  Fate' = [Fate EXCEPT ![m][c] = new]
<1> DEFINE F(k, d) == IF camera[k][d] \in Terminal THEN camera[k][d]
                      ELSE IF started[k][d] THEN "attempted"
                      ELSE IF camera[k][d] # "none" THEN "recorded" ELSE "none"
           G(k, d) == IF camera'[k][d] \in Terminal THEN camera'[k][d]
                      ELSE IF started'[k][d] THEN "attempted"
                      ELSE IF camera'[k][d] # "none" THEN "recorded" ELSE "none"
<1>1. \A k \in Missions : \A d \in Cameras : k # m \/ d # c => G(k, d) = F(k, d)
    OBVIOUS
<1>2. G(m, c) = new
    OBVIOUS
<1>3. /\ Fate = [k \in Missions |-> [d \in Cameras |-> F(k, d)]]
      /\ Fate' = [k \in Missions |-> [d \in Cameras |-> G(k, d)]]
    BY DEF Fate, Terminal
<1> HIDE DEF F, G
<1>4. Fate'[m] = [Fate[m] EXCEPT ![c] = new]
    BY <1>1, <1>2, <1>3
<1>5. \A k \in Missions \ {m} : Fate'[k] = Fate[k]
    BY <1>1, <1>3
<1>. QED
    BY <1>3, <1>4, <1>5

\* Opening a segment begins a recording, or continues it.
LEMMA PromiseOpenSegment ==
    ASSUME RecorderInv, NEW m \in Missions, NEW c \in Cameras, OpenSegment(m, c)
    PROVE  [Promise!Next]_(Promise!vars)
<1>1. /\ camera[m][c] \in {"none", "Recording"} /\ ~started[m][c]
      /\ status[m] \notin Terminal
    BY DEF RecorderInv, Undecided, OpenSegment, Capturing
<1>2. /\ camera' = [camera EXCEPT ![m][c] = "Recording"]
      /\ status' = [status EXCEPT ![m] = "Recording"]
      /\ UNCHANGED <<started, archive>>
    BY DEF OpenSegment, publisherVars
<1>3. \A k \in Missions : \A d \in Cameras :
          camera'[k][d] = IF k = m /\ d = c THEN "Recording" ELSE camera[k][d]
    BY <1>2, CameraUpdate DEF RecorderInv, Shape, CameraStatus
<1>4. /\ SessionVerdict' = SessionVerdict
      /\ SessionVerdict[m] = "open"
  <2>1. \A k \in Missions : status'[k] = IF k = m THEN "Recording" ELSE status[k]
    BY <1>2 DEF RecorderInv, Shape
  <2>2. \A k \in Missions : (IF status'[k] \in Terminal THEN status'[k] ELSE "open")
                              = (IF status[k] \in Terminal THEN status[k] ELSE "open")
    BY <1>1, <2>1 DEF Terminal
  <2>. QED
    BY <1>1, <2>2 DEF SessionVerdict
<1>5. CASE camera[m][c] = "none"
  <2>1. Fate[m][c] = "none"
    BY <1>1, <1>5 DEF Fate, Terminal
  <2>2. Fate' = [Fate EXCEPT ![m][c] = "recorded"]
    BY <1>1, <1>2, <1>3, <2>1, PromiseFate DEF Terminal
  <2>. QED
    BY <1>2, <1>4, <2>1, <2>2 DEF Promise!Next, Promise!Record, Promise!SetFate
<1>6. CASE camera[m][c] = "Recording"
  <2>1. \A k \in Missions : \A d \in Cameras : camera'[k][d] = camera[k][d]
    BY <1>3, <1>6
  <2>2. Fate' = Fate
    BY <1>2, <2>1 DEF Fate
  <2>. QED
    BY <1>2, <1>4, <2>2 DEF Promise!vars
<1>. QED
    BY <1>1, <1>5, <1>6

\* An attempt begins, or one that was cut off is given up.
LEMMA PromiseAttemptCamera ==
    ASSUME RecorderInv, NEW r \in Runners, NEW c \in Cameras, AttemptCamera(r, c)
    PROVE  Promise!Next
<1> DEFINE m == MissionOf(r)
<1>1. m \in Missions /\ camera[m][c] \notin {"none"} \union Terminal
    BY RunnerAlone DEF AttemptCamera, Runs, FinalizerStage
<1>2. SessionVerdict' = SessionVerdict /\ UNCHANGED archive
    BY DEF AttemptCamera, SessionVerdict, publisherVars
<1>3. camera \in [Missions -> [Cameras -> CameraStatus]]
      /\ started \in [Missions -> [Cameras -> BOOLEAN]]
    BY DEF RecorderInv, Shape
<1>4. CASE started[m][c]
  <2>1. camera' = [camera EXCEPT ![m][c] = "Expired"] /\ started' = started
    BY <1>4 DEF AttemptCamera, CameraBecomes
  <2>2. Fate[m][c] = "attempted"
    BY <1>1, <1>4 DEF Fate
  <2>3. Fate' = [Fate EXCEPT ![m][c] = "Expired"]
    <3>1. /\ camera'[m][c] = "Expired"
          /\ \A k \in Missions : \A d \in Cameras : k # m \/ d # c => camera'[k][d] = camera[k][d]
      BY <1>1, <1>3, <2>1
    <3>. QED
      BY <1>1, <2>1, <2>2, <3>1, PromiseFate DEF Terminal
  <2>. QED
    BY <1>1, <1>2, <2>2, <2>3 DEF Promise!Next, Promise!GiveUp, Promise!SetFate
<1>5. CASE ~started[m][c]
  <2>1. /\ camera' = [camera EXCEPT ![m][c] = "Processing"]
        /\ started' = [started EXCEPT ![m][c] = TRUE]
    BY <1>5 DEF AttemptCamera, CameraBecomes
  <2>2. Fate[m][c] = "recorded"
    BY <1>1, <1>5 DEF Fate
  <2>3. Fate' = [Fate EXCEPT ![m][c] = "attempted"]
    <3>1. /\ camera'[m][c] = "Processing" /\ started'[m][c]
          /\ \A k \in Missions : \A d \in Cameras : k # m \/ d # c =>
                camera'[k][d] = camera[k][d] /\ started'[k][d] = started[k][d]
      BY <1>1, <1>3, <2>1
    <3>. QED
      BY <1>1, <2>2, <3>1, PromiseFate DEF Terminal
  <2>. QED
    BY <1>1, <1>2, <2>2, <2>3 DEF Promise!Next, Promise!Attempt, Promise!SetFate
<1>. QED
    BY <1>4, <1>5

\* An attempt ends: the video was stored and its camera is ready, or it is given up.
LEMMA PromiseAttemptEnds ==
    ASSUME RecorderInv, NEW r \in Runners, stage[r] \in Attempting,
           NEW value \in Terminal, AttemptEnds(r, value),
           value = "Ready" => stage[r] = "stored"
    PROVE  Promise!Next
<1> DEFINE m == MissionOf(r)
           c == subject[r]
<1>1. /\ m \in Missions /\ c \in Cameras
      /\ started[m][c] /\ camera[m][c] = "Processing"
      /\ value = "Ready" => archive[m][c] = 1
    BY RunnerAlone DEF RecorderInv, Attempts, FinalizerStage
<1>2. /\ camera' = [camera EXCEPT ![m][c] = value]
      /\ UNCHANGED <<status, started, archive>>
    BY DEF AttemptEnds, CameraBecomes, publisherVars
<1>3. Fate[m][c] = "attempted"
    BY <1>1 DEF Fate, Terminal
<1>4. Fate' = [Fate EXCEPT ![m][c] = value]
  <2>1. /\ camera'[m][c] = value
        /\ \A k \in Missions : \A d \in Cameras : k # m \/ d # c => camera'[k][d] = camera[k][d]
    BY <1>1, <1>2 DEF RecorderInv, Shape
  <2>. QED
    BY <1>1, <1>2, <1>3, <2>1, PromiseFate
<1>5. SessionVerdict' = SessionVerdict
    BY <1>2 DEF SessionVerdict
<1>. QED
    BY <1>1, <1>2, <1>3, <1>4, <1>5
    DEF Promise!Next, Promise!Deliver, Promise!GiveUp, Promise!SetFate, Terminal

\* The archive receives the video of the attempt that is under way.
LEMMA PromiseVideoStored ==
    ASSUME RecorderInv, NEW r \in Runners, VideoStored(r)
    PROVE  Promise!Next
<1> DEFINE m == MissionOf(r)
           c == subject[r]
<1>1. stage[r] = "upload"
    BY DEF VideoStored, Runs
<1>2. /\ m \in Missions /\ c \in Cameras
      /\ started[m][c] /\ camera[m][c] = "Processing" /\ archive[m][c] = 0
    BY <1>1, RunnerAlone DEF RecorderInv, Attempts, FinalizerStage, Attempting
<1>3. archive' = [archive EXCEPT ![m][c] = 1]
    BY <1>2 DEF VideoStored
<1>4. Fate[m][c] = "attempted" /\ UNCHANGED <<Fate, SessionVerdict>>
    BY <1>2 DEF VideoStored, sessionVars, Fate, SessionVerdict, Terminal
<1>. QED
    BY <1>2, <1>3, <1>4 DEF Promise!Next, Promise!Archive

\* A session is judged, or its verdict is repeated.
LEMMA PromiseFinalizeSession ==
    ASSUME RecorderInv, NEW r \in Runners, FinalizeSession(r)
    PROVE  [Promise!Next]_(Promise!vars)
<1> DEFINE m == MissionOf(r)
<1>1. m \in Missions /\ Decided(m)
    BY RunnerAlone DEF FinalizeSession, Runs, FinalizerStage
<1>2. /\ status' = [status EXCEPT ![m] = Verdict(m)]
      /\ UNCHANGED <<camera, started, archive>>
    BY DEF FinalizeSession, publisherVars
<1>3. UNCHANGED Fate
    BY <1>2 DEF Fate
<1>4. CASE status[m] \in Terminal
  <2>1. status' = status
    BY <1>1, <1>2, <1>4 DEF RecorderInv, Shape, Judged
  <2>. QED
    BY <1>2, <2>1, PromiseStutter
<1>5. CASE status[m] \notin Terminal
  <2>1. \A c \in Cameras :
            /\ Fate[m][c] \in {"none", "Ready", "Expired"}
            /\ Fate[m][c] = "none" <=> camera[m][c] = "none"
            /\ Fate[m][c] = "Ready" <=> camera[m][c] = "Ready"
            /\ Fate[m][c] = "Expired" <=> camera[m][c] = "Expired"
    <3>1. \A c \in Cameras : camera[m][c] = "none" => ~started[m][c]
      BY <1>1 DEF RecorderInv, Attempts
    <3>. QED
      BY <1>1, <3>1 DEF Fate, Decided, Terminal
  <2>2. Verdict(m) = IF \E c \in Cameras : Fate[m][c] = "Ready"
                         /\ \A d \in Cameras : Fate[m][d] # "Expired"
                     THEN "Ready" ELSE "Expired"
    BY <1>1, <2>1 DEF Verdict, Decided, Terminal
  <2>3. SessionVerdict[m] = "open"
    BY <1>1, <1>5 DEF SessionVerdict
  <2>4. SessionVerdict' = [SessionVerdict EXCEPT ![m] = Verdict(m)]
    BY <1>1, <1>2 DEF SessionVerdict, RecorderInv, Shape, Verdict, Terminal
  <2>. QED
    BY <1>1, <1>2, <1>3, <2>1, <2>2, <2>3, <2>4 DEF Promise!Next, Promise!Judge
<1>. QED
    BY <1>4, <1>5

\* Every other step leaves fates and verdicts as they are.
LEMMA PromiseOther ==
    ASSUME RecorderInv,
           \/ UNCHANGED vars
           \/ \E k, x : Call(k, x)
           \/ RunCall
           \/ \E m \in Missions : WorkerStep(m) \/ CaptureFails(m)
           \/ \E r \in Runners : \/ ConvertSegments(r) \/ RemoveFootage(r)
                                \/ PublishSession(r) \/ PublishOrRemovalFails(r)
           \/ MaintainSessions \/ \E m \in Missions : MaintainSession(m)
           \/ ProcessEnds \/ Restart
    PROVE  UNCHANGED Promise!vars
<1>1. UNCHANGED <<camera, started, archive>>
    BY DEF vars, sessionVars, publisherVars, Call, RunCall, StartSession, StopSession,
           Shutdown, RunNext, WorkerStep, WorkerChecks, CaptureReturns, WorkerWakes,
           WorkerAt, CaptureFails, ConvertSegments, RemoveFootage, PublishSession,
           PublishOrRemovalFails, RunEnds, MaintainSessions, MaintainSession, Maintain,
           ProcessEnds, Restart, ProcessRestarts, RecoverSession, LoopStarts
<1>2. \A m \in Missions : status'[m] = status[m]
                              \/ {status[m], status'[m]} \intersect Terminal = {}
  <2>1. CASE RunCall
    <3>1. CASE StartSession
      <4> DEFINE m == Head(calls).mission
      <4>1. \/ status' = status
            \/ status' = [status EXCEPT ![m] = IF status[m] = "none" THEN "Starting"
                                                ELSE status[m]]
        BY <3>1 DEF StartSession
      <4>. QED
        BY <4>1 DEF RecorderInv, Shape, Terminal
    <3>2. CASE StopSession \/ Shutdown
      BY <3>2 DEF StopSession, Shutdown
    <3>. QED
      BY <2>1, <3>1, <3>2 DEF RunCall
  <2>2. ASSUME NEW m \in Missions, WorkerStep(m) \/ CaptureFails(m)
        PROVE  \A k \in Missions : status'[k] = status[k]
                              \/ {status[k], status'[k]} \intersect Terminal = {}
    <3>1. CASE status' = status
      BY <3>1
    <3>2. CASE status' # status
      <4>1. worker[m] \in Capturing
        BY <2>2 DEF WorkerStep, WorkerChecks, CaptureReturns, WorkerWakes, CaptureFails,
                    WorkerAt, Capturing
      <4>2. PICK s \in {"Processing", "Reconnecting"} : status' = [status EXCEPT ![m] = s]
        BY <2>2, <3>2 DEF WorkerStep, WorkerChecks, CaptureReturns, WorkerWakes,
                          CaptureFails, WorkerAt, sessionVars
      <4>3. status[m] \notin Terminal
        BY <4>1 DEF RecorderInv, Undecided
      <4>. QED
        BY <4>2, <4>3 DEF RecorderInv, Shape, Terminal
    <3>. QED
      BY <3>1, <3>2
  <2>3. ASSUME NEW m \in Missions, RecoverSession(m)
        PROVE  \A k \in Missions : status'[k] = status[k]
                              \/ {status[k], status'[k]} \intersect Terminal = {}
    BY <2>3 DEF RecoverSession, RecorderInv, Shape, Undecided, Known, Terminal
  <2>4. CASE status' = status
    BY <2>4
  <2>. QED
    BY <2>1, <2>2, <2>3, <2>4
       DEF vars, sessionVars, Call, ConvertSegments, RemoveFootage, PublishSession,
           PublishOrRemovalFails, RunEnds, MaintainSessions, MaintainSession, Maintain,
           ProcessEnds, Restart, ProcessRestarts, LoopStarts
<1>. QED
    BY <1>1, <1>2, PromiseStutter

\* The recordings keep what RecordingArchive promises, through every failure and
\* restart: each camera gets one attempt at the archive, fates and verdicts are
\* final, and a recording is ready only if the video of every camera was stored.
THEOREM RecordingsKeepPromise == Spec => KeepsPromise
<1>1. RecorderInv /\ [Next]_vars => [Promise!Next]_(Promise!vars)
  <2> SUFFICES ASSUME RecorderInv, [Next]_vars PROVE [Promise!Next]_(Promise!vars)
    OBVIOUS
  <2>1. ASSUME NEW m \in Missions, NEW c \in Cameras, OpenSegment(m, c)
        PROVE  [Promise!Next]_(Promise!vars)
    BY <2>1, PromiseOpenSegment
  <2>2. ASSUME NEW r \in Runners, NEW c \in Cameras, AttemptCamera(r, c)
        PROVE  [Promise!Next]_(Promise!vars)
    BY <2>2, PromiseAttemptCamera
  <2>3. ASSUME NEW r \in Runners,
               VideoStored(r) \/ UploadAnswered(r) \/ AttemptFails(r) \/ FinalizeSession(r)
        PROVE  [Promise!Next]_(Promise!vars)
    <3>1. CASE UploadAnswered(r)
      BY <3>1, PromiseAttemptEnds DEF UploadAnswered, Runs, Attempting, Terminal
    <3>2. CASE AttemptFails(r)
      BY <3>2, PromiseAttemptEnds DEF AttemptFails, Runs, Attempting, Terminal
    <3>3. CASE VideoStored(r) \/ FinalizeSession(r)
      BY <3>3, PromiseVideoStored, PromiseFinalizeSession
    <3>. QED
      BY <2>3, <3>1, <3>2, <3>3
  <2>. QED
    BY <2>1, <2>2, <2>3, PromiseOther DEF Next, FinalizerStep
<1>. QED
    BY <1>1, PromiseInit, RecorderAlways, PTL DEF Spec, KeepsPromise, Promise!Spec

=============================================================================
