--------------------------- MODULE LiveKitCapture ---------------------------
(***************************************************************************)
(* capture_livekit: one capture of a mission.  On the asyncio loop of the  *)
(* recorder run the monitor, a task per video track, the keep-alive and    *)
(* the callbacks of the room; frames are encoded on other threads.         *)
(*                                                                         *)
(* A step is what a task does between two awaits.  A tick is half of the   *)
(* grace for the first frames, and long compared with the interval at      *)
(* which the monitor polls.                                                *)
(***************************************************************************)
EXTENDS Naturals

CONSTANTS
    Tracks,       \* the video tracks the room may offer, each of its own camera
    FirstFrame,   \* FIRST_FRAME_TIMEOUT in ticks
    Stall         \* FRAME_STALL_TIMEOUT in ticks

ASSUME TimesAssumption == FirstFrame \in Nat /\ Stall \in Nat

VARIABLES
    stop,         \* the stop event of the session
    place,        \* where capture() is
    failing,      \* it leaves its try block with an exception
    failure,      \* the failure future is done
    keepalive,    \* the task _keep_cameras_active
    task,         \* _record_track of each track
    cancelled,    \* tracks whose task is cancelled and waits for its frame
    encoder,      \* of each track
    muxing,       \* tracks with a frame on an encoding thread
    draining,     \* tracks whose tasks _close_capture waits for
    observed,     \* cameras the stall check looks at
    connectedFor, silent,   \* time since the connection, and since the last frame
    polled,       \* the monitor has polled since the last tick
    \* history
    opened,       \* tracks that were given a segment
    cut           \* tracks whose stream did not close properly

taskVars == <<task, cancelled, encoder, muxing, opened, cut>>
timeVars == <<observed, connectedFor, silent, polled>>
vars == <<stop, place, failing, failure, keepalive, taskVars, draining, timeVars>>

Init ==
    /\ stop = FALSE /\ place = "start" /\ failing = FALSE /\ failure = FALSE
    /\ keepalive = "none"
    /\ task = [tr \in Tracks |-> "none"]
    /\ encoder = task
    /\ cancelled = {} /\ muxing = {} /\ opened = {} /\ cut = {}
    /\ draining = {} /\ observed = {}
    /\ connectedFor = 0 /\ silent = [tr \in Tracks |-> 0] /\ polled = FALSE

TaskTo(tr, at) == task' = [task EXCEPT ![tr] = at]
Ended == place \in {"returned", "raised"}
RoomIsOpen == place \in {"connecting", "monitor", "draining", "disconnecting"}

\* The stop event is set by the recorder, at any time.
Stop ==
    /\ stop' = TRUE
    /\ UNCHANGED <<place, failing, failure, keepalive, taskVars, draining, timeVars>>

-----------------------------------------------------------------------------
(* _record_track                                                           *)

TaskOnly == UNCHANGED <<stop, place, failing, keepalive, draining, connectedFor, polled>>

\* _start_video_track, called by the room.  A member of Tracks is one
\* subscription: a camera that is subscribed anew gets a task, an encoder and a
\* file of its own in the code as well, and counts as another member.  (They
\* share an entry of observed, which is not read any more: the loss of the first
\* subscription has failed the capture.)
TrackSubscribed(tr) ==
    /\ RoomIsOpen /\ task[tr] = "none"
    /\ TaskTo(tr, "new")
    /\ UNCHANGED <<failure, cancelled, encoder, muxing, opened, cut, observed, silent>>
    /\ TaskOnly

TaskStarts(tr) ==
    /\ task[tr] = "new" /\ TaskTo(tr, "frames")
    /\ observed' = observed \union {tr}
    /\ silent' = [silent EXCEPT ![tr] = 0]
    /\ UNCHANGED <<failure, cancelled, encoder, muxing, opened, cut>> /\ TaskOnly

\* Mutant: the stop event is not looked at when a frame arrives.
FrameArrives_AfterStop(tr) ==
    /\ task[tr] = "frames"
    /\ TaskTo(tr, "encoding") /\ muxing' = muxing \union {tr}
    /\ opened' = opened \union {tr}
    /\ encoder' = [encoder EXCEPT ![tr] = "open"]
    /\ UNCHANGED <<failure, cancelled, cut, observed, silent>> /\ TaskOnly

\* The first frame opens a segment, which may raise; each frame goes to a thread.
FrameArrives(tr) ==
    /\ task[tr] = "frames"
    /\ \/ stop /\ TaskTo(tr, "closing") /\ UNCHANGED <<failure, encoder, muxing, opened>>
       \/ /\ ~stop
          /\ TaskTo(tr, "encoding") /\ muxing' = muxing \union {tr}
          /\ opened' = opened \union {tr}
          /\ encoder' = [encoder EXCEPT ![tr] = "open"]
          /\ UNCHANGED failure
       \/ /\ ~stop /\ encoder[tr] = "none"
          /\ TaskTo(tr, "closing") /\ failure' = TRUE
          /\ \E given \in BOOLEAN : opened' = IF given THEN opened \union {tr} ELSE opened
          /\ UNCHANGED <<encoder, muxing>>
    /\ UNCHANGED <<cancelled, cut, observed, silent>> /\ TaskOnly

\* The thread is done with the frame, and encode_event goes on.  An exception of
\* the encoder or of update_camera is reported, also in a task that is cancelled.
FrameEncoded(tr) ==
    /\ task[tr] = "encoding" /\ tr \in muxing
    /\ muxing' = muxing \ {tr} /\ cancelled' = cancelled \ {tr}
    /\ \/ /\ tr \notin cancelled /\ TaskTo(tr, "frames")
          /\ silent' = [silent EXCEPT ![tr] = 0] /\ UNCHANGED failure
       \/ /\ tr \in cancelled /\ TaskTo(tr, "closing") /\ UNCHANGED <<silent, failure>>
       \/ /\ TaskTo(tr, "closing") /\ failure' = TRUE /\ UNCHANGED silent
    /\ UNCHANGED <<encoder, opened, cut, observed>> /\ TaskOnly

\* The track gives no more frames, which nobody is told.
StreamEnds(tr) ==
    /\ task[tr] = "frames" /\ TaskTo(tr, "closing")
    /\ UNCHANGED <<failure, cancelled, encoder, muxing, opened, cut, observed, silent>>
    /\ TaskOnly

\* finally: the stream is closed, then the encoder -- unless closing the stream
\* raises, of which nobody is told either.
StreamCloses(tr) ==
    /\ task[tr] = "closing" /\ TaskTo(tr, "done")
    /\ \/ /\ encoder' = [encoder EXCEPT ![tr] = IF @ = "open" THEN "closed" ELSE @]
          /\ UNCHANGED cut
       \/ cut' = cut \union {tr} /\ UNCHANGED encoder
    /\ UNCHANGED <<failure, cancelled, muxing, opened, observed, silent>> /\ TaskOnly

\* _handle_track_unsubscribed, _handle_disconnection
RoomReportsLoss ==
    /\ RoomIsOpen /\ failure' = TRUE
    /\ UNCHANGED <<taskVars, observed, silent>> /\ TaskOnly

-----------------------------------------------------------------------------
(* _keep_cameras_active                                                    *)

KeepaliveStep(from, to) ==
    /\ keepalive = from /\ keepalive' = to
    /\ UNCHANGED <<stop, place, failing, failure, taskVars, draining, timeVars>>

KeepaliveWakes == KeepaliveStep("sleeping", "calling")
KeepaliveAnswered == KeepaliveStep("calling", "sleeping")
KeepaliveRaises == KeepaliveStep("calling", "failed")

-----------------------------------------------------------------------------
(* capture                                                                 *)

CaptureOnly == UNCHANGED <<stop, failure, timeVars>>

\* generate_config raises before there is anything to close.
GenerateConfig ==
    /\ place = "start"
    /\ \/ place' = "connecting" /\ keepalive' = "sleeping"
       \/ place' = "raised" /\ UNCHANGED keepalive
    /\ UNCHANGED <<failing, taskVars, draining>> /\ CaptureOnly

\* Mutant: a cancelled task closes its encoder at once.
CloseCapture_NoShield(error) ==
    /\ place' = "draining" /\ failing' = error
    /\ keepalive' = "cancelled"
    /\ draining' = {tr \in Tracks : task[tr] \notin {"none", "done"}}
    /\ task' = [tr \in Tracks |->
          CASE task[tr] \in {"frames", "encoding"} -> "closing"
            [] task[tr] \in {"new", "closing"} -> "done"
            [] OTHER -> task[tr]]
    /\ cut' = cut \union {tr \in Tracks : task[tr] = "closing"}
    /\ UNCHANGED <<cancelled, encoder, muxing, opened>> /\ CaptureOnly

\* _close_capture cancels the tasks there are.  One that has not run yet never
\* will; one that waits for a frame closes its stream; one that encodes finishes
\* first; one that is closing its stream is cut off before its encoder.
CloseCapture(error) ==
    /\ place' = "draining" /\ failing' = error
    /\ keepalive' = "cancelled"
    /\ draining' = {tr \in Tracks : task[tr] \notin {"none", "done"}}
    /\ cancelled' = {tr \in Tracks : task[tr] = "encoding"}
    /\ task' = [tr \in Tracks |->
          CASE task[tr] = "frames" -> "closing"
            [] task[tr] \in {"new", "closing"} -> "done"
            [] OTHER -> task[tr]]
    /\ cut' = cut \union {tr \in Tracks : task[tr] = "closing"}
    /\ UNCHANGED <<encoder, muxing, opened>> /\ CaptureOnly

\* room.connect, for at most ROOM_CONNECT_TIMEOUT.
Connect ==
    /\ place = "connecting"
    /\ \/ /\ place' = "monitor"
          /\ connectedFor' = 0 /\ polled' = FALSE
          /\ UNCHANGED <<failing, keepalive, taskVars, draining, stop, failure,
                         observed, silent>>
       \/ CloseCapture(TRUE)

\* Mutant: one camera that sends frames is enough.
Stalled_All ==
    /\ connectedFor > FirstFrame
    /\ \A tr \in observed : silent[tr] > Stall

\* _check_frame_progress
Stalled ==
    /\ connectedFor > FirstFrame
    /\ observed = {} \/ \E tr \in observed : silent[tr] > Stall

\* Mutant: a keep-alive that failed is not looked at.
MonitorFails_KeepaliveIgnored ==
    /\ place = "monitor" /\ ~stop
    /\ failure \/ Stalled
    /\ CloseCapture(TRUE)

MonitorFails ==
    /\ place = "monitor" /\ ~stop
    /\ failure \/ keepalive = "failed" \/ Stalled
    /\ CloseCapture(TRUE)

MonitorStops == place = "monitor" /\ stop /\ CloseCapture(FALSE)

\* Nothing to report; the monitor sleeps until its next poll.
MonitorPolls ==
    /\ place = "monitor" /\ ~stop
    /\ ~failure /\ keepalive # "failed" /\ ~Stalled
    /\ ~polled /\ polled' = TRUE
    /\ UNCHANGED <<stop, place, failing, failure, keepalive, taskVars, draining,
                   observed, connectedFor, silent>>

\* asyncio.gather
TasksGathered ==
    /\ place = "draining" /\ \A tr \in draining : task[tr] = "done"
    /\ place' = "disconnecting"
    /\ UNCHANGED <<failing, keepalive, taskVars, draining>> /\ CaptureOnly

\* room.disconnect, which may raise as well.
Disconnect ==
    /\ place = "disconnecting"
    /\ place' \in {IF failing THEN "raised" ELSE "returned", "raised"}
    /\ UNCHANGED <<failing, keepalive, taskVars, draining>> /\ CaptureOnly

-----------------------------------------------------------------------------
Tick ==
    /\ place = "monitor" /\ polled
    /\ connectedFor' = IF connectedFor > FirstFrame THEN connectedFor ELSE connectedFor + 1
    /\ silent' = [tr \in Tracks |->
          IF tr \in observed /\ silent[tr] <= Stall THEN silent[tr] + 1 ELSE silent[tr]]
    /\ polled' = FALSE
    /\ UNCHANGED <<stop, place, failing, failure, keepalive, taskVars, draining, observed>>

TrackStep(tr) ==
    \/ TrackSubscribed(tr) \/ TaskStarts(tr) \/ FrameArrives(tr)
    \/ FrameEncoded(tr) \/ StreamEnds(tr) \/ StreamCloses(tr)

CaptureStep ==
    \/ GenerateConfig \/ Connect \/ MonitorFails \/ MonitorStops \/ MonitorPolls
    \/ TasksGathered \/ Disconnect

Next ==
    \/ Stop \/ RoomReportsLoss
    \/ \E tr \in Tracks : TrackStep(tr)
    \/ KeepaliveWakes \/ KeepaliveAnswered \/ KeepaliveRaises
    \/ CaptureStep
    \/ Tick

\* The loop runs its tasks, a frame gets encoded, a stream closes and time goes
\* by.  Nobody has to stop the capture, or to send a frame.
Fairness ==
    /\ WF_vars(CaptureStep) /\ WF_vars(Tick)
    /\ \A tr \in Tracks : WF_vars(FrameEncoded(tr) \/ StreamCloses(tr))

Spec == Init /\ [][Next]_vars
FairSpec == Spec /\ Fairness

-----------------------------------------------------------------------------
TypeOK ==
    /\ stop \in BOOLEAN /\ failing \in BOOLEAN /\ failure \in BOOLEAN
    /\ place \in {"start", "connecting", "monitor", "draining", "disconnecting",
                  "returned", "raised"}
    /\ keepalive \in {"none", "sleeping", "calling", "failed", "cancelled"}
    /\ task \in [Tracks -> {"none", "new", "frames", "encoding", "closing", "done"}]
    /\ encoder \in [Tracks -> {"none", "open", "closed"}]
    /\ muxing = {tr \in Tracks : task[tr] = "encoding"}
    /\ cancelled \subseteq muxing
    /\ draining \subseteq Tracks /\ observed \subseteq Tracks
    /\ opened \subseteq Tracks /\ cut \subseteq Tracks
    /\ connectedFor \in 0..FirstFrame + 1 /\ silent \in [Tracks -> 0..Stall + 1]
    /\ polled \in BOOLEAN

\* What MissionRecorder relies on: no segment after the stop, and no return
\* before it.
Contract == INSTANCE CaptureContract WITH
    mode <- IF Ended THEN place ELSE "running",
    stopped <- stop
KeepsContract == Contract!Spec

\* No encoder is closed while a thread still writes to it, and when the room is
\* left every task that was recording has closed its own -- unless its stream
\* did not close, or was being closed when the capture was.
FootageClosed ==
    /\ \A tr \in Tracks : encoder[tr] = "closed" => tr \notin muxing
    /\ place = "disconnecting" \/ Ended =>
          \A tr \in draining \ cut : encoder[tr] # "open"

\* A camera that falls silent, a room without cameras: while the capture goes on,
\* neither lasts, whatever the other cameras send.
SilenceEnds ==
    /\ \A tr \in Tracks :
          silent[tr] > 0 /\ place = "monitor" ~> silent[tr] = 0 \/ place # "monitor"
    /\ place = "monitor" /\ observed = {} ~> observed # {} \/ place # "monitor"

\* A capture that is told to stop, was told of a loss, or cannot keep its cameras
\* active ends, whatever its tasks are doing.
CaptureEnds == stop \/ failure \/ keepalive = "failed" ~> Ended
=============================================================================
