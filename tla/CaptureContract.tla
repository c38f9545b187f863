-------------------------- MODULE CaptureContract --------------------------
(***************************************************************************)
(* What MissionRecorder relies on when it runs a capture: segments are     *)
(* opened for any camera until the stop event is set and not after it, a   *)
(* capture returns only when it is told to stop, and it may fail at any    *)
(* time.  A failure does not end the opening of segments: a camera that    *)
(* arrives while the capture closes can still open one.                    *)
(***************************************************************************)
CONSTANT Tracks

VARIABLES
    mode,      \* of the capture
    stopped,   \* the stop event of the session
    opened     \* the tracks that have a segment
vars == <<mode, stopped, opened>>

Init == mode = "running" /\ stopped = FALSE /\ opened = {}

Stop ==
    /\ stopped' = TRUE
    /\ UNCHANGED <<mode, opened>>

Open(tr) ==
    /\ ~stopped
    /\ opened' = opened \union {tr}
    /\ UNCHANGED <<mode, stopped>>

Return ==
    /\ mode = "running" /\ stopped
    /\ mode' = "returned"
    /\ UNCHANGED <<stopped, opened>>

Fail ==
    /\ mode = "running"
    /\ mode' = "raised"
    /\ UNCHANGED <<stopped, opened>>

Next == Stop \/ Return \/ Fail \/ \E tr \in Tracks : Open(tr)

Spec == Init /\ [][Next]_vars
=============================================================================
