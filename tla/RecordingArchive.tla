-------------------------- MODULE RecordingArchive --------------------------
(***************************************************************************)
(* What the mission recordings promise, whatever the process of the plugin *)
(* goes through: the footage of a camera gets one attempt at the archive,  *)
(* its fate is then decided once and for good, and the verdict on the      *)
(* recording of a mission is given once every fate is known.               *)
(***************************************************************************)
EXTENDS Naturals

CONSTANTS Missions, Cameras

VARIABLES
    fate,      \* of the footage of each camera of each mission
    verdict,   \* on the recording of each mission
    archive    \* how often the video of each camera was stored
vars == <<fate, verdict, archive>>

Init ==
    /\ fate = [m \in Missions |-> [c \in Cameras |-> "none"]]
    /\ verdict = [m \in Missions |-> "open"]
    /\ archive = [m \in Missions |-> [c \in Cameras |-> 0]]

SetFate(m, c, f) == fate' = [fate EXCEPT ![m][c] = f]

\* A camera may open any number of segments until the verdict.
Record(m, c) ==
    /\ verdict[m] = "open" /\ fate[m][c] = "none"
    /\ SetFate(m, c, "recorded")
    /\ UNCHANGED <<verdict, archive>>

Attempt(m, c) ==
    /\ fate[m][c] = "recorded"
    /\ SetFate(m, c, "attempted")
    /\ UNCHANGED <<verdict, archive>>

\* The only way into the archive is the one attempt.
Archive(m, c) ==
    /\ fate[m][c] = "attempted" /\ archive[m][c] = 0
    /\ archive' = [archive EXCEPT ![m][c] = 1]
    /\ UNCHANGED <<fate, verdict>>

Deliver(m, c) ==
    /\ fate[m][c] = "attempted" /\ archive[m][c] = 1
    /\ SetFate(m, c, "Ready")
    /\ UNCHANGED <<verdict, archive>>

GiveUp(m, c) ==
    /\ fate[m][c] = "attempted"
    /\ SetFate(m, c, "Expired")
    /\ UNCHANGED <<verdict, archive>>

Judge(m) ==
    /\ verdict[m] = "open"
    /\ \A c \in Cameras : fate[m][c] \in {"none", "Ready", "Expired"}
    /\ verdict' = [verdict EXCEPT ![m] =
            IF \E c \in Cameras : fate[m][c] = "Ready"
               /\ \A d \in Cameras : fate[m][d] # "Expired"
            THEN "Ready" ELSE "Expired"]
    /\ UNCHANGED <<fate, archive>>

Next ==
    \E m \in Missions :
        \/ Judge(m)
        \/ \E c \in Cameras :
              Record(m, c) \/ Attempt(m, c) \/ Archive(m, c)
                  \/ Deliver(m, c) \/ GiveUp(m, c)

Spec == Init /\ [][Next]_vars
=============================================================================
