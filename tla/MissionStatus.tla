--------------------------- MODULE MissionStatus ---------------------------
(***************************************************************************)
(* The pure half of the mission supervision: how MissionStatusHandler      *)
(* turns the body of one mission-progress event of the ANYmal into the     *)
(* task and mission statuses ISAR understands, and the remapping Robot     *)
(* applies to stored missions.  Nothing here has state; MissionControl     *)
(* decides which event the pieces are read from, and when.                 *)
(*                                                                         *)
(* A task summary is a record [task, status, outcome]; an exception that   *)
(* the code raises is a value of its own.                                  *)
(***************************************************************************)
EXTENDS Naturals, Sequences

ANYmalMissionStatus ==
    {"MS_NA", "MS_RUNNING", "MS_PAUSED", "MS_COMPLETED", "UNRECOGNIZED"}

ANYmalTaskStatus ==
    {"TS_NA", "TS_UPCOMING", "TS_ONGOING", "TS_PREEMPTED", "TS_COMPLETED",
     "UNRECOGNIZED"}

Outcome ==
    {"OC_NA", "OC_SUCCESS", "OC_FAILURE", "OC_NORMAL", "OC_ANOMALY",
     "UNRECOGNIZED"}

\* The values of ISAR's TaskStatus and MissionStatus the plugin can return.
IsarTaskStatus == {"NotStarted", "InProgress", "Paused", "Successful", "Failed"}
IsarMissionStatus ==
    IsarTaskStatus \union {"Cancelled", "PartiallySuccessful"}

\* RobotTaskStatusException and RobotMissionStatusException.
TaskStatusError == "RobotTaskStatusException"
MissionStatusError == "RobotMissionStatusException"

Undock == "undock"

Summary(TaskIds) ==
    [task: TaskIds, status: ANYmalTaskStatus, outcome: Outcome]

\* Anomalies are successful outcomes from the ISAR perspective.
GoodOutcome == {"OC_SUCCESS", "OC_NORMAL", "OC_ANOMALY"}

-----------------------------------------------------------------------------
(* One task.                                                               *)

\* Mutant: a combination no branch handles falls through and returns None.
TaskStatusOf_FallsThrough(status, outcome) ==
    CASE status = "TS_COMPLETED" /\ outcome \in GoodOutcome  -> "Successful"
      [] status = "TS_COMPLETED" /\ outcome = "OC_FAILURE"   -> "Failed"
      [] status = "TS_ONGOING"   -> "InProgress"
      [] status = "TS_UPCOMING"  -> "NotStarted"
      [] status = "TS_PREEMPTED" -> "Paused"
      [] OTHER                   -> "None"

TaskStatusOf(status, outcome) ==
    CASE status = "TS_COMPLETED" /\ outcome \in GoodOutcome  -> "Successful"
      [] status = "TS_COMPLETED" /\ outcome = "OC_FAILURE"   -> "Failed"
      [] status = "TS_ONGOING"   -> "InProgress"
      [] status = "TS_UPCOMING"  -> "NotStarted"
      [] status = "TS_PREEMPTED" -> "Paused"
      [] OTHER                   -> TaskStatusError

\* The robot never left its dock, so no other task will run.
UndockFailed(summaries) ==
    \E i \in DOMAIN summaries :
        /\ summaries[i].task = Undock
        /\ summaries[i].status = "TS_COMPLETED"
        /\ summaries[i].outcome = "OC_FAILURE"

Matches(summaries, taskId) ==
    {i \in DOMAIN summaries : summaries[i].task = taskId}

\* The loop keeps the last summary that carries the task's id.
LastMatch(summaries, taskId) ==
    CHOOSE i \in Matches(summaries, taskId) :
        \A j \in Matches(summaries, taskId) : j <= i

\* Mutant: the loop stops at the first summary of the task, so a failed
\* undock listed after it goes unseen.
TaskStatusIn_StopsAtTask(summaries, taskId) ==
    LET ahead(i) == SubSeq(summaries, 1, i)
        first == CHOOSE i \in Matches(summaries, taskId) :
                    \A j \in Matches(summaries, taskId) : i <= j
    IN  IF Matches(summaries, taskId) = {}
        THEN IF UndockFailed(summaries) THEN "Failed" ELSE TaskStatusError
        ELSE IF taskId # Undock /\ UndockFailed(ahead(first)) THEN "Failed"
             ELSE TaskStatusOf(summaries[first].status, summaries[first].outcome)

TaskStatusIn(summaries, taskId) ==
    IF taskId # Undock /\ UndockFailed(summaries) THEN "Failed"
    ELSE IF Matches(summaries, taskId) = {} THEN TaskStatusError
    ELSE LET last == summaries[LastMatch(summaries, taskId)]
         IN  TaskStatusOf(last.status, last.outcome)

-----------------------------------------------------------------------------
(* The whole mission.                                                      *)

TaskStatusesOf(summaries) ==
    {TaskStatusOf(summaries[i].status, summaries[i].outcome) :
        i \in DOMAIN summaries}

\* Mutant: one successful task is enough.
Verdict_AnySuccess(statuses) ==
    CASE statuses \subseteq {"NotStarted"}                  -> "NotStarted"
      [] statuses \intersect {"InProgress", "NotStarted"} # {} -> "InProgress"
      [] "Successful" \in statuses                          -> "Successful"
      [] statuses = {"Failed"}                              -> "Failed"
      [] OTHER                                              -> MissionStatusError

\* The verdict on a mission that is neither running nor paused.  The order of
\* the cases is the code's; all() of an empty list is the first case.
Verdict(statuses) ==
    IF statuses \subseteq {"NotStarted"} THEN "NotStarted"
    ELSE IF statuses \intersect {"InProgress", "NotStarted"} # {} THEN "InProgress"
    ELSE IF statuses = {"Successful"} THEN "Successful"
    ELSE IF statuses = {"Failed"} THEN "Failed"
    ELSE IF "Cancelled" \in statuses THEN "Cancelled"
    ELSE IF "Failed" \in statuses THEN "PartiallySuccessful"
    ELSE MissionStatusError

\* A stored mission without task summaries is judged by the event's outcome.
StoredVerdict(status, outcome) ==
    CASE status = "MS_COMPLETED" /\ outcome \in GoodOutcome -> "Successful"
      [] status = "MS_COMPLETED" /\ outcome = "OC_FAILURE"  -> "Failed"
      [] OTHER                                              -> MissionStatusError

\* MissionStatusHandler.get_mission_status.  The three pieces are parameters
\* because the code reads them from last_mission_event one after the other.
MissionStatusFrom(status, summaries, outcome, stored) ==
    CASE status = "MS_PAUSED"  -> "Paused"
      [] status = "MS_RUNNING" -> "InProgress"
      [] status = "MS_NA"      -> MissionStatusError
      [] OTHER ->
           IF TaskStatusError \in TaskStatusesOf(summaries) THEN MissionStatusError
           ELSE IF stored /\ summaries = <<>> THEN StoredVerdict(status, outcome)
           ELSE Verdict(TaskStatusesOf(summaries))

\* Robot._mission_status: a stored mission is never partially successful.
ReportedStatus(status, stored) ==
    IF stored /\ status = "PartiallySuccessful" THEN "Failed" ELSE status

\* The mission status ISAR gets when every piece is read from one event.
StatusOfEvent(event, stored) ==
    ReportedStatus(MissionStatusFrom(event.status, event.summaries,
                                     event.outcome, stored),
                   stored)

Finished == {"Successful", "Failed", "PartiallySuccessful", "Cancelled"}

-----------------------------------------------------------------------------
(* What leaves Robot.  mission_summary is optional in MissionEventDto, and *)
(* the handler reads it without a check.                                   *)

\* The body of an event without a mission summary.
NoSummary == [status |-> "none", summaries |-> <<>>, outcome |-> "none"]

Unexpected == "AttributeError"

\* Mutant: only the exceptions the handler raises itself are expected.
Guarded_Escapes(value, error) == value

\* task_status and mission_status turn every exception that is not a
\* RobotException into one: ISAR's monitoring survives no other.
Guarded(value, error) == IF value = Unexpected THEN error ELSE value

MissionStatusReported(event, stored) ==
    Guarded(IF event = NoSummary THEN Unexpected ELSE StatusOfEvent(event, stored),
            MissionStatusError)

TaskStatusReported(event, taskId) ==
    Guarded(IF event = NoSummary THEN Unexpected
            ELSE TaskStatusIn(event.summaries, taskId),
            TaskStatusError)
=============================================================================
