-------------------------- MODULE MCMissionStatus --------------------------
(***************************************************************************)
(* The status mapping over every event body of at most MaxSummaries task   *)
(* summaries, and the body without a mission summary: one state per event  *)
(* body, and no steps.                                                     *)
(***************************************************************************)
EXTENDS MissionStatus

CONSTANTS TaskIds,          \* task ids that occur in summaries, Undock included
          MaxSummaries,     \* bound on the length of a summary list
          OutcomesUsed      \* the outcomes summaries are built from

ASSUME MCAssumption ==
    /\ Undock \in TaskIds
    /\ MaxSummaries \in Nat
    /\ OutcomesUsed \subseteq Outcome

VARIABLES event, stored
vars == <<event, stored>>

SummaryLists ==
    UNION {[1..n -> {s \in Summary(TaskIds) : s.outcome \in OutcomesUsed}] :
               n \in 0..MaxSummaries}

Bodies ==
    [status: ANYmalMissionStatus, summaries: SummaryLists, outcome: OutcomesUsed]
        \union {NoSummary}

Init ==
    /\ event \in Bodies
    /\ stored \in BOOLEAN

Next == UNCHANGED vars
Spec == Init /\ [][Next]_vars

-----------------------------------------------------------------------------
Reported == MissionStatusReported(event, stored)
TaskReported(t) == TaskStatusReported(event, t)
Unfinished == {"NotStarted", "InProgress"}
Reversed(s) == [i \in DOMAIN s |-> s[Len(s) + 1 - i]]

\* A type invariant: whatever the robot sends, values the plugin does not know
\* and an event without a mission summary included, the mapping yields a status
\* of ISAR or raises a RobotException, which are the only exceptions ISAR's
\* monitoring survives.
TypeOK ==
    /\ Reported \in IsarMissionStatus \union {MissionStatusError}
    /\ \A t \in TaskIds : TaskReported(t) \in IsarTaskStatus \union {TaskStatusError}

\* The two views ISAR polls never contradict each other: a mission is
\* reported successful only when get_task_status reports every one of its
\* tasks successful, failed only when (with task summaries) every task is
\* failed, or some task for a stored mission, and partially successful only
\* when some task is failed.  A mission the robot does not call running is
\* reported waiting or going on only on account of a task that is: a stored
\* mission without task summaries never, and of the others only one of which
\* the robot lists no task at all.
TaskAndMissionAgree ==
    LET tasks == {event.summaries[i].task : i \in DOMAIN event.summaries}
        views == {TaskReported(t) : t \in tasks}
    IN  /\ Reported = "Successful" => views \subseteq {"Successful"}
        /\ Reported = "Failed" /\ tasks # {} =>
              IF stored THEN "Failed" \in views \union TaskStatusesOf(event.summaries)
                        ELSE views = {"Failed"}
        /\ Reported = "PartiallySuccessful" =>
              "Failed" \in views \union TaskStatusesOf(event.summaries)
        /\ event.status # "MS_RUNNING" /\ Reported \in Unfinished =>
              \/ Unfinished \intersect TaskStatusesOf(event.summaries) # {}
              \/ tasks = {} /\ ~stored

\* The order in which the robot lists its tasks carries no information: the
\* mission status never depends on it, and with one summary per task neither
\* does a task status, wherever the failed undock is listed.
OrderIrrelevant ==
    LET back == [event EXCEPT !.summaries = Reversed(@)]
        unique == \A i, j \in DOMAIN event.summaries :
                     event.summaries[i].task = event.summaries[j].task => i = j
    IN  /\ MissionStatusReported(back, stored) = Reported
        /\ unique => \A t \in TaskIds :
              TaskStatusReported(back, t) = TaskReported(t)
=============================================================================
