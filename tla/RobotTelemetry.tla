--------------------------- MODULE RobotTelemetry ---------------------------
(***************************************************************************)
(* Battery and control status as ISAR sees them.  The callbacks of two     *)
(* event streams replace the last values field by field, while             *)
(* get_robot_status and the battery telemetry read them field by field on  *)
(* other threads, without a lock.  A stream breaks, or is dropped by an    *)
(* event the callback cannot take, and is subscribed to again.             *)
(*                                                                         *)
(* Each event tells the condition the robot is in.  The reported battery   *)
(* status, the client in control and the timestamps are left out: nothing  *)
(* is decided from them.                                                   *)
(***************************************************************************)
EXTENDS Naturals, Sequences

CONSTANTS
    Levels,        \* of the battery, as the robot may report them
    BatteryFull,   \* BATTERY_FULL_VALUE
    AutoDisable,   \* AUTO_DISABLE_PROTECTIVE_STOP
    None,          \* not known, not reported
    MaxChanges     \* bound on the changes of the robot's condition

ASSUME LevelsAssumption == Levels \subseteq Nat /\ BatteryFull \in Nat
ASSUME SettingsAssumption == AutoDisable \in BOOLEAN /\ MaxChanges \in Nat

VARIABLES
    battery, stop,        \* the robot: its battery, its protective stop
    changes,
    connected,            \* the streams that are subscribed to
    level, state,         \* BatteryHandler.battery
    updating,             \* the battery status its callback has yet to store
    engaged,              \* control_status.protective_stop_engaged
    asked,                \* where the reading thread is
    answer, payload,      \* what it got in the end
    \* history: the last events that were taken, and those a call may have seen
    last, lastStop, batteryEvents, stopEvents

robotVars == <<battery, stop, changes>>
readerVars == <<asked, answer, payload>>
history == <<last, lastStop, batteryEvents, stopEvents>>
vars == <<robotVars, connected, level, state, updating, engaged, readerVars, history>>

Streams == {"physical-condition", "control-status"}
BatteryStatus == {"BS_CHARGING", "BS_DISCHARGING", "other"}
BatteryState == {"Charging", "Normal"}
Result ==
    {"Offline", "RobotCommunicationException", "TeleOperation", "Home", "Available",
     "RobotTelemetryNoUpdateException", "ValidationError", "payload"}

ASSUME NoneAssumption ==
    /\ None \notin Levels /\ None \notin BOOLEAN
    /\ None \notin BatteryStatus \union BatteryState \union Result

\* An event without a battery, or with a level out of range, has no level.
BatteryEvents == [level : Levels \union {None}, status : BatteryStatus]
NoEvent == [level |-> None, status |-> "other"]
NoPayload == [level |-> None, state |-> None]
StopEvents == BOOLEAN \union {None}

Init ==
    /\ battery \in BatteryEvents /\ stop \in StopEvents /\ changes = 0
    /\ connected = Streams
    /\ level = None /\ state = None /\ updating = None /\ engaged = None
    /\ asked = "idle" /\ answer = None /\ payload = NoPayload
    /\ last = NoEvent /\ lastStop = None /\ batteryEvents = <<>> /\ stopEvents = {}

-----------------------------------------------------------------------------
RobotChanges ==
    /\ changes < MaxChanges /\ changes' = changes + 1
    /\ \/ battery' \in BatteryEvents /\ UNCHANGED stop
       \/ stop' \in StopEvents /\ UNCHANGED battery
    /\ UNCHANGED <<connected, level, state, updating, engaged, readerVars, history>>

\* subscribe_to_sse: the listener is back in its loop whatever ended the stream.
StreamBreaks(s) ==
    /\ s \in connected
    /\ s = "physical-condition" => updating = None
    /\ connected' = connected \ {s}
    /\ UNCHANGED <<robotVars, level, state, updating, engaged, readerVars, history>>

Reconnects(s) ==
    /\ s \notin connected
    /\ connected' = connected \union {s}
    /\ UNCHANGED <<robotVars, level, state, updating, engaged, readerVars, history>>

-----------------------------------------------------------------------------
(* BatteryHandler                                                          *)

\* Mutant: a status that is not handled is taken over as it is.
MapBatteryStatus_Raw(status) ==
    IF status = "BS_CHARGING" THEN "Charging" ELSE status

MapBatteryStatus(status) ==
    CASE status = "BS_CHARGING" -> "Charging"
      [] status = "BS_DISCHARGING" -> "Normal"
      [] OTHER -> None

\* The events a call under way may have seen.
Seen(events, e) ==
    IF asked = "idle" \/ (events # <<>> /\ events[Len(events)] = e) THEN events
    ELSE Append(events, e)

\* Mutant: each event begins with a new Battery, without a state.
SetBatteryLevel_New ==
    /\ "physical-condition" \in connected /\ updating = None /\ battery.level # None
    /\ level' = battery.level /\ state' = None
    /\ updating' = battery.status
    /\ batteryEvents' = Seen(batteryEvents, battery)
    /\ UNCHANGED <<robotVars, connected, engaged, readerVars, last, lastStop,
                   stopEvents>>

\* update_battery_callback: the level comes first; an event without one leaves
\* everything as it is.
SetBatteryLevel ==
    /\ "physical-condition" \in connected /\ updating = None /\ battery.level # None
    /\ level' = battery.level
    /\ updating' = battery.status
    /\ batteryEvents' = Seen(batteryEvents, battery)
    /\ UNCHANGED <<robotVars, connected, state, engaged, readerVars, last, lastStop,
                   stopEvents>>

\* Mutant: a status that is not handled leaves the state as it was.
SetBatteryState_KeepsState ==
    /\ updating # None
    /\ state' = IF updating = "other" THEN state ELSE MapBatteryStatus(updating)
    /\ last' = [level |-> level, status |-> updating]
    /\ updating' = None
    /\ UNCHANGED <<robotVars, connected, level, engaged, readerVars, lastStop,
                   batteryEvents, stopEvents>>

SetBatteryState ==
    /\ updating # None
    /\ state' = MapBatteryStatus(updating)
    /\ last' = [level |-> level, status |-> updating]
    /\ updating' = None
    /\ UNCHANGED <<robotVars, connected, level, engaged, readerVars, lastStop,
                   batteryEvents, stopEvents>>

(* ControlStatusHandler                                                    *)

ControlEventRead == "control-status" \in connected
ControlOnly ==
    /\ lastStop' = IF stop = None THEN lastStop ELSE stop
    /\ UNCHANGED <<robotVars, level, state, updating, readerVars, last, batteryEvents>>

\* Mutant: the callback raises after it has thrown away the last value.
ControlStatus_Forgets ==
    /\ ControlEventRead
    /\ engaged' = stop
    /\ connected' = IF stop = None THEN connected \ {"control-status"} ELSE connected
    /\ stopEvents' = stopEvents \union ({stop} \ {None})
    /\ ControlOnly

\* Mutant: the end of a protective stop is not taken over.
ControlStatus_OnlyEngages ==
    /\ ControlEventRead
    /\ engaged' = IF stop = TRUE THEN TRUE ELSE engaged
    /\ connected' = IF stop = None THEN connected \ {"control-status"} ELSE connected
    /\ stopEvents' = stopEvents \union ({stop} \ {None})
    /\ ControlOnly

\* update_control_status_callback: an event without a protective stop raises
\* AttributeError, which drops the stream and keeps the last value.
ControlStatus ==
    /\ ControlEventRead
    /\ IF stop = None
       THEN /\ connected' = connected \ {"control-status"}
            /\ UNCHANGED <<engaged, stopEvents>>
       ELSE /\ engaged' = stop
            /\ stopEvents' = stopEvents \union {stop}
            /\ UNCHANGED connected
    /\ ControlOnly

-----------------------------------------------------------------------------
(* get_robot_status and get_battery_telemetry_payload, one read a step.    *)

ReaderAt(at) ==
    /\ asked = at
    /\ UNCHANGED <<robotVars, connected, level, state, updating, engaged, last, lastStop>>

ReaderTo(at) == asked' = at /\ UNCHANGED <<answer, payload, batteryEvents, stopEvents>>

\* The call is over, and what it may have seen is kept beside its answer.
Answers(result) ==
    /\ asked' = "answered" /\ answer' = result
    /\ UNCHANGED <<payload, batteryEvents, stopEvents>>

\* A call begins with the last events that were taken and the one being stored.
Ask(kind) ==
    /\ ReaderAt("idle")
    /\ asked' = kind /\ UNCHANGED <<answer, payload>>
    /\ batteryEvents' =
          IF updating = None THEN <<last>>
          ELSE <<last, [level |-> level, status |-> updating]>>
    /\ stopEvents' = {lastStop}

\* robot_is_online asks the server: not connected, not in its list, no answer.
AskOnline ==
    /\ ReaderAt("status")
    /\ \/ ReaderTo("stop")
       \/ Answers("Offline")
       \/ Answers("RobotCommunicationException")

ReadStop ==
    /\ ReaderAt("stop")
    /\ IF ~AutoDisable /\ engaged = TRUE THEN Answers("TeleOperation")
       ELSE ReaderTo("home state")

\* robot_is_home; its exceptions make get_robot_status say Available.
ReadHomeState ==
    /\ ReaderAt("home state")
    /\ IF state = None THEN Answers("Available") ELSE ReaderTo("home level")

ReadHomeLevel ==
    /\ ReaderAt("home level")
    /\ IF level = None THEN Answers("Available") ELSE ReaderTo("home charging")

ReadCharging ==
    /\ ReaderAt("home charging")
    /\ IF state = "Charging" THEN Answers("Home") ELSE ReaderTo("home full")

ReadFull ==
    /\ ReaderAt("home full")
    /\ Answers(IF level >= BatteryFull THEN "Home" ELSE "Available")

\* get_battery_level, then get_battery_state, which looks at the state twice; the
\* payload model may refuse a state that was unset in between.
ReadLevel ==
    /\ ReaderAt("payload")
    /\ IF level = None THEN Answers("RobotTelemetryNoUpdateException")
       ELSE /\ asked' = "payload state" /\ payload' = [payload EXCEPT !.level = level]
            /\ UNCHANGED <<answer, batteryEvents, stopEvents>>

CheckState ==
    /\ ReaderAt("payload state")
    /\ IF state = None THEN Answers("RobotTelemetryNoUpdateException")
       ELSE ReaderTo("payload return")

ReadState ==
    /\ ReaderAt("payload return")
    /\ \/ state = None /\ Answers("ValidationError")
       \/ /\ asked' = "answered" /\ answer' = "payload"
          /\ payload' = [payload EXCEPT !.state = state]
          /\ UNCHANGED <<batteryEvents, stopEvents>>

Finish ==
    /\ ReaderAt("answered")
    /\ asked' = "idle" /\ answer' = None /\ payload' = NoPayload
    /\ batteryEvents' = <<>> /\ stopEvents' = {}

Reader ==
    \/ Ask("status") \/ AskOnline \/ ReadStop
    \/ ReadHomeState \/ ReadHomeLevel \/ ReadCharging \/ ReadFull
    \/ Ask("payload") \/ ReadLevel \/ CheckState \/ ReadState
    \/ Finish

Next ==
    \/ RobotChanges
    \/ SetBatteryLevel \/ SetBatteryState \/ ControlStatus
    \/ \E s \in Streams : StreamBreaks(s) \/ Reconnects(s)
    \/ Reader

\* Listeners reconnect for ever, and not every connection breaks before its
\* first event: the streams repeat the condition of the robot.
Fairness ==
    /\ \A s \in Streams : WF_vars(Reconnects(s))
    /\ WF_vars(SetBatteryState)
    /\ SF_vars(SetBatteryLevel) /\ SF_vars(ControlStatus)

Spec == Init /\ [][Next]_vars
FairSpec == Spec /\ Fairness

-----------------------------------------------------------------------------
TypeOK ==
    /\ battery \in BatteryEvents /\ stop \in StopEvents /\ changes \in 0..MaxChanges
    /\ connected \subseteq Streams
    /\ level \in Levels \union {None} /\ state \in BatteryState \union {None}
    /\ updating \in BatteryStatus \union {None} /\ engaged \in StopEvents
    /\ asked \in {"idle", "status", "stop", "home state", "home level", "home charging",
                  "home full", "payload", "payload state", "payload return", "answered"}
    /\ answer \in Result \union {None}
    /\ payload \in [level : Levels \union {None}, state : BatteryState \union {None}]
    /\ last \in BatteryEvents /\ batteryEvents \in Seq(BatteryEvents)
    /\ lastStop \in StopEvents /\ stopEvents \subseteq StopEvents

SaysHome(e) ==
    /\ e.level # None
    /\ \/ e.status = "BS_CHARGING"
       \/ e.status = "BS_DISCHARGING" /\ e.level >= BatteryFull

Rising == \A i, j \in DOMAIN batteryEvents :
              i <= j => batteryEvents[i].level <= batteryEvents[j].level

\* A robot that is charged at its dock is never reported as away, also while the
\* event that says that it stopped charging because it is full is half stored.
\* (Not promised when the level falls: a full robot that takes up charging again
\* a little below the threshold shows as away between the two assignments.)
DockedIsHome ==
    answer = "Available" =>
        ~((\A i \in DOMAIN batteryEvents : SaysHome(batteryEvents[i])) /\ Rising)

\* What is answered was told by events stored during the call or by the last one
\* before it: Home needs one that was charging or full, and a payload has the
\* level of one and the state of one, never what an older event has left.
AnswersAreCurrent ==
    /\ answer = "Home" =>
          \E i \in DOMAIN batteryEvents :
              LET e == batteryEvents[i]
              IN  e.level # None /\ (SaysHome(e) \/ e.level >= BatteryFull)
    /\ answer = "payload" =>
          \E i, j \in DOMAIN batteryEvents :
              /\ batteryEvents[i].level = payload.level
              /\ MapBatteryStatus(batteryEvents[j].status) = payload.state

\* An operator who has engaged the protective stop is never reported as a robot
\* that ISAR may use: the last event that told of a stop before the call counts,
\* whatever events could not be taken since.
EngagedIsReported ==
    ~AutoDisable /\ answer \in {"Home", "Available"} => stopEvents # {TRUE}

\* What ISAR sees becomes what the robot says, and stays it, after any number of
\* broken streams and of events that could not be taken.
TelemetryFollows ==
    <>[](/\ battery.level # None =>
                level = battery.level /\ state = MapBatteryStatus(battery.status)
         /\ stop # None => engaged = stop)
=============================================================================
